---------------------------- MODULE FillerProofs -----------------------------
(***************************************************************************)
(* Proofs about what the fillers of the oif-solver share: the lists, which *)
(* say what intents they fill, and the wallet, which their transactions go *)
(* through.  The lists decide as the README says, for any accounts, chains *)
(* and filters.  In one run of the solver the nonces given out are         *)
(* consecutive, and no transaction of the run pushes another one out of    *)
(* the pool, for any tasks, jobs and number of runs.                       *)
(***************************************************************************)
EXTENDS IntentFilter, NonceKeeperWallet, WellFoundedInduction, TLAPS

----------------------------------------------------------------------------
(* The lists (IntentFilter). *)

\* What matches() returns or throws.
Answers == {"yes", "no", "throws"}

\* What an event holds: addresses as ethers and the listeners write them, and
\* the names of chains.
DataTexts ==
  [name : Accounts, form : {"checksummed", "bytes32"}] \cup [name : Chains, form : {"lower"}]

\* A value that names a text matches it; one that matches names it, unless it
\* is a chain as a plain string, which another's may be part of.
MatchesTheNamed(value, text) ==
  /\ Names(value, text) => MatchesKey(value, text)
  /\ MatchesKey(value, text) /\ (value.kind = "string" => text.name \in Accounts)
       => Names(value, text)

LEMMA ValueMatches ==
  ASSUME NEW value \in Values, NEW text \in DataTexts
  PROVE  MatchesTheNamed(value, text)
PROOF
<1> DEFINE Same(t) == t.name = text.name /\ {t.form, text.form} \subseteq Prefixed
<1>1. \A t \in Texts : ToLower(t).name = t.name
  BY DEF Texts, ToLower
<1>1a. ToLower(text).name = text.name
  BY DEF DataTexts, ToLower
<1>2. \A t \in Texts : ToLower(t) = ToLower(text) <=> Same(t)
  <2> SUFFICES ASSUME NEW t \in Texts PROVE ToLower(t) = ToLower(text) <=> Same(t)
    OBVIOUS
  <2>1. \/ t.form \in Prefixed /\ ToLower(t) = [name |-> t.name, form |-> "lower"]
        \/ t.form \notin Prefixed /\ ToLower(t) = t /\ t.form \in {"unprefixed", "icap"}
    BY DEF Texts, ToLower, Prefixed
  <2>2. \/ text.form \in Prefixed /\ ToLower(text) = [name |-> text.name, form |-> "lower"]
        \/ text.form \notin Prefixed /\ ToLower(text) = text /\ text.form = "bytes32"
    BY DEF DataTexts, ToLower, Prefixed
  <2> QED BY <2>1, <2>2
<1>3. \A t \in Texts :
        text.name \in Accounts /\ IsPart(ToLower(t), ToLower(text)) => Same(t)
  <2> SUFFICES ASSUME NEW t \in Texts, text.name \in Accounts, IsPart(ToLower(t), ToLower(text)),
                      ToLower(t) # ToLower(text)
               PROVE  FALSE
    BY <1>2
  <2>1. <<text.name, t.name>> \in Inside
    BY <1>1, <1>1a DEF IsPart
  <2> QED BY <2>1, InsideIsChains, NamesAreApart
<1>4. \A t \in Texts : Same(t) => IsPart(ToLower(t), ToLower(text))
  BY <1>2 DEF IsPart
<1>5. CASE value = Wildcard
  BY <1>5 DEF Wildcard, Names, MatchesKey, MatchesTheNamed
<1>6. ASSUME NEW t \in Texts, value = Plain(t) PROVE MatchesTheNamed(value, text)
  BY <1>3, <1>4, <1>6 DEF Plain, Names, MatchesKey, MatchesTheNamed
<1>7. ASSUME NEW T \in SUBSET Texts, value = OneOf(T) PROVE MatchesTheNamed(value, text)
  BY <1>2, <1>7 DEF OneOf, Names, MatchesKey, MatchesTheNamed
<1> QED BY <1>5, <1>6, <1>7 DEF Values

\* What a filter says of a recipient.
LEMMA FilterMatches ==
  ASSUME NEW f \in FilterSet, NEW r \in Recipients, intent.sender \in Accounts,
         NEW m, m = Matches(f, Datum(intent.sender, r))
  PROVE  /\ m \in Answers
         /\ Means(f, r) => m # "no"
         /\ m = "yes" /\ f.destinationDomain.kind # "string" => Means(f, r)
         /\ m = "throws" => r.chain = Undefined
PROOF
<1> DEFINE data == Datum(intent.sender, r)
           Fails(i) == f[Keys[i]].kind # "*" /\
                       (data[Keys[i]].name = Undefined \/ ~MatchesKey(f[Keys[i]], data[Keys[i]]))
           first == {i \in 1 .. 3 : Fails(i) /\ \A j \in 1 .. i - 1 : ~Fails(j)}
<1>1. m = IF first = {} THEN "yes"
          ELSE IF \E i \in first : data[Keys[i]].name = Undefined THEN "throws" ELSE "no"
  BY DEF Matches
<1>2. f \in Filters /\ r.chain \in Chains \cup {Undefined} /\ r.account \in Accounts
  BY FiltersPassTheSchemas DEF Recipients
<1>3. /\ data[Keys[1]] = Text(intent.sender, "checksummed")
      /\ data[Keys[2]] = Text(r.chain, "lower")
      /\ data[Keys[3]] = Text(r.account, RecipientForm)
  BY DEF Keys, Datum
<1>4. /\ f[Keys[1]] = f.senderAddress /\ f[Keys[2]] = f.destinationDomain
      /\ f[Keys[3]] = f.recipientAddress
  BY <1>2 DEF Keys, Filters
<1>2a. /\ f.senderAddress \in Values /\ f.destinationDomain \in Values
      /\ f.recipientAddress \in Values
  BY <1>2 DEF Filters
<1>2b. \A name, form : Text(name, form).name = name
  BY DEF Text
<1>4a. \A value, text : value.kind = "*" => Names(value, text)
  BY DEF Names
<1>5. \A i \in {1, 3} : Fails(i) <=> ~Names(f[Keys[i]], data[Keys[i]])
  <2>1. \A i \in {1, 3} : data[Keys[i]] \in DataTexts /\ data[Keys[i]].name \in Accounts
    BY <1>2, <1>3, Forms DEF Text, DataTexts
  <2>2. \A i \in {1, 3} : MatchesTheNamed(f[Keys[i]], data[Keys[i]])
    BY <1>2a, <1>4, <2>1, ValueMatches
  <2>3. \A i \in {1, 3} : data[Keys[i]].name # Undefined
    BY <2>1, NamesAreApart
  <2> HIDE DEF data
  <2> QED BY <1>4a, <2>1, <2>2, <2>3 DEF MatchesTheNamed
<1>6. /\ r.chain = Undefined => (Fails(2) <=> f[Keys[2]].kind # "*")
      /\ Fails(2) /\ r.chain # Undefined => ~Names(f[Keys[2]], data[Keys[2]])
      /\ ~Fails(2) /\ f[Keys[2]].kind # "string" => Names(f[Keys[2]], data[Keys[2]])
  <2>1. data[Keys[2]].name = r.chain
    BY <1>3, <1>2b
  <2>2. r.chain # Undefined => MatchesTheNamed(f[Keys[2]], data[Keys[2]])
    <3>1. r.chain # Undefined => data[Keys[2]] \in DataTexts
      BY <1>2, <1>3 DEF Text, DataTexts
    <3> QED BY <1>2a, <1>4, <3>1, ValueMatches
  <2> HIDE DEF data
  <2> QED BY <1>4a, <2>1, <2>2 DEF MatchesTheNamed
<1>7. Means(f, r) <=> \A i \in 1 .. 3 : Names(f[Keys[i]], data[Keys[i]])
  BY DEF Means
<1>8. \A i \in 1 .. 3 : data[Keys[i]].name = Undefined <=> i = 2 /\ r.chain = Undefined
  <2>1. \A i \in 1 .. 3 : i = 1 \/ i = 2 \/ i = 3
    OBVIOUS
  <2> QED BY <1>2, <1>3, <1>2b, <2>1, NamesAreApart
<1>9. r.chain = Undefined /\ Names(f[Keys[2]], data[Keys[2]]) => f[Keys[2]].kind = "*"
  <2> SUFFICES ASSUME r.chain = Undefined, f[Keys[2]].kind # "*", Names(f[Keys[2]], data[Keys[2]])
               PROVE  FALSE
    OBVIOUS
  <2>1. PICK v \in f[Keys[2]].of : v.name = Undefined
    BY <1>3, <1>2b DEF Names
  <2>2. f[Keys[2]].of \subseteq Texts
    BY <1>2a, <1>4 DEF Values, Wildcard, Plain, OneOf
  <2>3. \A t \in Texts : t.name \in Accounts \cup Chains
    BY DEF Texts
  <2> QED BY <2>1, <2>2, <2>3, NamesAreApart
<1>10. f.destinationDomain.kind # "string" => f[Keys[2]].kind # "string"
  BY <1>4
<1> HIDE DEF Fails, data
<1> QED
  BY <1>1, <1>5, <1>6, <1>7, <1>8, <1>9, <1>10 DEF Answers

\* A set of positions that is not empty has a first one.
LEMMA FirstExists ==
  ASSUME NEW n \in Nat, NEW S \in SUBSET (1 .. n), S # {}
  PROVE  \E i \in S : \A j \in 1 .. i - 1 : j \notin S
PROOF
<1> DEFINE less == {p \in Nat \X Nat : p[1] < p[2]}
<1>1. IsWellFoundedOn(less, Nat)
  BY NatLessThanWellFounded DEF OpToRel
<1>2. ASSUME NEW m \in Nat, NEW k \in Nat, m < k PROVE <<m, k>> \in less
  BY <1>2
<1> HIDE DEF less
<1>3. S \subseteq Nat
  OBVIOUS
<1>4. PICK i \in S : \A j \in S : ~(<<j, i>> \in less)
  BY <1>1, <1>3, WFMin, Zenon
<1>5. ASSUME NEW j \in 1 .. i - 1, j \in S PROVE FALSE
  <2>1. j \in Nat /\ i \in Nat /\ j < i
    BY <1>3
  <2>2. <<j, i>> \in less
    BY <1>2, <2>1
  <2> QED BY <1>4, <1>5, <2>2
<1> QED BY <1>5

\* Array.some tells whether an item decides, and what it returns or throws is
\* what one of them does.
LEMMA SomeIs ==
  ASSUME NEW list \in Seq(FilterSet), NEW data,
         \A i \in DOMAIN list : Matches(list[i], data) \in Answers
  PROVE  /\ Some(list, data) \in Answers
         /\ Some(list, data) = "no" <=> \A i \in DOMAIN list : Matches(list[i], data) = "no"
         /\ Some(list, data) # "no" =>
              \E i \in DOMAIN list : Some(list, data) = Matches(list[i], data)
PROOF
<1> DEFINE undecided(i) == Matches(list[i], data) = "no"
           first == {i \in DOMAIN list : ~undecided(i) /\ \A j \in 1 .. i - 1 : undecided(j)}
<1>1. Some(list, data) = IF first = {} THEN "no"
                         ELSE Matches(list[CHOOSE i \in first : TRUE], data)
  BY DEF Some
<1>2. first = {} => \A i \in DOMAIN list : undecided(i)
  <2>1. DOMAIN list = 1 .. Len(list) /\ Len(list) \in Nat
    OBVIOUS
  <2> DEFINE deciding == {i \in DOMAIN list : ~undecided(i)}
  <2>2. SUFFICES ASSUME deciding # {} PROVE first # {}
    OBVIOUS
  <2>3. PICK i \in deciding : \A j \in 1 .. i - 1 : j \notin deciding
    BY <2>1, <2>2, FirstExists
  <2>4. \A j \in 1 .. i - 1 : j \in DOMAIN list
    BY <2>1
  <2> QED BY <2>3, <2>4
<1>3. first # {} => /\ (CHOOSE i \in first : TRUE) \in first
                    /\ first \subseteq DOMAIN list /\ \A i \in first : ~undecided(i)
  OBVIOUS
<1> QED
  BY <1>1, <1>2, <1>3 DEF Answers

\* A configuration and a parsed event.
ListsOK ==
  /\ lists \in Configurations
  /\ intent.sender \in Accounts
  /\ \E n \in Nat : DOMAIN intent.recipients = 1 .. n
  /\ \A i \in DOMAIN intent.recipients : intent.recipients[i] \in Recipients

BlockItems == lists.global.block \o lists.solver.block
AllowItems == lists.global.allow \o lists.solver.allow

\* The lists of both levels are one.
LEMMA ListsTogether ==
  ASSUME ListsOK
  PROVE  /\ BlockItems \in Seq(FilterSet) /\ Items(BlockItems) = BlockList
         /\ AllowItems \in Seq(FilterSet) /\ Items(AllowItems) = AllowList
         /\ AllowItems = <<>> <=> AllowList = {}
PROOF
<1>1. ASSUME NEW s \in Seq(FilterSet), NEW t \in Seq(FilterSet)
      PROVE  s \o t \in Seq(FilterSet) /\ Items(s \o t) = Items(s) \cup Items(t)
  <2>1. /\ s \o t \in Seq(FilterSet) /\ Len(s \o t) = Len(s) + Len(t)
        /\ DOMAIN s = 1 .. Len(s) /\ DOMAIN t = 1 .. Len(t) /\ DOMAIN (s \o t) = 1 .. Len(s \o t)
        /\ \A i \in 1 .. Len(s) : (s \o t)[i] = s[i]
        /\ \A i \in 1 .. Len(t) : (s \o t)[Len(s) + i] = t[i]
        /\ Len(s) \in Nat /\ Len(t) \in Nat
    OBVIOUS
  <2>2. \A i \in DOMAIN (s \o t) : i \in DOMAIN s \/ i - Len(s) \in DOMAIN t
    BY <2>1
  <2>3. \A i \in DOMAIN (s \o t) : (s \o t)[i] \in Items(s) \cup Items(t)
    BY <2>1, <2>2 DEF Items
  <2>4. \A i \in DOMAIN t : Len(s) + i \in DOMAIN (s \o t)
    BY <2>1
  <2>5. \A i \in DOMAIN s : i \in DOMAIN (s \o t)
    BY <2>1
  <2> QED BY <2>1, <2>3, <2>4, <2>5 DEF Items
<1>2. /\ lists.global.block \in Seq(FilterSet) /\ lists.solver.block \in Seq(FilterSet)
      /\ lists.global.allow \in Seq(FilterSet) /\ lists.solver.allow \in Seq(FilterSet)
  BY DEF ListsOK, Configurations, Levels
<1>3. ASSUME NEW s \in Seq(FilterSet) PROVE s = <<>> <=> Items(s) = {}
  <2>1. Items(s) = {} => DOMAIN s = {}
    BY DEF Items
  <2>2. DOMAIN s = 1 .. Len(s) /\ Len(s) \in Nat
    OBVIOUS
  <2>3. DOMAIN s = {} => Len(s) = 0
    <3>1. Len(s) # 0 => 1 \in 1 .. Len(s)
      BY <2>2
    <3> QED BY <2>2, <3>1
  <2>4. Len(s) = 0 => s = <<>>
    OBVIOUS
  <2>5. Items(<<>>) = {}
    BY DEF Items
  <2> QED BY <2>1, <2>3, <2>4, <2>5
<1>4. BlockItems \in Seq(FilterSet) /\ Items(BlockItems) = BlockList
  BY <1>1, <1>2 DEF BlockItems, BlockList
<1>5. AllowItems \in Seq(FilterSet) /\ Items(AllowItems) = AllowList
  BY <1>1, <1>2 DEF AllowItems, AllowList
<1> QED BY <1>3, <1>4, <1>5

\* What the lists say of a recipient.
Decision(r) == isAllowedIntent(Datum(intent.sender, r))
Listed(r) == AllowList = {} \/ \E f \in AllowList : Means(f, r)

LEMMA DecisionIs ==
  ASSUME ListsOK, NEW r \in Recipients
  PROVE  /\ (\E f \in BlockList : Means(f, r)) => Decision(r) # "allowed"
         /\ Decision(r) = "allowed" /\ NoPlainChain(AllowList) => Listed(r)
         /\ /\ NoPlainChain(BlockList) /\ r.chain # Undefined
            /\ \A f \in BlockList : ~Means(f, r)
            /\ Listed(r)
            => Decision(r) = "allowed"
PROOF
<1> DEFINE data == Datum(intent.sender, r)
           m(f) == Matches(f, data)
           blocked == Some(BlockItems, data)
           listed == Some(AllowItems, data)
<1>1. \A f \in FilterSet :
        /\ m(f) \in Answers
        /\ Means(f, r) => m(f) # "no"
        /\ m(f) = "yes" /\ f.destinationDomain.kind # "string" => Means(f, r)
        /\ m(f) = "throws" => r.chain = Undefined
  BY FilterMatches DEF ListsOK
<1>2. Decision(r) =
        CASE blocked = "throws" -> "throws"
          [] blocked = "yes" -> "refused"
          [] blocked = "no" /\ AllowItems = <<>> -> "allowed"
          [] blocked = "no" /\ AllowItems # <<>> ->
               IF listed = "no" THEN "refused" ELSE IF listed = "yes" THEN "allowed" ELSE "throws"
  BY DEF Decision, isAllowedIntent, BlockItems, AllowItems
<1>3. /\ BlockList \subseteq FilterSet /\ AllowList \subseteq FilterSet
      /\ AllowItems = <<>> <=> AllowList = {}
  BY ListsTogether DEF Items
<1>4. ASSUME NEW list \in Seq(FilterSet), NEW S, S = Items(list)
      PROVE  /\ Some(list, data) \in Answers
             /\ Some(list, data) = "no" <=> \A f \in S : m(f) = "no"
             /\ Some(list, data) # "no" => \E f \in S : Some(list, data) = m(f)
  <2>1. \A i \in DOMAIN list : list[i] \in FilterSet
    OBVIOUS
  <2>2. \A i \in DOMAIN list : m(list[i]) \in Answers
    BY <1>1, <2>1
  <2> HIDE DEF data
  <2> QED BY <1>4, <2>2, SomeIs DEF Items
<1> HIDE DEF data, m
<1>5. /\ blocked \in Answers
      /\ blocked = "no" <=> \A f \in BlockList : m(f) = "no"
      /\ blocked # "no" => \E f \in BlockList : blocked = m(f)
  BY <1>4, ListsTogether
<1>6. /\ listed \in Answers
      /\ listed = "no" <=> \A f \in AllowList : m(f) = "no"
      /\ listed # "no" => \E f \in AllowList : listed = m(f)
  BY <1>4, ListsTogether
<1> HIDE DEF blocked, listed
<1>7. ASSUME NEW f \in BlockList, Means(f, r) PROVE Decision(r) # "allowed"
  BY <1>1, <1>2, <1>3, <1>5, <1>7 DEF Answers
<1>8. ASSUME Decision(r) = "allowed", NoPlainChain(AllowList) PROVE Listed(r)
  BY <1>1, <1>2, <1>3, <1>5, <1>6, <1>8 DEF Answers, Listed, NoPlainChain
<1>9. ASSUME NoPlainChain(BlockList), r.chain # Undefined, Listed(r),
             \A f \in BlockList : ~Means(f, r)
      PROVE  Decision(r) = "allowed"
  BY <1>1, <1>2, <1>3, <1>5, <1>6, <1>9 DEF Answers, Listed, NoPlainChain
<1> QED BY <1>7, <1>8, <1>9

\* An intent is let through when each of its recipients is.
FilterInv ==
  /\ ListsOK
  /\ outcome = "allowed" =>
       \A i \in DOMAIN intent.recipients : Decision(intent.recipients[i]) = "allowed"
  /\ outcome \notin {"open", "allowed"} =>
       \E i \in DOMAIN intent.recipients : Decision(intent.recipients[i]) # "allowed"

LEMMA InitFilterInv == FilterInit => FilterInv
PROOF
<1> SUFFICES ASSUME FilterInit PROVE FilterInv
  OBVIOUS
<1>1. lists \in Configurations
  BY ListsAreOfFilters DEF FilterInit
<1>2. PICK n \in 0 .. 2 :
        intent \in [sender : Accounts, recipients : [1 .. n -> Recipients]]
  BY DEF FilterInit
<1>3. /\ intent.sender \in Accounts /\ DOMAIN intent.recipients = 1 .. n
      /\ \A i \in DOMAIN intent.recipients : intent.recipients[i] \in Recipients
  BY <1>2
<1> QED BY <1>1, <1>3 DEF FilterInit, FilterInv, ListsOK

LEMMA DecideKeeps == FilterInv /\ [Decide]_filterVars => FilterInv'
PROOF
<1> SUFFICES ASSUME FilterInv, Decide, outcome' # outcome PROVE FilterInv'
  <2>1. UNCHANGED <<lists, intent>> /\ outcome' = outcome /\ FilterInv => FilterInv'
    BY DEF FilterInv, ListsOK, Decision, isAllowedIntent
  <2> QED BY <2>1 DEF Decide, filterVars
<1> DEFINE all == DOMAIN intent.recipients
           allowed(i) == Decision(intent.recipients[i]) = "allowed"
           first == {i \in all : ~allowed(i) /\ \A j \in 1 .. i - 1 : allowed(j)}
<1>1. /\ outcome' = IF first = {} THEN "allowed"
                    ELSE Decision(intent.recipients[CHOOSE i \in first : TRUE])
      /\ UNCHANGED <<lists, intent>>
  BY DEF Decide, Decision
<1>2. ListsOK' /\ all' = all /\ \A i : allowed(i)' = allowed(i)
  BY <1>1 DEF FilterInv, ListsOK, Decision, isAllowedIntent
<1>3. first = {} => \A i \in all : allowed(i)
  <2>1. PICK n \in Nat : all = 1 .. n
    BY DEF FilterInv, ListsOK
  <2> DEFINE others == {i \in all : ~allowed(i)}
  <2>2. SUFFICES ASSUME others # {} PROVE first # {}
    OBVIOUS
  <2>3. PICK i \in others : \A j \in 1 .. i - 1 : j \notin others
    BY <2>1, <2>2, FirstExists
  <2>4. \A j \in 1 .. i - 1 : j \in all
    BY <2>1
  <2> QED BY <2>3, <2>4
<1>4. first # {} => /\ (CHOOSE i \in first : TRUE) \in first
                    /\ \A i \in first : i \in all /\ ~allowed(i)
  OBVIOUS
<1> QED BY <1>1, <1>2, <1>3, <1>4 DEF FilterInv

\* The decision of an intent is that of its first recipient that is not allowed.
THEOREM FilterInvariant == FilterSpec => []FilterInv
BY InitFilterInv, DecideKeeps, PTL DEF FilterSpec

\* matches(), some() and every() together: what the block-list names is not
\* filled, for any accounts, chains, lists and orders of filters in them.
THEOREM BlockedAreIgnored == FilterSpec => []BlockedIsIgnored
PROOF
<1>1. FilterInv => BlockedIsIgnored
  <2> SUFFICES ASSUME FilterInv, NEW r \in To, \E f \in BlockList : Means(f, r)
               PROVE  outcome # "allowed"
    BY DEF BlockedIsIgnored
  <2>1. PICK i \in DOMAIN intent.recipients : r = intent.recipients[i] /\ r \in Recipients
    BY DEF To, Items, FilterInv, ListsOK
  <2> QED BY <2>1, DecisionIs DEF FilterInv
<1> QED BY <1>1, FilterInvariant, PTL

\* An intent is filled exactly when the lists say so, as long as chains in them
\* are written as arrays.
THEOREM AllowedAreListed == FilterSpec => []AllowListIsExact
PROOF
<1>1. FilterInv => AllowListIsExact
  <2> SUFFICES ASSUME FilterInv PROVE AllowListIsExact
    OBVIOUS
  <2>1. \A i \in DOMAIN intent.recipients :
          intent.recipients[i] \in To /\ intent.recipients[i] \in Recipients
    BY DEF To, Items, FilterInv, ListsOK
  <2>2. \A r \in To : /\ r \in Recipients
                     /\ \E i \in DOMAIN intent.recipients : r = intent.recipients[i]
    BY <2>1 DEF To, Items
  <2>3. outcome = "allowed" /\ NoPlainChain(AllowList) => \A r \in To : Listed(r)
    BY <2>2, DecisionIs DEF FilterInv
  <2>4. ASSUME outcome # "open", NoPlainChain(BlockList), outcome # "allowed",
               \A r \in To : /\ r.chain # Undefined /\ Listed(r)
                             /\ \A f \in BlockList : ~Means(f, r)
        PROVE  FALSE
    <3>1. PICK i \in DOMAIN intent.recipients : Decision(intent.recipients[i]) # "allowed"
      BY <2>4 DEF FilterInv
    <3> QED BY <2>1, <2>4, <3>1, DecisionIs DEF FilterInv
  <2> QED BY <2>3, <2>4 DEF AllowListIsExact, Listed
<1> QED BY <1>1, FilterInvariant, PTL

----------------------------------------------------------------------------
(* The wallet (NonceKeeperWallet): the invariant. *)

\* A task has a place once it waits for its nonce, and none before; a task of
\* an earlier run has lost its own.
PlacesOfTheRun ==
  \A t \in Tasks :
    /\ pc[t] \in {"idle", "estimating", "naming", "dead"} => ~HasPlace(t)
    /\ pc[t] \in {"waiting", "sending"} => HasPlace(t)

\* A task of this run that goes on to send does so with the count known, which
\* then stays what it is.
SendersKnowTheCount ==
  \A t \in Tasks : pc[t] \in {"sending", "sent"} /\ HasPlace(t) => count = "known"

\* What waits in the node was sent, those of this run with the nonce of their
\* place.
PoolIsSent ==
  \A x \in pool :
    /\ pc[x.task] = "sent"
    /\ HasPlace(x.task) => x.nonce = Nonce(x.task)

IInv ==
  /\ TypeOK
  /\ NoncesAreConsecutive /\ PlacesOfTheRun
  /\ SendersKnowTheCount /\ PoolIsSent /\ NothingReplaced

LEMMA InitIInv == Init => IInv
<1> SUFFICES ASSUME Init PROVE IInv
  OBVIOUS
<1>1. TypeOK
  BY MaxRunsIsPositive DEF Init, TypeOK, PCs
<1>2. \A t \in Tasks : pc[t] = "idle" /\ ~HasPlace(t)
  BY DEF Init, HasPlace
<1>3. NoncesAreConsecutive
  <2>1. {place[t] : t \in {u \in Tasks : HasPlace(u)}} = {} /\ 0 .. taken - 1 = {}
    BY <1>2 DEF Init
  <2> QED
    BY <1>2, <2>1 DEF NoncesAreConsecutive
<1> QED
  BY <1>1, <1>2, <1>3
     DEF IInv, PlacesOfTheRun, SendersKnowTheCount, PoolIsSent, NothingReplaced, Init

----------------------------------------------------------------------------
(* The wallet: the steps. *)

\* A task goes on without a place given or a transaction sent: to "sending"
\* only with the count known, from "naming" only by ending.
LEMMA MoveKeeps ==
  ASSUME IInv, NEW t \in Tasks, NEW from \in PCs \ {"sent"}, NEW to \in PCs \ {"sent"},
         Goes(t, from, to), UNCHANGED <<runs, job, place, taken, count, base, chainVars>>,
         to \in {"idle", "estimating", "naming", "dead"} => ~HasPlace(t),
         to \in {"waiting", "sending"} => HasPlace(t),
         to = "sending" => count = "known"
  PROVE  IInv'
<1> USE DEF chainVars
<1>1. /\ pc \in [Tasks -> PCs]
      /\ pc[t] = from /\ pc'[t] = to /\ \A u \in Tasks \ {t} : pc'[u] = pc[u]
      /\ pc' \in [Tasks -> PCs]
  BY DEF Goes, IInv, TypeOK
<1>2. \A u \in Tasks : HasPlace(u)' = HasPlace(u) /\ Nonce(u)' = Nonce(u)
  BY DEF HasPlace, Nonce
<1>3. TypeOK'
  BY <1>1 DEF IInv, TypeOK
<1>4. NoncesAreConsecutive'
  BY DEF IInv, NoncesAreConsecutive, HasPlace
<1>5. PlacesOfTheRun'
  BY <1>1, <1>2 DEF IInv, PlacesOfTheRun
<1>6. SendersKnowTheCount'
  BY <1>1, <1>2 DEF IInv, SendersKnowTheCount
<1>7. PoolIsSent'
  <2>1. \A x \in pool : x.task \in Tasks /\ x.task # t
    BY <1>1 DEF IInv, TypeOK, PoolIsSent
  <2> QED
    BY <1>1, <1>2, <2>1 DEF IInv, PoolIsSent
<1>8. NothingReplaced'
  BY <1>1, <1>2 DEF IInv, NothingReplaced
<1> QED
  BY <1>3, <1>4, <1>5, <1>6, <1>7, <1>8 DEF IInv

\* getNextNonce: the next place goes to one task.
LEMMA TakesPlaceKeeps == ASSUME IInv, NEW t \in Tasks, TakesPlace(t) PROVE IInv'
<1> USE DEF chainVars
<1>1. /\ pc[t] = "naming" /\ pc'[t] = "waiting"
      /\ pc' \in [Tasks -> PCs] /\ \A u \in Tasks \ {t} : pc'[u] = pc[u]
  BY DEF TakesPlace, Goes, IInv, TypeOK, PCs
<1>2. /\ place'[t] = taken /\ taken \in Nat
      /\ place' \in [Tasks -> Nat \cup {-1}] /\ \A u \in Tasks \ {t} : place'[u] = place[u]
  BY DEF TakesPlace, IInv, TypeOK
<1>3. /\ UNCHANGED <<runs, job, base, mined, pool, done>> /\ taken' = taken + 1
      /\ count' = IF count = "none" THEN "asked" ELSE count
  BY DEF TakesPlace
<1>4. ~HasPlace(t) /\ HasPlace(t)'
  BY <1>1, <1>2 DEF IInv, PlacesOfTheRun, HasPlace
<1>5. \A u \in Tasks \ {t} : HasPlace(u)' = HasPlace(u) /\ Nonce(u)' = Nonce(u)
  BY <1>2, <1>3 DEF HasPlace, Nonce
<1>6. TypeOK'
  BY <1>1, <1>2, <1>3 DEF IInv, TypeOK
<1>7. NoncesAreConsecutive'
  <2> DEFINE Given == {place[u] : u \in {v \in Tasks : HasPlace(v)}}
  <2>1. Given = 0 .. taken - 1
    BY DEF IInv, NoncesAreConsecutive
  <2>2. \A u \in Tasks : HasPlace(u) => place[u] \in 0 .. taken - 1
    BY <2>1
  <2>3. \A u, v \in Tasks : HasPlace(u)' /\ place'[u] = place'[v] => u = v
    BY <1>2, <1>4, <1>5, <2>2 DEF IInv, NoncesAreConsecutive, HasPlace
  <2>4. {place'[u] : u \in {v \in Tasks : HasPlace(v)'}} = Given \cup {taken}
    BY <1>2, <1>4, <1>5
  <2>5. Given \cup {taken} = 0 .. taken' - 1
    BY <1>2, <1>3, <2>1
  <2> QED
    BY <2>3, <2>4, <2>5 DEF NoncesAreConsecutive
<1>8. PlacesOfTheRun'
  BY <1>1, <1>4, <1>5 DEF IInv, PlacesOfTheRun
<1>9. SendersKnowTheCount'
  BY <1>1, <1>3, <1>5 DEF IInv, SendersKnowTheCount
<1>10. PoolIsSent'
  <2>1. \A x \in pool : x.task \in Tasks \ {t}
    BY <1>1 DEF IInv, TypeOK, PoolIsSent
  <2> QED
    BY <1>1, <1>3, <1>5, <2>1 DEF IInv, PoolIsSent
<1>11. NothingReplaced'
  BY <1>1, <1>3, <1>5 DEF IInv, NothingReplaced
<1> QED
  BY <1>6, <1>7, <1>8, <1>9, <1>10, <1>11 DEF IInv

\* The count arrives or the call rejects: no task of the run has sent yet.
LEMMA CountKeeps == ASSUME IInv, CountArrives \/ CountRejects PROVE IInv'
<1> USE DEF chainVars
<1>1. /\ count = "asked" /\ count' \in {"known", "rejected"} /\ base' \in {base, mined}
      /\ UNCHANGED <<runs, pc, job, place, taken, mined, pool, done>>
  BY DEF CountArrives, CountRejects
<1>2. \A u \in Tasks : HasPlace(u)' = HasPlace(u)
  BY <1>1 DEF HasPlace
<1>3. \A u \in Tasks : pc[u] \in {"sending", "sent"} => ~HasPlace(u)
  BY <1>1 DEF IInv, SendersKnowTheCount
<1>4. TypeOK'
  BY <1>1 DEF IInv, TypeOK
<1>5. NoncesAreConsecutive'
  BY <1>1 DEF IInv, NoncesAreConsecutive, HasPlace
<1>6. PlacesOfTheRun' /\ SendersKnowTheCount'
  BY <1>1, <1>2, <1>3 DEF IInv, PlacesOfTheRun, SendersKnowTheCount
<1>7. PoolIsSent'
  <2>1. \A x \in pool : x.task \in Tasks
    BY DEF IInv, TypeOK
  <2> QED
    BY <1>1, <1>2, <1>3, <2>1 DEF IInv, PoolIsSent
<1>8. NothingReplaced'
  BY <1>1, <1>2, <1>3 DEF NothingReplaced
<1> QED
  BY <1>4, <1>5, <1>6, <1>7, <1>8 DEF IInv

\* The node takes a transaction: the one it replaces, if any, is of no other
\* task of this run.
LEMMA SendsKeeps == ASSUME IInv, NEW t \in Tasks, Sends(t) PROVE IInv'
<1> USE DEF chainVars
<1>1. /\ pc[t] = "sending" /\ pc'[t] = "sent"
      /\ pc' \in [Tasks -> PCs] /\ \A u \in Tasks \ {t} : pc'[u] = pc[u]
  BY DEF Sends, Goes, IInv, TypeOK, PCs
<1>2. UNCHANGED <<runs, job, place, taken, count, base, mined, done>>
  BY DEF Sends
<1>3. \A u \in Tasks : HasPlace(u)' = HasPlace(u) /\ Nonce(u)' = Nonce(u)
  BY <1>2 DEF HasPlace, Nonce
<1>4. HasPlace(t) /\ Nonce(t) \in Nat
  BY <1>1 DEF IInv, PlacesOfTheRun, HasPlace, TypeOK, Nonce
<1>5. PICK new \in [nonce : Nat, task : Tasks] :
        /\ new.nonce = Nonce(t) /\ new.task = t
        /\ pool' = {x \in pool : x.nonce # Nonce(t)} \cup {new}
  BY <1>4 DEF Sends
<1>6. TypeOK'
  BY <1>1, <1>2, <1>5 DEF IInv, TypeOK
<1>7. NoncesAreConsecutive'
  BY <1>2 DEF IInv, NoncesAreConsecutive, HasPlace
<1>8. PlacesOfTheRun' /\ SendersKnowTheCount'
  BY <1>1, <1>2, <1>3 DEF IInv, PlacesOfTheRun, SendersKnowTheCount
<1>9. \A x \in pool : x.task \in Tasks \ {t}
  BY <1>1 DEF IInv, TypeOK, PoolIsSent
<1>10. PoolIsSent'
  BY <1>1, <1>3, <1>5, <1>9 DEF IInv, PoolIsSent
<1>11. NothingReplaced'
  <2> SUFFICES ASSUME NEW u \in Tasks, pc'[u] = "sent", HasPlace(u)
               PROVE  (\E x \in pool' : x.task = u) \/ mined > Nonce(u)
    BY <1>2, <1>3 DEF NothingReplaced
  <2>1. CASE u = t
    BY <1>5, <2>1
  <2>2. CASE u # t /\ mined > Nonce(u)
    BY <2>2
  <2>3. CASE u # t /\ \E x \in pool : x.task = u
    <3>1. PICK x \in pool : x.task = u
      BY <2>3
    <3>2. x.nonce = Nonce(u)
      BY <3>1 DEF IInv, PoolIsSent
    <3>3. place[u] # place[t]
      BY <2>3, <1>4 DEF IInv, NoncesAreConsecutive
    <3>4. Nonce(u) # Nonce(t)
      BY <3>3 DEF Nonce, IInv, TypeOK
    <3> QED
      BY <1>5, <3>1, <3>2, <3>4
  <2> QED
    BY <1>1, <2>1, <2>2, <2>3 DEF IInv, NothingReplaced
<1> QED
  BY <1>6, <1>7, <1>8, <1>10, <1>11 DEF IInv

\* A block takes a transaction: its nonce is below the count from then on.
LEMMA MinesKeeps == ASSUME IInv, Mines PROVE IInv'
<1> USE DEF chainVars, walletVars
<1>1. PICK x \in pool :
        /\ x.nonce = mined /\ mined' = mined + 1 /\ pool' = pool \ {x}
        /\ done' = done \cup {job[x.task]}
        /\ UNCHANGED <<runs, pc, job, place, taken, count, base>>
  BY DEF Mines
<1>2. x.task \in Tasks /\ mined \in Nat
  BY DEF IInv, TypeOK
<1>3. \A u \in Tasks : HasPlace(u)' = HasPlace(u) /\ Nonce(u)' = Nonce(u) /\ Nonce(u) \in Int
  BY <1>1 DEF HasPlace, Nonce, IInv, TypeOK
<1>4. TypeOK'
  BY <1>1, <1>2 DEF IInv, TypeOK
<1>5. NoncesAreConsecutive' /\ PlacesOfTheRun' /\ SendersKnowTheCount'
  BY <1>1 DEF IInv, NoncesAreConsecutive, PlacesOfTheRun, SendersKnowTheCount, HasPlace
<1>6. PoolIsSent'
  BY <1>1, <1>3 DEF IInv, PoolIsSent, TypeOK
<1>7. NothingReplaced'
  <2> SUFFICES ASSUME NEW u \in Tasks, pc[u] = "sent", HasPlace(u)
               PROVE  (\E y \in pool' : y.task = u) \/ mined' > Nonce(u)
    BY <1>1, <1>3 DEF NothingReplaced
  <2>1. CASE u = x.task
    BY <1>1, <1>2, <2>1 DEF IInv, PoolIsSent
  <2>2. CASE u # x.task
    BY <1>1, <1>2, <1>3, <2>2 DEF IInv, NothingReplaced
  <2> QED
    BY <2>1, <2>2
<1> QED
  BY <1>4, <1>5, <1>6, <1>7 DEF IInv

\* A new run begins with no place given.
LEMMA RestartKeeps == ASSUME IInv, Restart PROVE IInv'
<1> USE DEF chainVars
<1>1. /\ \A t \in Tasks : ~HasPlace(t)' /\ pc'[t] \notin {"waiting", "sending"}
      /\ \A t \in Tasks : pc[t] = "sent" => pc'[t] = "sent"
      /\ pc' \in [Tasks -> PCs]
  BY DEF Restart, HasPlace, IInv, TypeOK, PCs, Ended
<1>2. /\ UNCHANGED <<job, mined, pool, done>>
      /\ place' = [t \in Tasks |-> -1] /\ runs' \in 1 .. MaxRuns
      /\ taken' = 0 /\ count' = "none" /\ base' = 0
  BY MaxRunsIsPositive DEF Restart, IInv, TypeOK
<1>3. TypeOK'
  BY <1>1, <1>2 DEF IInv, TypeOK
<1>4. NoncesAreConsecutive'
  <2>1. {place'[t] : t \in {u \in Tasks : HasPlace(u)'}} = {} /\ 0 .. taken' - 1 = {}
    BY <1>1, <1>2
  <2> QED
    BY <1>1, <2>1 DEF NoncesAreConsecutive
<1>5. PoolIsSent'
  BY <1>1, <1>2 DEF IInv, PoolIsSent, TypeOK
<1> QED
  BY <1>1, <1>3, <1>4, <1>5 DEF IInv, PlacesOfTheRun, SendersKnowTheCount, NothingReplaced

LEMMA NextIInv == IInv /\ [Next]_vars => IInv'
<1> SUFFICES ASSUME IInv, [Next]_vars PROVE IInv'
  OBVIOUS
<1>1. CASE UNCHANGED vars
  BY <1>1 DEF IInv, TypeOK, NoncesAreConsecutive, PlacesOfTheRun, SendersKnowTheCount,
              PoolIsSent, NothingReplaced, HasPlace, Nonce, vars, walletVars, chainVars
<1>2. \A t \in Tasks :
        /\ pc[t] \in {"idle", "estimating"} => ~HasPlace(t)
        /\ pc[t] = "waiting" => HasPlace(t)
  BY DEF IInv, PlacesOfTheRun
<1>3. ASSUME NEW t \in Tasks,
             Begins(t) \/ EstimatePasses(t) \/ EstimateFails(t) \/ GetsNonce(t)
               \/ NonceRejected(t) \/ SendReverts(t) \/ SendFails(t)
      PROVE  IInv'
  <2> USE DEF PCs
  <2>1. pc[t] = "idle" /\ Begins(t) => IInv'
    BY <1>2, MoveKeeps DEF Begins
  <2>2. pc[t] = "estimating" /\ (EstimatePasses(t) \/ EstimateFails(t)) => IInv'
    BY <1>2, MoveKeeps DEF EstimatePasses, EstimateFails
  <2>3. pc[t] = "waiting" /\ (GetsNonce(t) \/ NonceRejected(t)) => IInv'
    BY <1>2, MoveKeeps DEF GetsNonce, NonceRejected
  <2>4. SendReverts(t) \/ SendFails(t) => IInv'
    BY MoveKeeps DEF SendReverts, SendFails
  <2> QED
    BY <1>3, <2>1, <2>2, <2>3, <2>4
       DEF Begins, EstimatePasses, EstimateFails, GetsNonce, NonceRejected, Goes
<1> QED
  BY <1>1, <1>3, TakesPlaceKeeps, CountKeeps, SendsKeeps, MinesKeeps, RestartKeeps
     DEF Next, TaskSteps

----------------------------------------------------------------------------
(* The wallet: the theorems. *)

\* The invariant holds of every run of the wallet.
THEOREM WalletInvariant == Spec => []IInv
BY InitIInv, NextIInv, PTL DEF Spec

\* The promises of getNextNonce give every task of a run its own nonce and
\* leave out none, in whatever order their awaits end.
THEOREM NoncesFollowEachOther == Spec => []NoncesAreConsecutive
<1>1. IInv => NoncesAreConsecutive
  BY DEF IInv
<1> QED
  BY <1>1, WalletInvariant, PTL

\* What sendTransaction got into the node's pool is not replaced by another
\* transaction of the same run.
THEOREM SentIsNotReplaced == Spec => []NothingReplaced
<1>1. IInv => NothingReplaced
  BY DEF IInv
<1> QED
  BY <1>1, WalletInvariant, PTL
=============================================================================
