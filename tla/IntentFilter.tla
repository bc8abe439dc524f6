---------------------------- MODULE IntentFilter -----------------------------
(***************************************************************************)
(* The allow and block lists of the oif-solver: which intents a filler may *)
(* fill.  A text is what it names and the form it is written in: a chain's *)
(* name; an address with 0x, checksummed or in upper or lower case, one    *)
(* without 0x, an ICAP one, or the 32-byte form of one.  Only texts with   *)
(* 0x become equal in lower case; no filter's text contains an event's of  *)
(* another form.  A behaviour is one intent and its decision.              *)
(***************************************************************************)
EXTENDS Naturals, Sequences

CONSTANTS
  Accounts,       \* senders and recipients
  Chains,         \* names of the configured chains
  Inside,         \* pairs of chain names, the first contained in the second
  Undefined,      \* the name of a chain that is not configured
  RecipientForm,  \* how the listener gives recipients: "checksummed" or "bytes32"
  FilterSet,      \* the filters lists are made of
  ListSets        \* the configurations: global and solver lists of filters

VARIABLES
  lists,    \* the global and the solver's lists
  intent,   \* senderAddress and recipients of the parsed event
  outcome   \* "open" before, "allowed", "refused", or "throws", which refuses too

filterVars == <<lists, intent, outcome>>

\* In the order the configuration files write them.
Keys == <<"senderAddress", "destinationDomain", "recipientAddress">>

Text(name, form) == [name |-> name, form |-> form]

\* The values of a filter's keys: "*", a string or an array of strings.
Wildcard == [kind |-> "*", of |-> {}]
Plain(text) == [kind |-> "string", of |-> {text}]
OneOf(texts) == [kind |-> "array", of |-> texts]

\* What the schemas let pass: what isAddress() takes for an address, with or
\* without 0x or as an ICAP text, and the chain names as they are.
Prefixed == {"checksummed", "upper", "lower"}
Texts ==
  [name : Accounts, form : Prefixed \cup {"unprefixed", "icap"}] \cup [name : Chains, form : {"lower"}]
Values == {Wildcard} \cup {Plain(text) : text \in Texts} \cup {OneOf(T) : T \in SUBSET Texts}
Filters == [senderAddress : Values, destinationDomain : Values, recipientAddress : Values]

Levels == [block : Seq(FilterSet), allow : Seq(FilterSet)]
Configurations == [global : Levels, solver : Levels]

ASSUME InsideIsChains == Inside \subseteq Chains \X Chains
ASSUME NamesAreApart == Accounts \cap Chains = {} /\ Undefined \notin Accounts \cup Chains
ASSUME Forms == RecipientForm \in {"checksummed", "bytes32"}
ASSUME FiltersPassTheSchemas == FilterSet \subseteq Filters
ASSUME ListsAreOfFilters == ListSets \subseteq Configurations

\* chainIdsToName and, for recipients, what the listener makes of the event.
Recipients == [chain : Chains \cup {Undefined}, account : Accounts]
Datum(sender, r) ==
  [senderAddress |-> Text(sender, "checksummed"),
   destinationDomain |-> Text(r.chain, "lower"),
   recipientAddress |-> Text(r.account, RecipientForm)]

ToLower(text) ==
  IF text.form \in Prefixed THEN [text EXCEPT !.form = "lower"] ELSE text

\* String.includes: part of the text.
IsPart(text, part) == text = part \/ <<part.name, text.name>> \in Inside

\* Array.includes looks for an equal element, String.includes for a part.
MatchesKey(value, text) ==
  CASE value.kind = "*" -> TRUE
    [] value.kind = "string" -> \E v \in value.of : IsPart(ToLower(v), ToLower(text))
    [] value.kind = "array" -> ToLower(text) \in {ToLower(v) : v \in value.of}

\* matches(): every() stops at the first key that does not match; a name that
\* is undefined throws when it is reached.
Matches(item, data) ==
  LET Fails(i) == item[Keys[i]].kind # "*" /\
                  (data[Keys[i]].name = Undefined \/ ~MatchesKey(item[Keys[i]], data[Keys[i]]))
      first == {i \in 1 .. 3 : Fails(i) /\ \A j \in 1 .. i - 1 : ~Fails(j)}
  IN
  IF first = {} THEN "yes"
  ELSE IF \E i \in first : data[Keys[i]].name = Undefined THEN "throws" ELSE "no"

\* Array.some with a predicate that may throw: the first item that does not
\* fail to match decides.
Some(list, data) ==
  LET first == {i \in DOMAIN list : /\ Matches(list[i], data) # "no"
                                    /\ \A j \in 1 .. i - 1 : Matches(list[j], data) = "no"}
  IN
  IF first = {} THEN "no" ELSE Matches(list[CHOOSE i \in first : TRUE], data)

\* Mutants of isAllowedIntent: an intent of the allow-list is let through
\* before the block-list is asked; only the solver's allow-list is asked.
AllowListFirst(data) ==
  LET allow == lists.global.allow \o lists.solver.allow
      listed == Some(allow, data)
      blocked == Some(lists.global.block \o lists.solver.block, data)
  IN
  CASE listed = "throws" -> "throws"
    [] listed = "yes" -> "allowed"
    [] listed = "no" /\ allow # <<>> -> "refused"
    [] listed = "no" /\ allow = <<>> ->
         IF blocked = "no" THEN "allowed" ELSE IF blocked = "yes" THEN "refused" ELSE "throws"

SolverAllowListOnly(data) ==
  LET listed == Some(lists.solver.allow, data)
      blocked == Some(lists.global.block \o lists.solver.block, data)
  IN
  CASE "throws" \in {blocked, listed} -> "throws"
    [] blocked = "yes" -> "refused"
    [] blocked = "no" /\ listed # "throws" ->
         IF lists.solver.allow = <<>> \/ listed = "yes" THEN "allowed" ELSE "refused"

isAllowedIntent(data) ==
  LET allow == lists.global.allow \o lists.solver.allow
      blocked == Some(lists.global.block \o lists.solver.block, data)
      listed == Some(allow, data)
  IN
  CASE blocked = "throws" -> "throws"
    [] blocked = "yes" -> "refused"
    [] blocked = "no" /\ allow = <<>> -> "allowed"
    [] blocked = "no" /\ allow # <<>> ->
         IF listed = "no" THEN "refused" ELSE IF listed = "yes" THEN "allowed" ELSE "throws"

\* BaseFiller.isAllowedIntent: every() over the recipients; prepareIntent
\* turns a throw into a refusal.
Decide ==
  LET decision(i) == isAllowedIntent(Datum(intent.sender, intent.recipients[i]))
      all == DOMAIN intent.recipients
      first == {i \in all : decision(i) # "allowed" /\ \A j \in 1 .. i - 1 : decision(j) = "allowed"}
  IN
  /\ outcome = "open"
  /\ outcome' = IF first = {} THEN "allowed" ELSE decision(CHOOSE i \in first : TRUE)
  /\ UNCHANGED <<lists, intent>>

FilterInit ==
  /\ lists \in ListSets
  /\ intent \in [sender : Accounts, recipients : UNION {[1 .. n -> Recipients] : n \in 0 .. 2}]
  /\ outcome = "open"

FilterSpec == FilterInit /\ [][Decide]_filterVars
----------------------------------------------------------------------------
(* Properties: what the README says of the lists, in terms of the accounts *)
(* and chains they name.                                                   *)

\* A value names what the event holds: the same account or chain, and both
\* texts of an account with 0x.  A filter without 0x or in the ICAP form names
\* no account of an event, and no address names a recipient in 32 bytes.
Names(value, text) ==
  value.kind = "*" \/ \E v \in value.of : v.name = text.name /\ {v.form, text.form} \subseteq Prefixed
Means(filter, r) ==
  LET data == Datum(intent.sender, r) IN
  \A i \in 1 .. 3 : Names(filter[Keys[i]], data[Keys[i]])

Items(list) == {list[i] : i \in DOMAIN list}
AllowList == Items(lists.global.allow) \cup Items(lists.solver.allow)
BlockList == Items(lists.global.block) \cup Items(lists.solver.block)
To == Items(intent.recipients)

\* A filter with one chain as a string also matches chains whose names are
\* part of that name.
NoPlainChain(filters) == \A f \in filters : f.destinationDomain.kind # "string"

\* README.md:212: the solver will "ignore intents that match any of the
\* block-list filters", also when the allow-list has them, for filters and
\* recipients that are written as addresses with 0x.
BlockedIsIgnored ==
  (\E r \in To, f \in BlockList : Means(f, r)) => outcome # "allowed"

\* Only intents are filled of which each recipient matches a filter of the
\* allow-list, if there is one; global and solver lists are one list.  And
\* every intent between known chains that matches the allow-list, or has none
\* to match, and matches no filter of the block-list is let through.
AllowListIsExact ==
  LET Listed(r) == AllowList = {} \/ \E f \in AllowList : Means(f, r)
  IN
  /\ outcome = "allowed" /\ NoPlainChain(AllowList) => \A r \in To : Listed(r)
  /\ (/\ outcome # "open"
      /\ NoPlainChain(BlockList)
      /\ \A r \in To : /\ r.chain # Undefined
                       /\ \A f \in BlockList : ~Means(f, r)
                       /\ Listed(r))
       => outcome = "allowed"
=============================================================================
