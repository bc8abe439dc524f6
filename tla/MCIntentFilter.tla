--------------------------- MODULE MCIntentFilter ----------------------------
(***************************************************************************)
(* IntentFilter for TLC: two accounts, two chains one of whose names is    *)
(* part of the other's, and lists with at most two filters in all.         *)
(***************************************************************************)
EXTENDS IntentFilter

CONSTANTS alice, bob, sepolia, arbitrumsepolia

MCInside == {<<sepolia, arbitrumsepolia>>}

MCFilters ==
  [senderAddress : {Wildcard, OneOf({Text(alice, "upper")}), OneOf({Text(alice, "icap")})},
   destinationDomain : {Wildcard, Plain(Text(arbitrumsepolia, "lower")),
                        OneOf({Text(sepolia, "lower")})},
   recipientAddress : {Wildcard, Plain(Text(bob, "checksummed")),
                       Plain(Text(bob, "unprefixed"))}]

MCLists ==
  LET Lists == {<<>>} \cup {<<f>> : f \in FilterSet}
      None == [block |-> <<>>, allow |-> <<>>]
      Pairs == [block : Lists, allow : Lists]
  IN
  {[global |-> g, solver |-> None] : g \in Pairs}
    \cup {[global |-> None, solver |-> s] : s \in Pairs}
    \cup {[global |-> [block |-> b, allow |-> <<>>], solver |-> [block |-> c, allow |-> <<>>]] :
            b, c \in Lists}
    \cup {[global |-> [block |-> b, allow |-> <<>>], solver |-> [block |-> <<>>, allow |-> a]] :
            a, b \in Lists}
    \cup {[global |-> [block |-> <<>>, allow |-> a], solver |-> [block |-> b, allow |-> <<>>]] :
            a, b \in Lists}
    \cup {[global |-> [block |-> <<>>, allow |-> a], solver |-> [block |-> <<>>, allow |-> b]] :
            a, b \in Lists}
=============================================================================
