---------------------------- MODULE TermsMessage ----------------------------
(***************************************************************************)
(* How a policy's terms are read back from its topic: readTermsMessage of  *)
(* src/oracle/verify-policy.js.  A long message is cut into chunks that    *)
(* share the identity of the transaction that began it; other messages may *)
(* sit between them, on either side of the one a policy points to.         *)
(*                                                                         *)
(* A topic is a sequence of messages [origin, number, total], an index its *)
(* sequence number.  What a chunk says is its place in the topic; the size *)
(* limit and the checks of a page's form are left out.                     *)
(***************************************************************************)
EXTENDS Integers, FiniteSets, Sequences

CONSTANTS
    PageSize,       \* messages of a page of the mirror node (100)
    MaxPages,       \* pages read in each direction (5)
    MaxChunks       \* chunks a message may have (20)

Unreadable == <<>>

Distance(i, j) == IF i < j THEN j - i ELSE i - j

\* Mutant: only the messages that follow are searched.
PagesAfter(topic, first, k) ==
    {i \in DOMAIN topic : i - first > (k - 1) * PageSize /\ i - first <= k * PageSize}

\* The pages read in one round: the k-th after and the k-th before first.
Pages(topic, first, k) ==
    {i \in DOMAIN topic : /\ Distance(i, first) > (k - 1) * PageSize
                          /\ Distance(i, first) <= k * PageSize}

Inconsistent(topic, first, found) ==
    \/ \E i \in found : \/ topic[i].total # topic[first].total
                        \/ topic[i].number \notin 1..topic[first].total
    \/ \E i, j \in found : i # j /\ topic[i].number = topic[j].number

(***************************************************************************)
(* The chunks of the message at first, in order, or Unreadable.  Identity  *)
(* and number join them, never adjacency; the search ends when all are     *)
(* found, when one contradicts another, or after MaxPages rounds.          *)
(***************************************************************************)
ReadTerms(topic, first) ==
    LET total == topic[first].total
        Sibling(i) == topic[i].origin = topic[first].origin
        Settled(found) == Cardinality(found) = total \/ Inconsistent(topic, first, found)
        Found[k \in 0..MaxPages] ==
            IF k = 0 THEN {first}
            ELSE IF Settled(Found[k - 1]) THEN Found[k - 1]
            ELSE Found[k - 1] \cup {i \in Pages(topic, first, k) : Sibling(i)}
        found == Found[MaxPages]
    IN  CASE total = 1 -> <<first>>
          [] total # 1 /\ (topic[first].number # 1 \/ total > MaxChunks) -> Unreadable
          [] OTHER -> IF Inconsistent(topic, first, found) \/ Cardinality(found) # total
                      THEN Unreadable
                      ELSE [n \in 1..total |-> CHOOSE i \in found : topic[i].number = n]
=============================================================================
