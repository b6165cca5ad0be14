------------------------------ MODULE Bulletin ------------------------------
(***************************************************************************)
(* What the directory promises its readers, independent of challenges,     *)
(* expiry and wake-ups: there is one page for each query, and whatever a   *)
(* reader is given is the page as it is at that moment.  A page may change *)
(* under the readers, who go on with what they have until they look again. *)
(* An entry that a reader has asked for by itself is private to it: it may *)
(* lag behind until the page's own entry replaces it.  A page that matches *)
(* players never shows two hosts.                                          *)
(***************************************************************************)
CONSTANTS
  Host, Keys, None, Query, Reader,
  Single     \* queries whose page shows one host at most

VARIABLES
  page,     \* query -> host -> its keys
  query,    \* reader -> the query it follows
  view,     \* reader -> what it has
  private   \* reader -> hosts it has asked for by itself

Empty == [a \in Host |-> None]
vars == <<page, query, view, private>>

Init ==
  /\ page = [q \in Query |-> Empty]
  /\ query = [c \in Reader |-> None]
  /\ view = [c \in Reader |-> Empty]
  /\ private = [c \in Reader |-> {}]

(* Hosts come, change, leave or fall silent; nobody is told by this alone. *)
Turn ==
  /\ UNCHANGED <<query, view, private>>
  /\ page' \in [Query -> [Host -> Keys \cup {None}]]
  /\ \A q \in Single : \A a, b \in Host :
       page'[q][a] # None /\ page'[q][b] # None => a = b

Gets(c, list, own) ==
  /\ view' = [view EXCEPT ![c] = list]
  /\ private' = [private EXCEPT ![c] = own]
  /\ page' = page

(* A reader is given a page and follows it from now on.                    *)
Read(c, q) ==
  /\ Gets(c, page[q], {})
  /\ query' = [query EXCEPT ![c] = q]

Follow(c) ==
  /\ query[c] # None
  /\ \E own \in SUBSET private[c] :
       Gets(c, [a \in Host |-> IF a \in own THEN view[c][a]
                               ELSE page[query[c]][a]], own)
  /\ query' = query

Ask(c, a) ==
  /\ \E k \in Keys : Gets(c, [view[c] EXCEPT ![a] = k], private[c] \cup {a})
  /\ query' = query

Leave(c) ==
  /\ Gets(c, Empty, {})
  /\ query' = [query EXCEPT ![c] = None]

Next ==
  \/ Turn
  \/ \E c \in Reader : \/ \E q \in Query : Read(c, q)
                       \/ \E a \in Host : Ask(c, a)
                       \/ Follow(c)
                       \/ Leave(c)

Spec == Init /\ [][Next]_vars
=============================================================================
