---------------------------- MODULE MeasureLists ----------------------------
(***************************************************************************)
(* link_list.h: points kept in doubly linked lists, one for each measure,   *)
(* and the lists in descending order of measure.                           *)
(*                                                                         *)
(* chain is the chain of lists from LoL_head to LoL_tail, each with its     *)
(* measure and its first and last point.  next and prev are the arrays      *)
(* lists and where, which link the points of a list and keep what they held *)
(* of a point that was removed.  A write outside them is left out: there is *)
(* none as long as a point is on the list it is removed from.              *)
(***************************************************************************)
EXTENDS Integers, SequencesExt

LIST_HEAD == -1
LIST_TAIL == -2

NoLists(P) ==
  [chain |-> << >>, next |-> [i \in P |-> 0], prev |-> [i \in P |-> 0]]

(* create_elt with the point both callers put on the new list.            *)
NewList(m, i) == [data |-> m, head |-> i, tail |-> i]

UnlinkFirstForward(L, k, i) == [L EXCEPT !.chain[k].head = L.next[i]]
UnlinkFirst(L, k, i) ==
  [L EXCEPT !.chain[k].head = L.next[i], !.prev[L.next[i]] = LIST_HEAD]
UnlinkLast(L, k, i) ==
  [L EXCEPT !.chain[k].tail = L.prev[i], !.next[L.prev[i]] = LIST_TAIL]
UnlinkInner(L, i) ==
  [L EXCEPT !.next[L.prev[i]] = L.next[i], !.prev[L.next[i]] = L.prev[i]]

(* The first list of measure m, and the first of a measure not above m;    *)
(* zero if there is none.                                                  *)
ListOf(chain, m) == SelectInSeq(chain, LAMBDA list : list.data = m)
FirstNotAbove(chain, m) == SelectInSeq(chain, LAMBDA list : m >= list.data)

(* Takes point i from the list of measure m; nothing is done when there is *)
(* no such list, and the list goes with its last point.                    *)
remove_point(L, m, i) ==
  LET k == ListOf(L.chain, m)
      list == L.chain[k]
  IN
  CASE k = 0 -> L
    [] k > 0 /\ list.head = i /\ list.tail = i -> [L EXCEPT !.chain = RemoveAt(@, k)]
    [] k > 0 /\ list.head = i /\ list.tail # i -> UnlinkFirst(L, k, i)
    [] k > 0 /\ list.head # i /\ list.tail = i -> UnlinkLast(L, k, i)
    [] OTHER -> UnlinkInner(L, i)

(* Point i becomes the last of list k.                                     *)
AppendPoint(L, k, i) ==
  LET old_tail == L.chain[k].tail IN
  [L EXCEPT !.chain[k].tail = i,
            !.next = [@ EXCEPT ![old_tail] = i, ![i] = LIST_TAIL],
            !.prev[i] = old_tail]

(* A list of its own for point i, before list k.                           *)
InsertList(L, k, m, i) ==
  [L EXCEPT !.chain = InsertAt(@, k, NewList(m, i)),
            !.next[i] = LIST_TAIL,
            !.prev[i] = LIST_HEAD]

(* Puts point i last on the list of measure m, or on a new list before the *)
(* first one of a smaller measure.                                         *)
enter_on_lists(L, m, i) ==
  LET found == FirstNotAbove(L.chain, m)
      k     == IF found = 0 THEN Len(L.chain) + 1 ELSE found
  IN
  IF k <= Len(L.chain) /\ L.chain[k].data = m
    THEN AppendPoint(L, k, i)
    ELSE InsertList(L, k, m, i)

(* LoL_head -> head                                                        *)
First(L) == Head(L.chain).head
-----------------------------------------------------------------------------
(* The points of P, and no others, are on the lists, each under its        *)
(* measure: the measures descend along the chain, and for every list there *)
(* is an order of its points in which head, next and tail visit them, and  *)
(* prev visits them backwards.                                             *)
Linked(L, list, members) ==
  \E order \in SetToSeqs(members) :
    /\ order # << >>
    /\ list.head = order[1] /\ L.prev[list.head] = LIST_HEAD
    /\ list.tail = order[Len(order)] /\ L.next[list.tail] = LIST_TAIL
    /\ \A k \in 1 .. Len(order) - 1 :
         L.next[order[k]] = order[k + 1] /\ L.prev[order[k + 1]] = order[k]

OnLists(L, P, measure) ==
  /\ { measure[i] : i \in P } = { L.chain[k].data : k \in DOMAIN L.chain }
  /\ \A j, k \in DOMAIN L.chain : j < k => L.chain[j].data > L.chain[k].data
  /\ \A k \in DOMAIN L.chain :
       Linked(L, L.chain[k], { i \in P : measure[i] = L.chain[k].data })
=============================================================================
