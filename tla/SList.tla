-------------------------------- MODULE SList --------------------------------
(***************************************************************************)
(* The linked lists of slist.c, as sequences; positions count from 0 as in *)
(* the code.  A search compares elements for equality.                     *)
(***************************************************************************)
EXTENDS Integers, SequencesExt

\* slist_push_back: a copy of x goes to the end.
PushBack(list, x) == Append(list, x)

\* slist_size
Size(list) == Len(list)

\* slist_destroy: the list itself stays, without elements.
Destroy(list) == <<>>

\* slist_find: the element at a position of the list.
Find(list, index) == list[index + 1]

\* slist_pop_front: an only element stays in the list.
PopFront(list) == IF Len(list) <= 1 THEN list ELSE Tail(list)

\* slist_pop_index, for a position of the list or a negative one.
PopIndex(list, index) ==
  IF list = <<>> \/ index < 0 THEN list
  ELSE IF index = 0 THEN PopFront(list)
  ELSE RemoveAt(list, index + 1)

\* slist_search: the position of the first match, or -1.
Search(list, x) == SelectInSeq(list, LAMBDA y : y = x) - 1
=============================================================================
