--------------------------- MODULE StreamingParser ---------------------------
(***************************************************************************)
(* pkg/parse: what the streaming XML router keeps between two tokens.      *)
(*                                                                         *)
(* Every open element owns a scope, linked to the scope of its parent;     *)
(* popped scopes are recycled.  A typed handler keeps a session from the   *)
(* start to the end of an element, found again by the path of the element. *)
(* A scope is named by its place in heap, 0 is the nil scope.              *)
(***************************************************************************)
EXTENDS Naturals, Sequences, SequencesExt, TLC

Empty == << >>   \* a map without keys

----------------------------------------------------------------------------
\* Elements.  A value of an attribute is a sequence of words, empty when the
\* element does not have the attribute.

GetAttr(e, name) == IF name \in DOMAIN e.attr THEN e.attr[name] ELSE << >>
Path(elements) == [k \in DOMAIN elements |-> elements[k].tag]

\* Select.Element and Router.Match: a handler sees the elements of its name.
Select(path, tag) == path # << >> /\ path[Len(path)] = tag

----------------------------------------------------------------------------
\* ScopeStack.

NewScopeStack == [heap |-> << >>, stack |-> << >>, free |-> << >>]

Current(s) == IF s.stack = << >> THEN 0 ELSE s.stack[Len(s.stack)]

PushFresh(s) ==
  [heap |-> Append(s.heap, [parent |-> Current(s), storage |-> Empty]),
   stack |-> Append(s.stack, Len(s.heap) + 1), free |-> s.free]

PushRecycled(s) ==
  LET c == s.free[Len(s.free)]
  IN  [heap |-> [s.heap EXCEPT ![c].parent = Current(s)],
       stack |-> Append(s.stack, c), free |-> SubSeq(s.free, 1, Len(s.free) - 1)]

Push(s) == IF s.free = << >> THEN PushFresh(s) ELSE PushRecycled(s)

\* Variants named ..._Without and ..._Instead are not part of the model: they
\* are faults a change to the code could introduce, kept to show that the
\* properties notice them.

Pop_WithoutClear(s) ==
  IF s.stack = << >> THEN s
  ELSE [heap |-> [s.heap EXCEPT ![Current(s)].parent = 0],
        stack |-> SubSeq(s.stack, 1, Len(s.stack) - 1), free |-> Append(s.free, Current(s))]

Pop_WithoutFree(s) ==
  IF s.stack = << >> THEN s
  ELSE [s EXCEPT !.stack = SubSeq(s.stack, 1, Len(s.stack) - 1)]

Pop(s) ==
  IF s.stack = << >> THEN s
  ELSE [heap |-> [s.heap EXCEPT ![Current(s)] = [parent |-> 0, storage |-> Empty]],
        stack |-> SubSeq(s.stack, 1, Len(s.stack) - 1), free |-> Append(s.free, Current(s))]

StoreInScope(s, key, value) ==
  [s EXCEPT !.heap[Current(s)].storage = (key :> value) @@ @]

\* The scopes from the current one outwards, 0 after the last.
Outwards(s) ==
  LET at[k \in 0..Len(s.heap)] ==
        IF k = 0 THEN Current(s)
        ELSE IF at[k - 1] = 0 THEN 0 ELSE s.heap[at[k - 1]].parent
  IN  at

Holding(s, key) ==
  {k \in DOMAIN Outwards(s) :
     Outwards(s)[k] # 0 /\ key \in DOMAIN s.heap[Outwards(s)[k]].storage}

Visible(s, key) == Holding(s, key) # {}

\* LoadFromScope: the innermost scope that holds the key.
LoadFromScope(s, key) ==
  LET k == CHOOSE k \in Holding(s, key) : \A j \in Holding(s, key) : k <= j
  IN  s.heap[Outwards(s)[k]].storage[key]

\* The open scopes are linked in the order they were opened in; a free one is
\* unlinked, empty and not open.
ScopesSound(s) ==
  /\ \A k \in DOMAIN s.stack :
       s.heap[s.stack[k]].parent = IF k = 1 THEN 0 ELSE s.stack[k - 1]
  /\ \A k \in DOMAIN s.free : s.heap[s.free[k]] = [parent |-> 0, storage |-> Empty]
  /\ \A c \in DOMAIN s.heap : \* each in one place
       \/ \E k \in DOMAIN s.stack : s.stack[k] = c /\ \A j \in DOMAIN s.stack : s.stack[j] = c => j = k
       \/ \E k \in DOMAIN s.free : s.free[k] = c
  /\ Len(s.stack) + Len(s.free) = Len(s.heap)

----------------------------------------------------------------------------
\* SessionManager, one for each handler.

SessionStore(sessions, path, context) ==
  [p \in DOMAIN sessions \cup {path} |-> IF p = path THEN context ELSE sessions[p]]
SessionExists(sessions, path) == path \in DOMAIN sessions
SessionDelete(sessions, path) ==
  [p \in DOMAIN sessions \ {path} |-> sessions[p]]
=============================================================================
