------------------------------- MODULE PageStore -------------------------------
(***************************************************************************)
(* What the buffer pool promises its clients: one value per page, which    *)
(* changes only when a client that has the page pinned writes it.  Frames, *)
(* eviction, the dirty bit and the disk do not appear.  Only a page of a   *)
(* file that is not open, and that nobody has pinned, may lose writes.     *)
(***************************************************************************)
CONSTANTS PageKey, File, FileOf(_), Data, Zero, Client, NoPage

VARIABLES store,   \* PageKey -> Data
          files,   \* the open files
          held     \* Client -> the page it has pinned, or NoPage

Init ==
  /\ store = [k \in PageKey |-> Zero]
  /\ files = {}
  /\ held = [c \in Client |-> NoPage]

Pin(c, k) ==
  /\ held[c] = NoPage
  /\ held' = [held EXCEPT ![c] = k]
  /\ UNCHANGED <<store, files>>

Write(c, d) ==
  /\ held[c] # NoPage
  /\ store' = [store EXCEPT ![held[c]] = d]
  /\ UNCHANGED <<files, held>>

Unpin(c) ==
  /\ held[c] # NoPage
  /\ held' = [held EXCEPT ![c] = NoPage]
  /\ UNCHANGED <<store, files>>

Open(f) ==
  /\ files' = files \cup {f}
  /\ UNCHANGED <<store, held>>

Close(f) ==
  /\ files' = files \ {f}
  /\ UNCHANGED <<store, held>>

Forget(k, d) ==
  /\ FileOf(k) \notin files
  /\ \A c \in Client : held[c] # k
  /\ store' = [store EXCEPT ![k] = d]
  /\ UNCHANGED <<files, held>>

Next ==
  \/ \E c \in Client, k \in PageKey : Pin(c, k)
  \/ \E c \in Client, d \in Data : Write(c, d)
  \/ \E c \in Client : Unpin(c)
  \/ \E f \in File : Open(f) \/ Close(f)
  \/ \E k \in PageKey, d \in Data : Forget(k, d)

vars == <<store, files, held>>

Spec == Init /\ [][Next]_vars
================================================================================
