---------------------------- MODULE SessionStore ----------------------------
(* One conversation's journal on disk and the Session objects that write it. *)
(* Sources: pico/session/manager.py and pico/utils/atomic_io.py.             *)
(*                                                                           *)
(* Every mutation runs under the file's lock, so a mutation that completes   *)
(* is one step; a process that dies inside it leaves one of the intermediate *)
(* states, which the Crash actions enumerate.  A writer is a reference to a  *)
(* Session object, in one process or in several.                             *)
EXTENDS Integers, Sequences, FiniteSets, SequencesExt

CONSTANTS
  Writer,     \* holders of a Session object for the key
  Meta,       \* metadata, last_consolidated and pending_clarification together
  Blank,      \* their value in a new session
  MaxMsg,     \* bound on recorded messages
  MaxEpoch,   \* bound on the storage epoch
  None

(* The JSONL file, what a Session object last knew to be saved, and the      *)
(* object itself, with messages of a set S                                   *)
FileRecord(S) == [msgs : Seq(S), meta : Meta, partial : BOOLEAN]
Snapshot(S) == [msgs : Seq(S), meta : Meta]
SessionRecord(S) ==
  [msgs : Seq(S), meta : Meta, persisted : BOOLEAN, epoch : Nat, rewrite : BOOLEAN,
   snap : Snapshot(S) \cup {None}]

ASSUME SessionAssumption ==
  /\ Blank \in Meta /\ None \notin Meta \cup Writer \cup Nat
  /\ None \notin FileRecord(Nat) \cup Snapshot(Nat) \cup SessionRecord(Nat)
  /\ MaxMsg \in Nat \ {0} /\ MaxEpoch \in Nat

VARIABLES
  file,     \* the JSONL file: [msgs, meta, partial], None when absent
  epoch,    \* the .epoch file, None when absent
  known,    \* the .known marker exists
  session,  \* writer -> Session object, None when it holds none
  count,    \* messages recorded so far; message n is the n-th
  acked,    \* history: messages of a save that returned
  gone      \* history: messages a clear, undo or delete has removed

disk == <<file, epoch, known>>
vars == <<file, epoch, known, session, count, acked, gone>>
-----------------------------------------------------------------------------
(* read_epoch, and what it and _check_epoch report as corruption             *)
Epoch == IF epoch = None THEN 0 ELSE epoch
Corrupt ==
  \/ epoch = None /\ known
  \/ file = None /\ (known \/ epoch # None) /\ Epoch = 0

(* Session: snap is _persisted_snapshot, Len(snap.msgs) _persisted_count     *)
Durable(s) == [msgs |-> s.msgs, meta |-> s.meta]
Dirty(s) ==
  \/ s.rewrite
  \/ IF s.persisted THEN s.snap # Durable(s) ELSE s.msgs # <<>> \/ s.meta # Blank
\* Mutant: _mark_persisted is forgotten
SavedUnmarked(s, e) == [s EXCEPT !.persisted = TRUE, !.epoch = e, !.rewrite = FALSE]

Saved(s, e) ==
  [s EXCEPT !.persisted = TRUE, !.epoch = e, !.rewrite = FALSE, !.snap = Durable(s)]
NewSession(e) ==
  [msgs |-> <<>>, meta |-> Blank, persisted |-> FALSE, epoch |-> e, rewrite |-> FALSE,
   snap |-> None]

AppendOnly(s) == s.snap # None /\ IsPrefix(s.snap.msgs, s.msgs)
MustRewrite(s) == s.rewrite \/ (s.persisted /\ ~AppendOnly(s))

\* Mutant: _persisted_count stays at zero
AllMessages(s) == s.msgs

Unsaved(s) == IF s.snap = None THEN s.msgs
              ELSE SubSeq(s.msgs, Len(s.snap.msgs) + 1, Len(s.msgs))

(* _check_epoch with the epoch the object was loaded or saved at             *)
SameGeneration(s) == ~Corrupt /\ s.epoch = Epoch

(* The conditions of locked_append, _validate_append_base included           *)
CanAppend(s) ==
  /\ SameGeneration(s)
  /\ s.persisted => file # None
  /\ file # None =>
       ~file.partial /\ file.meta = (IF s.snap = None THEN s.meta ELSE s.snap.meta)

\* Mutant: neither the epoch nor the history on disk is compared
RewriteBlindly(s) == ~Corrupt /\ (file # None) = s.persisted

(* The conditions of atomic_replace, _validate_rewrite_base included         *)
CanRewrite(s) ==
  /\ SameGeneration(s)
  /\ (file # None) = s.persisted
  /\ s.snap # None => s.snap = [msgs |-> file.msgs, meta |-> file.meta]

OldMsgs == IF file = None THEN <<>> ELSE file.msgs

Appended(s) ==
  /\ file' = [msgs |-> OldMsgs \o Unsaved(s), meta |-> s.meta, partial |-> FALSE]
  /\ epoch' = Epoch
  /\ known' = (known \/ epoch = None)

\* Mutant: a rewrite keeps the storage epoch
ReplacedQuietly(s) ==
  /\ file' = [msgs |-> s.msgs, meta |-> s.meta, partial |-> FALSE]
  /\ epoch' = Epoch
  /\ known' = TRUE

Replaced(s) ==
  /\ file' = [msgs |-> s.msgs, meta |-> s.meta, partial |-> FALSE]
  /\ epoch' = Epoch + 1
  /\ known' = TRUE

(* A rewrite removes what its author knew to be there                        *)
Removed(s) == IF s.snap = None THEN {} ELSE Range(s.snap.msgs) \ Range(s.msgs)
-----------------------------------------------------------------------------
(* No file yet, or one written before storage epochs existed                 *)
Init ==
  /\ \/ file = None /\ count = 0
     \/ file = [msgs |-> <<1>>, meta |-> Blank, partial |-> FALSE] /\ count = 1
  /\ epoch = None /\ known = FALSE
  /\ session = [w \in Writer |-> None]
  /\ acked = 1..count /\ gone = {}

(* get_or_create without a cached object: _load_state                        *)
Open(w) ==
  /\ session[w] = None /\ ~Corrupt
  /\ session' = [session EXCEPT ![w] =
       IF file = None THEN NewSession(Epoch)
       ELSE [Saved([NewSession(Epoch) EXCEPT !.msgs = file.msgs, !.meta = file.meta], Epoch)
               EXCEPT !.rewrite = file.partial]]
  /\ UNCHANGED <<disk, count, acked, gone>>

Record(w) ==
  /\ session[w] # None /\ count < MaxMsg
  /\ count' = count + 1
  /\ session' = [session EXCEPT ![w].msgs = Append(@, count')]
  /\ UNCHANGED <<disk, acked, gone>>

(* A title, a consolidation cursor or a pending clarification                *)
SetMeta(w, m) ==
  /\ session[w] # None /\ session[w].meta # m
  /\ session' = [session EXCEPT ![w].meta = m]
  /\ UNCHANGED <<disk, count, acked, gone>>

(* save, by append and by rewrite; a refused save changes nothing            *)
SaveAppend(w) ==
  LET s == session[w] IN
  /\ s # None /\ ~MustRewrite(s) /\ CanAppend(s)
  /\ Appended(s)
  /\ session' = [session EXCEPT ![w] = Saved(s, Epoch)]
  /\ acked' = acked \cup Range(Unsaved(s))
  /\ UNCHANGED <<count, gone>>

SaveRewrite(w) ==
  LET s == session[w] IN
  /\ s # None /\ MustRewrite(s) /\ CanRewrite(s) /\ Epoch < MaxEpoch
  /\ Replaced(s)
  /\ session' = [session EXCEPT ![w] = Saved(s, epoch')]
  /\ acked' = acked \cup Range(s.msgs)
  /\ gone' = gone \cup Removed(s)
  /\ UNCHANGED count

(* session.clear and session.undo: cut the history and commit the rewrite;   *)
(* when the commit is refused the object is restored.                        *)
CutHistory(w) ==
  \E n \in 0..MaxMsg, m \in Meta :
    LET s == [session[w] EXCEPT !.msgs = SubSeq(@, 1, n), !.meta = m] IN
    /\ session[w] # None /\ Epoch < MaxEpoch
    /\ n < Len(session[w].msgs) \/ n = 0
    /\ IF s.persisted \/ Dirty(s)
       THEN /\ CanRewrite(s) /\ Replaced(s)
            /\ session' = [session EXCEPT ![w] = Saved(s, epoch')]
            /\ acked' = acked \cup Range(s.msgs)
            /\ gone' = gone \cup Removed(s)
       ELSE /\ SameGeneration(s) /\ file = None
            /\ epoch' = Epoch + 1 /\ known' = TRUE /\ UNCHANGED file
            /\ session' = [session EXCEPT ![w] = [s EXCEPT !.epoch = @ + 1]]
            /\ UNCHANGED <<acked, gone>>
    /\ UNCHANGED count

(* The /new command clears the object before it knows that the save          *)
(* succeeds; of the metadata only the title and the like survive in m.       *)
NewConversation(w, m) ==
  LET s == [session[w] EXCEPT !.msgs = <<>>, !.meta = m] IN
  /\ session[w] # None /\ Epoch < MaxEpoch
  /\ IF MustRewrite(s)
     THEN \/ /\ CanRewrite(s) /\ Replaced(s)
             /\ session' = [session EXCEPT ![w] = None]
             /\ gone' = gone \cup Removed(s)
          \/ /\ ~CanRewrite(s) /\ session' = [session EXCEPT ![w] = s]
             /\ UNCHANGED <<disk, gone>>
     ELSE \/ /\ CanAppend(s) /\ Appended(s)
             /\ session' = [session EXCEPT ![w] = None] /\ UNCHANGED gone
          \/ /\ ~CanAppend(s) /\ session' = [session EXCEPT ![w] = s]
             /\ UNCHANGED <<disk, gone>>
  /\ UNCHANGED <<count, acked>>

Invalidate(w) ==
  /\ session[w] # None
  /\ session' = [session EXCEPT ![w] = None]
  /\ UNCHANGED <<disk, count, acked, gone>>

\* Mutant: the file is removed and its epoch is left alone
UnlinkOnly(w) ==
  /\ ~Corrupt /\ file # None
  /\ file' = None /\ epoch' = Epoch /\ known' = TRUE
  /\ session' = [session EXCEPT ![w] = None]
  /\ gone' = gone \cup Range(OldMsgs)
  /\ UNCHANGED <<count, acked>>

(* delete fences the generation even when only a cached object exists        *)
Delete(w) ==
  /\ ~Corrupt /\ Epoch < MaxEpoch
  /\ file # None \/ session[w] # None
  /\ file' = None /\ epoch' = Epoch + 1 /\ known' = TRUE
  /\ session' = [session EXCEPT ![w] = None]
  /\ gone' = gone \cup Range(OldMsgs)
  /\ UNCHANGED <<count, acked>>

(* The process dies inside locked_append: after the .known marker, after the *)
(* .epoch file, after the file was created, or within the block of records.  *)
(* A file without a metadata record counts as one with blank metadata.       *)
CrashInAppend(w) ==
  LET s == session[w] IN
  /\ s # None /\ ~MustRewrite(s) /\ CanAppend(s)
  /\ session' = [session EXCEPT ![w] = None]
  /\ \/ /\ epoch = None /\ ~known
        /\ known' = TRUE /\ UNCHANGED <<file, epoch>>
     \/ /\ epoch' = Epoch /\ known' = (known \/ epoch = None) /\ UNCHANGED file
     \/ /\ epoch' = Epoch /\ known' = (known \/ epoch = None)
        /\ \E torn \in BOOLEAN :
             file' = [msgs |-> OldMsgs, meta |-> IF file = None THEN Blank ELSE file.meta,
                      partial |-> torn]
     \/ /\ epoch' = Epoch /\ known' = (known \/ epoch = None)
        /\ \E k \in 0..Len(Unsaved(s)), torn \in BOOLEAN :
             /\ k = Len(Unsaved(s)) => ~torn
             /\ file' = [msgs |-> OldMsgs \o SubSeq(Unsaved(s), 1, k), meta |-> s.meta,
                         partial |-> torn]
  /\ UNCHANGED <<count, acked, gone>>

(* The process dies inside atomic_replace or locked_delete, between the      *)
(* epoch and the file: the old content stays under the next epoch            *)
CrashInFence(w) ==
  /\ ~Corrupt /\ Epoch < MaxEpoch
  /\ file # None \/ session[w] # None
  /\ session' = [session EXCEPT ![w] = None]
  /\ \/ /\ epoch = None /\ ~known
        /\ known' = TRUE /\ UNCHANGED <<file, epoch>>
     \/ /\ epoch' = Epoch + 1 /\ known' = TRUE /\ UNCHANGED file
  /\ UNCHANGED <<count, acked, gone>>

Next ==
  \E w \in Writer :
    \/ Open(w) \/ Record(w) \/ SaveAppend(w) \/ SaveRewrite(w) \/ CutHistory(w)
    \/ Invalidate(w) \/ Delete(w) \/ CrashInAppend(w) \/ CrashInFence(w)
    \/ \E m \in Meta : SetMeta(w, m) \/ NewConversation(w, m)

Spec == Init /\ [][Next]_vars
-----------------------------------------------------------------------------
(* The fields have their types, and a session object that claims to be       *)
(* persisted has the snapshot its next save is validated against.            *)
TypeOK ==
  /\ file \in FileRecord(1..count) \cup {None}
  /\ epoch \in 0..MaxEpoch \cup {None} /\ known \in BOOLEAN /\ count \in 0..MaxMsg
  /\ session \in [Writer -> SessionRecord(1..count) \cup {None}]
  /\ \A w \in Writer :
       session[w] # None => (session[w].persisted <=> session[w].snap # None)
  /\ acked \subseteq 1..count /\ gone \subseteq 1..count

(* A message whose save returned stays in the journal until somebody who had *)
(* it in view clears, undoes or deletes it: no writer's append or rewrite    *)
(* drops another writer's turn, and no crash does.                           *)
SavedTurnsSurvive == acked \ gone \subseteq Range(OldMsgs)

(* What a clear, an undo or a delete has removed never comes back through a  *)
(* writer that still holds the old history (the storage epoch fences it).    *)
NoResurrection == gone \cap Range(OldMsgs) = {}

(* No message is written twice, whatever crashed in between.                 *)
NoDuplicates == IsInjective(OldMsgs)

Position(s, m) == CHOOSE i \in DOMAIN s : s[i] = m

(* A writer of the current generation never disagrees with the journal about *)
(* its past: what it takes to be saved is there, in the same order.          *)
CurrentViewIsStored ==
  \A w \in Writer :
    LET s == session[w] IN
    s # None /\ s.persisted /\ s.epoch = Epoch =>
      /\ Range(s.snap.msgs) \subseteq Range(OldMsgs)
      /\ \A i, j \in DOMAIN s.snap.msgs :
           i < j => Position(OldMsgs, s.snap.msgs[i]) < Position(OldMsgs, s.snap.msgs[j])

(* The storage epoch never goes back, and history leaves the journal only    *)
(* together with an advance of the epoch.                                    *)
EpochFencesHistory ==
  [][/\ IF epoch' = None THEN Epoch = 0 ELSE epoch' >= Epoch
     /\ ~(Range(OldMsgs) \subseteq (IF file' = None THEN {} ELSE Range(file'.msgs)))
        => epoch' = Epoch + 1]_vars
=============================================================================
