------------------------ MODULE RuntimeConfigProofs ------------------------
(***************************************************************************)
(* Proofs about RuntimeConfig, for every registry, every number of writers *)
(* and readers, every decoding of raw values, durable store or not.  First *)
(* the types and what callers were told, then the views, and last that the *)
(* Manager implements ConfigContract.                                      *)
(***************************************************************************)
EXTENDS RuntimeConfig, TLAPS

(* The inductive invariant, one named part per argument. *)

WriterPcs == {"idle", "lock", "persist", "clone", "publish", "unlock", "replied"}
BootPcs == {"down", "lock", "load", "publish", "unlock", "up"}
Critical == {"persist", "clone", "publish", "unlock", "load"}
Accepted == {"lock", "persist", "clone", "publish", "unlock"}

\* A goroutine is between Lock and the deferred Unlock iff it holds writeMu.
MutexInv ==
    /\ \A w \in Writers : pc[w] \in WriterPcs
    /\ pc[Boot] \in BootPcs
    /\ \A p \in Procs : pc[p] \in Critical <=> writeMu = p

\* A call that got past the checks names a mutable key and a row that decodes;
\* it returns nil only from the unlock on, and clones only for a hot key.
CallInv ==
    \A w \in Writers :
        /\ pc[w] \in Accepted =>
              /\ call[w].name \in Mutable
              /\ Refusal(call[w].name, call[w].row) = "none"
        /\ pc[w] \in {"lock", "persist", "clone", "publish"} => ret[w] = "none"
        /\ pc[w] \in {"clone", "publish"} => call[w].name \notin RestartRequired

-----------------------------------------------------------------------------
(* Facts about the pure operators. *)

LEMMA LiveOfType ==
    ASSUME NEW k \in Keys, NEW row
    PROVE  LiveOf(k, row) \in Values \cup {None}
  BY DecodeAssumption DEF LiveOf

LEMMA KeyViewType ==
    ASSUME NEW o \in Overlays, NEW k \in Keys
    PROVE  KeyView(o, k) \in Entries
  <1>1. resolve(o, k) \in Values
    BY DecodeAssumption DEF resolve, Overlays
  <1>2. redact(k, resolve(o, k)) \in Values \cup {Mask, None}
    BY <1>1 DEF redact
  <1>3. QED
    BY <1>2 DEF KeyView, Entries

LEMMA EditedType ==
    ASSUME NEW o \in Overlays, NEW c, c.name \in Keys
    PROVE  /\ Edited(o, c) \in Overlays
           /\ Edited(o, c)[c.name] = LiveOf(c.name, c.row)
           /\ \A k \in Keys \ {c.name} : Edited(o, c)[k] = o[k]
  BY LiveOfType DEF Edited, Overlays

LEMMA LoadedType ==
    ASSUME NEW rows
    PROVE  LoadedOverlay(rows) \in Overlays
  BY LiveOfType DEF LoadedOverlay, Overlays

LEMMA NewOverlayType == newOverlay \in Overlays
  BY DEF newOverlay, Overlays

-----------------------------------------------------------------------------
(* Types. *)

TypeInv == TypeOK /\ MutexInv /\ CallInv

LEMMA TypeInit == Init => TypeInv
  <1> SUFFICES ASSUME Init PROVE TypeInv
    OBVIOUS
  <1>0. \A k \in Keys : store[k] \in Rows
    BY NamesAssumption DEF Init, Rows
  <1>1. TypeOK
    BY <1>0, NewOverlayType, NamesAssumption, ProcessAssumption
    DEF Init, TypeOK, Rows, Procs, NoCall, NoEntry, Entries, newOverlay
  <1>2. MutexInv
    BY ProcessAssumption
    DEF Init, MutexInv, Procs, WriterPcs, BootPcs, Critical
  <1>3. CallInv
    BY ProcessAssumption DEF Init, CallInv, Procs, Accepted
  <1>4. QED
    BY <1>1, <1>2, <1>3 DEF TypeInv

LEMMA TypeStep == TypeInv /\ [Next]_vars => TypeInv'
  <1> SUFFICES ASSUME TypeInv, [Next]_vars PROVE TypeInv'
    OBVIOUS
  <1> USE NamesAssumption, ProcessAssumption DEF TypeInv, Procs
  <1>1. CASE NewManager
    <2>1. TypeOK'
      BY <1>1, NewOverlayType DEF NewManager, GoTo, TypeOK, readerVars
    <2>2. MutexInv' /\ CallInv'
      BY <1>1 DEF NewManager, GoTo, TypeOK, MutexInv, CallInv, BootPcs,
                  WriterPcs, Critical, Accepted
    <2>3. QED
      BY <2>1, <2>2
  <1>2. ASSUME NEW p \in Procs, Lock(p) PROVE TypeInv'
    <2>1. TypeOK'
      BY <1>2 DEF Lock, GoTo, TypeOK, readerVars
    <2>2. MutexInv'
      BY <1>2 DEF Lock, GoTo, TypeOK, MutexInv, BootPcs, WriterPcs, Critical
    <2>3. CallInv'
      BY <1>2 DEF Lock, GoTo, TypeOK, MutexInv, CallInv, Accepted
    <2>4. QED
      BY <2>1, <2>2, <2>3
  <1>3. CASE LoadAll
    <2>1. TypeOK'
      BY <1>3, LoadedType DEF LoadAll, GoTo, TypeOK, readerVars
    <2>2. MutexInv' /\ CallInv'
      BY <1>3 DEF LoadAll, GoTo, TypeOK, MutexInv, CallInv, BootPcs,
                  WriterPcs, Critical, Accepted
    <2>3. QED
      BY <2>1, <2>2
  <1>4. CASE LoadAllFails
    <2>1. TypeOK'
      BY <1>4 DEF LoadAllFails, GoTo, TypeOK, readerVars
    <2>2. MutexInv' /\ CallInv'
      BY <1>4 DEF LoadAllFails, GoTo, TypeOK, MutexInv, CallInv, BootPcs,
                  WriterPcs, Critical, Accepted
    <2>3. QED
      BY <2>1, <2>2
  <1>5. CASE LoadPublish
    <2>1. TypeOK'
      BY <1>5, LiveOfType DEF LoadPublish, Publish, Rows, GoTo, TypeOK, readerVars
    <2>2. MutexInv' /\ CallInv'
      BY <1>5 DEF LoadPublish, GoTo, TypeOK, MutexInv, CallInv, BootPcs,
                  WriterPcs, Critical, Accepted
    <2>3. QED
      BY <2>1, <2>2
  <1>6. CASE LoadReturn
    <2>1. TypeOK'
      BY <1>6 DEF LoadReturn, GoTo, TypeOK, readerVars
    <2>2. MutexInv' /\ CallInv'
      BY <1>6 DEF LoadReturn, GoTo, TypeOK, MutexInv, CallInv, BootPcs,
                  WriterPcs, Critical, Accepted
    <2>3. QED
      BY <2>1, <2>2
  <1>7. ASSUME NEW w \in Writers, NEW name \in Names, NEW row \in Rows,
              Enter(w, name, row)
       PROVE  TypeInv'
    <2>0. Refusal(name, row) \in {"none", "ErrUnknownKey", "ErrImmutable",
                                  "ErrInvalidValue"}
      BY DEF Refusal
    <2>1. TypeOK'
      BY <1>7, <2>0 DEF Enter, GoTo, TypeOK, readerVars
    <2>2. MutexInv'
      BY <1>7 DEF Enter, GoTo, TypeOK, MutexInv, WriterPcs, BootPcs, Critical
    <2>3. Refusal(name, row) = "none" => name \in Mutable
      BY DEF Refusal
    <2>4. CallInv'
      BY <1>7, <2>0, <2>3 DEF Enter, GoTo, TypeOK, CallInv, Accepted
    <2>5. QED
      BY <2>1, <2>2, <2>4
  <1>8. ASSUME NEW w \in Writers, Persist(w) PROVE TypeInv'
    <2>0. pc[w] \in Accepted => call[w].name \in Keys
      BY DEF CallInv
    <2>1. TypeOK'
      BY <1>8, <2>0 DEF Persist, GoTo, TypeOK, Accepted,
                  readerVars
    <2>2. MutexInv'
      BY <1>8 DEF Persist, GoTo, TypeOK, MutexInv, WriterPcs, BootPcs, Critical
    <2>3. CallInv'
      BY <1>8 DEF Persist, GoTo, TypeOK, CallInv, Accepted
    <2>4. QED
      BY <2>1, <2>2, <2>3
  <1>9. ASSUME NEW w \in Writers, PersistFails(w) PROVE TypeInv'
    <2>0. pc[w] \in Accepted => call[w].name \in Keys
      BY DEF CallInv
    <2>1. TypeOK'
      <3>1. call[w] \in [name : Keys, row : Rows]
        BY <1>9, <2>0 DEF PersistFails, TypeOK, Accepted
      <3>2. orphans' \subseteq [name : Keys, row : Rows] /\ store' \in [Names -> Rows]
        BY <1>9, <3>1 DEF PersistFails, TypeOK
      <3>3. QED
        BY <1>9, <3>1, <3>2 DEF PersistFails, GoTo, TypeOK, readerVars
    <2>2. MutexInv'
      BY <1>9 DEF PersistFails, GoTo, TypeOK, MutexInv, WriterPcs, BootPcs, Critical
    <2>3. CallInv'
      BY <1>9 DEF PersistFails, GoTo, TypeOK, CallInv, Accepted
    <2>4. QED
      BY <2>1, <2>2, <2>3
  <1>10. ASSUME NEW w \in Writers, Clone(w) PROVE TypeInv'
    <2>0. pc[w] \in Accepted => call[w].name \in Keys
      BY DEF CallInv
    <2>1. TypeOK'
      BY <1>10, <2>0, EditedType DEF Clone, GoTo, TypeOK, Accepted,
                  readerVars
    <2>2. MutexInv'
      BY <1>10 DEF Clone, GoTo, TypeOK, MutexInv, WriterPcs, BootPcs, Critical
    <2>3. CallInv'
      BY <1>10 DEF Clone, GoTo, TypeOK, CallInv, Accepted
    <2>4. QED
      BY <2>1, <2>2, <2>3
  <1>11. ASSUME NEW w \in Writers, WriterPublish(w) PROVE TypeInv'
    <2>0. pc[w] \in Accepted => call[w].name \in Keys
      BY DEF CallInv
    <2>1. TypeOK'
      BY <1>11, <2>0 DEF WriterPublish, Publish, GoTo, TypeOK, Accepted,
                  readerVars
    <2>2. MutexInv'
      BY <1>11 DEF WriterPublish, GoTo, TypeOK, MutexInv, WriterPcs, BootPcs, Critical
    <2>3. CallInv'
      BY <1>11 DEF WriterPublish, GoTo, TypeOK, CallInv, Accepted
    <2>4. QED
      BY <2>1, <2>2, <2>3
  <1>12. ASSUME NEW w \in Writers, Return(w) PROVE TypeInv'
    <2>0. pc[w] \in Accepted => call[w].name \in Keys
      BY DEF CallInv
    <2>1. TypeOK'
      <3>1. call[w].name \in Keys /\ call[w].row \in Rows
        BY <1>12, <2>0 DEF Return, TypeOK, Accepted
      <3>2. acked' \in [Keys -> Rows \cup {Unknown, Pending}]
        BY <1>12, <3>1 DEF Return, TypeOK
      <3>3. LiveOf(call[w].name, call[w].row) \in Values \cup {None}
        BY <3>1, LiveOfType
      <3>4. effective' \in [Keys -> Values \cup {None, Unknown}]
        BY <1>12, <3>1, <3>3 DEF Return, TypeOK
      <3>5. QED
        BY <1>12, <3>2, <3>4 DEF Return, GoTo, TypeOK, readerVars
    <2>2. MutexInv'
      BY <1>12 DEF Return, GoTo, TypeOK, MutexInv, WriterPcs, BootPcs, Critical
    <2>3. CallInv'
      BY <1>12 DEF Return, GoTo, TypeOK, CallInv, Accepted
    <2>4. QED
      BY <2>1, <2>2, <2>3
  <1>13. ASSUME NEW w \in Writers, Done(w) PROVE TypeInv'
    <2>0. pc[w] \in Accepted => call[w].name \in Keys
      BY DEF CallInv
    <2>1. TypeOK'
      BY <1>13, <2>0, NewOverlayType DEF Done, NoCall, Rows, GoTo, TypeOK, Accepted,
                  readerVars
    <2>2. MutexInv'
      BY <1>13 DEF Done, GoTo, TypeOK, MutexInv, WriterPcs, BootPcs, Critical
    <2>3. CallInv'
      BY <1>13 DEF Done, GoTo, TypeOK, CallInv, Accepted
    <2>4. QED
      BY <2>1, <2>2, <2>3
  <1>14. ASSUME NEW r \in Readers, ViewLoad(r) PROVE TypeInv'
    <2>1. TypeOK'
      BY <1>14 DEF ViewLoad, TypeOK, writerVars, NoEntry, Entries
    <2>2. QED
      BY <1>14, <2>1 DEF ViewLoad, MutexInv, CallInv, writerVars
  <1>15. ASSUME NEW r \in Readers, NEW k \in Keys, ViewKey(r, k) PROVE TypeInv'
    <2>1. TypeOK'
      BY <1>15, KeyViewType DEF ViewKey, TypeOK, writerVars
    <2>2. QED
      BY <1>15, <2>1 DEF ViewKey, MutexInv, CallInv, writerVars
  <1>16. ASSUME NEW o \in orphans, LateCommit(o) \/ LateDrop(o) PROVE TypeInv'
    <2>1. TypeOK'
      BY <1>16 DEF LateCommit, LateDrop, TypeOK, writerVars, readerVars
    <2>2. QED
      BY <1>16, <2>1 DEF LateCommit, LateDrop, MutexInv, CallInv, writerVars
  <1>17. CASE Crash
    <2>1. TypeOK'
      BY <1>17, NewOverlayType
      DEF Crash, TypeOK, Rows, NoCall, NoEntry, Entries, newOverlay
    <2>2. MutexInv' /\ CallInv'
      BY <1>17 DEF Crash, MutexInv, CallInv, WriterPcs, BootPcs, Critical,
                   Accepted
    <2>3. QED
      BY <2>1, <2>2
  <1>18. CASE UNCHANGED vars
    BY <1>18 DEF vars, TypeOK, MutexInv, CallInv
  <1>19. QED
    BY <1>1, <1>2, <1>3, <1>4, <1>5, <1>6, <1>7, <1>8, <1>9, <1>10, <1>11, <1>12, <1>13, <1>14, <1>15, <1>16, <1>17, <1>18
    DEF Next, LoadAtBoot, WriterStep, MergedView, Apply, Clear, Rows

\* The registry types are kept by every call, boot, failure and crash: no value
\* that validateAgainst rejects is ever live, however it came into the table.
THEOREM TypeCorrect == Spec => []TypeOK
  <1>1. Spec => []TypeInv
    BY TypeInit, TypeStep, PTL DEF Spec
  <1>2. TypeInv => TypeOK
    BY DEF TypeInv
  <1>3. QED
    BY <1>1, <1>2, PTL

-----------------------------------------------------------------------------
(* Acknowledged writes are persisted and live. *)

\* While the process is down nothing runs and nothing is live.
DownInv ==
    pc[Boot] = "down" =>
        overlay = newOverlay /\ \A w \in Writers : pc[w] = "idle"

\* The overlay a goroutine is about to publish is not stale: a writer's differs
\* from the live one in its own key only, and the loaded one agrees with every
\* acknowledged row.
PublishInv ==
    /\ \A w \in Writers :
          pc[w] = "publish" => next[w] = Edited(overlay, call[w])
    /\ pc[Boot] = "publish" =>
          \A k \in Keys : acked[k] \in Rows => next[Boot][k] = LiveOf(k, acked[k])

\* Between its statement and its return a writer's row is in the store, unless
\* a late statement overtook it.
Persisted(w) ==
    \/ pc[w] \in {"clone", "publish"}
    \/ pc[w] = "unlock" /\ ret[w] = "nil"

PendingInv ==
    \A w \in Writers :
        Persisted(w) /\ acked[call[w].name] = Pending =>
            store[call[w].name] = call[w].row

\* A writer about to return nil for a hot key has published its value.
PublishedInv ==
    \A w \in Writers :
        pc[w] = "unlock" /\ ret[w] = "nil" /\ call[w].name \notin RestartRequired =>
            overlay[call[w].name] = LiveOf(call[w].name, call[w].row)

SafeInv ==
    /\ DownInv /\ PublishInv /\ PendingInv /\ PublishedInv
    /\ AckedPersisted /\ EffectiveLive

LEMMA SafeInit == Init => SafeInv
  BY ProcessAssumption
  DEF Init, SafeInv, DownInv, PublishInv, PendingInv, Persisted, PublishedInv,
      AckedPersisted, EffectiveLive, Procs

LEMMA SafeStep == TypeInv /\ SafeInv /\ [Next]_vars => SafeInv'
  <1> SUFFICES ASSUME TypeInv, SafeInv, [Next]_vars PROVE SafeInv'
    OBVIOUS
  <1> USE NamesAssumption, ProcessAssumption DEF TypeInv, Procs
  <1>1. CASE NewManager
    BY <1>1 DEF NewManager, GoTo, TypeOK, MutexInv, SafeInv, DownInv, PublishInv,
       PendingInv, Persisted, PublishedInv, AckedPersisted, EffectiveLive
  <1>2. ASSUME NEW p \in Procs, Lock(p) PROVE SafeInv'
    BY <1>2 DEF Lock, GoTo, TypeOK, MutexInv, SafeInv, DownInv, PublishInv,
       PendingInv, Persisted, PublishedInv, AckedPersisted, EffectiveLive
  <1>3. CASE LoadAll
    <2>1. PublishInv'
      BY <1>3 DEF LoadAll, GoTo, TypeOK, SafeInv, PublishInv, AckedPersisted,
         LoadedOverlay
    <2>2. QED
      BY <1>3, <2>1 DEF LoadAll, GoTo, TypeOK, SafeInv, DownInv,
         PendingInv, Persisted, PublishedInv, AckedPersisted, EffectiveLive
  <1>4. CASE LoadAllFails
    BY <1>4 DEF LoadAllFails, GoTo, TypeOK, SafeInv, DownInv, PublishInv,
       PendingInv, Persisted, PublishedInv, AckedPersisted, EffectiveLive
  <1>5. CASE LoadPublish
    <2>1. \A w \in Writers : pc[w] \notin Critical
      BY <1>5 DEF LoadPublish, MutexInv, Critical, TypeOK
    <2>2. EffectiveLive'
      BY <1>5, HistoryAssumption
      DEF LoadPublish, Publish, TypeOK, SafeInv, PublishInv, EffectiveLive
    <2>3. PublishInv' /\ PublishedInv' /\ DownInv' /\ PendingInv'
      BY <1>5, <2>1 DEF LoadPublish, Publish, GoTo, TypeOK, SafeInv, DownInv,
         PublishInv, PendingInv, Persisted, PublishedInv, Critical
    <2>4. QED
      BY <1>5, <2>2, <2>3 DEF LoadPublish, SafeInv, AckedPersisted
  <1>6. CASE LoadReturn
    BY <1>6 DEF LoadReturn, GoTo, TypeOK, SafeInv, DownInv, PublishInv,
       PendingInv, Persisted, PublishedInv, AckedPersisted, EffectiveLive
  <1>7. ASSUME NEW w \in Writers, NEW name \in Names, NEW row \in Rows,
              Enter(w, name, row)
       PROVE  SafeInv'
    BY <1>7 DEF Enter, GoTo, TypeOK, SafeInv, DownInv, PublishInv,
       PendingInv, Persisted, PublishedInv, AckedPersisted, EffectiveLive
  <1>8. ASSUME NEW w \in Writers, Persist(w) PROVE SafeInv'
    <2>0. call[w].name \in Keys /\ pc[w] \in Critical /\ pc[Boot] # "down"
      BY <1>8 DEF Persist, CallInv, Accepted, Critical, SafeInv, DownInv
    <2>1. \A p \in Procs : p # w => pc[p] \notin Critical
      BY <2>0 DEF MutexInv
    <2>2. DownInv' /\ EffectiveLive'
      BY <1>8, <2>0 DEF Persist, GoTo, TypeOK, SafeInv, DownInv, EffectiveLive
    <2>3. PublishInv' /\ PublishedInv'
      <3>1. /\ \A p \in Procs : p # w => pc'[p] = pc[p]
            /\ pc'[w] \in {"clone", "unlock"}
            /\ pc'[w] = "unlock" => call[w].name \in RestartRequired
        BY <1>8 DEF Persist, GoTo, TypeOK
      <3>2. PublishInv'
        BY <1>8, <2>1, <3>1 DEF Persist, PublishInv, Critical
      <3>3. PublishedInv'
        BY <1>8, <2>1, <3>1 DEF Persist, PublishedInv, Critical
      <3>4. QED
        BY <3>2, <3>3
    <2>4. PendingInv'
      BY <1>8, <2>0, <2>1 DEF Persist, GoTo, TypeOK, PendingInv, Persisted, Critical
    <2>5. AckedPersisted'
      BY <1>8, <2>0, HistoryAssumption
      DEF Persist, TypeOK, SafeInv, AckedPersisted, Rows
    <2>6. QED
      BY <2>2, <2>3, <2>4, <2>5 DEF SafeInv
  <1>9. ASSUME NEW w \in Writers, PersistFails(w) PROVE SafeInv'
    <2>0. call[w].name \in Keys /\ pc[w] \in Critical /\ pc[Boot] # "down"
      BY <1>9 DEF PersistFails, CallInv, Accepted, Critical, SafeInv, DownInv
    <2>1. \A p \in Procs : p # w => pc[p] \notin Critical
      BY <2>0 DEF MutexInv
    <2>2. DownInv' /\ EffectiveLive'
      BY <1>9, <2>0 DEF PersistFails, GoTo, TypeOK, SafeInv, DownInv, EffectiveLive
    <2>3. PublishInv' /\ PublishedInv' /\ PendingInv'
      BY <1>9, <2>0, <2>1 DEF PersistFails, GoTo, TypeOK, SafeInv, PublishInv,
         PublishedInv, PendingInv, Persisted, Critical
    <2>4. AckedPersisted'
      BY <1>9, <2>0, HistoryAssumption
      DEF PersistFails, TypeOK, SafeInv, AckedPersisted, Rows
    <2>5. QED
      BY <2>2, <2>3, <2>4 DEF SafeInv
  <1>10. ASSUME NEW w \in Writers, Clone(w) PROVE SafeInv'
    BY <1>10 DEF Clone, GoTo, TypeOK, MutexInv, SafeInv, DownInv, PublishInv,
       PendingInv, Persisted, PublishedInv, AckedPersisted, EffectiveLive
  <1>11. ASSUME NEW w \in Writers, WriterPublish(w) PROVE SafeInv'
    <2>0. /\ call[w].name \in Keys /\ pc[w] \in Critical /\ pc[Boot] # "down"
          /\ overlay' = Edited(overlay, call[w])
      BY <1>11 DEF WriterPublish, Publish, CallInv, Accepted, Critical, SafeInv,
         DownInv, PublishInv
    <2>1. \A p \in Procs : p # w => pc[p] \notin Critical
      BY <2>0 DEF MutexInv
    <2>2. /\ overlay'[call[w].name] = LiveOf(call[w].name, call[w].row)
          /\ \A k \in Keys \ {call[w].name} : overlay'[k] = overlay[k]
      BY <2>0, EditedType DEF TypeOK
    <2>3. EffectiveLive'
      BY <1>11, <2>0, <2>2 DEF WriterPublish, TypeOK, SafeInv, EffectiveLive
    <2>4. PublishInv' /\ PublishedInv' /\ PendingInv' /\ DownInv'
      BY <1>11, <2>0, <2>1, <2>2 DEF WriterPublish, GoTo, TypeOK, SafeInv,
         DownInv, PublishInv, PublishedInv, PendingInv, Persisted, Critical
    <2>5. QED
      BY <1>11, <2>3, <2>4 DEF WriterPublish, SafeInv, AckedPersisted
  <1>12. ASSUME NEW w \in Writers, Return(w) PROVE SafeInv'
    <2>0. call[w].name \in Keys /\ pc[w] \in Critical /\ pc[Boot] # "down"
      BY <1>12 DEF Return, CallInv, Accepted, Critical, SafeInv, DownInv
    <2>1. \A p \in Procs : p # w => pc[p] \notin Critical
      BY <2>0 DEF MutexInv
    <2>2. DownInv'
      BY <1>12, <2>0 DEF Return, GoTo, TypeOK, SafeInv, DownInv
    <2>3. PublishInv' /\ PublishedInv' /\ PendingInv'
      BY <1>12, <2>0, <2>1 DEF Return, GoTo, TypeOK, SafeInv, PublishInv,
         PublishedInv, PendingInv, Persisted, Critical
    <2>4. AckedPersisted'
      BY <1>12, <2>0 DEF Return, TypeOK, SafeInv, PendingInv, Persisted,
         AckedPersisted
    <2>5. EffectiveLive'
      BY <1>12, <2>0 DEF Return, TypeOK, SafeInv, PublishedInv, EffectiveLive
    <2>6. QED
      BY <2>2, <2>3, <2>4, <2>5 DEF SafeInv
  <1>13. ASSUME NEW w \in Writers, Done(w) PROVE SafeInv'
    BY <1>13 DEF Done, GoTo, TypeOK, SafeInv, DownInv, PublishInv,
       PendingInv, Persisted, PublishedInv, AckedPersisted, EffectiveLive
  <1>14. ASSUME NEW r \in Readers, MergedView(r) PROVE SafeInv'
    BY <1>14 DEF MergedView, ViewLoad, ViewKey, writerVars, SafeInv, DownInv,
       PublishInv, PendingInv, Persisted, PublishedInv, AckedPersisted,
       EffectiveLive
  <1>15. ASSUME NEW o \in orphans, LateCommit(o) \/ LateDrop(o) PROVE SafeInv'
    <2>1. CASE LateDrop(o)
      BY <2>1 DEF LateDrop, writerVars, SafeInv, DownInv, PublishInv, PendingInv,
         Persisted, PublishedInv, AckedPersisted, EffectiveLive
    <2>2. CASE LateCommit(o)
      <3>0. o.name \in Keys
        BY DEF TypeOK
      <3>1. DownInv' /\ PublishedInv' /\ EffectiveLive'
        BY <2>2 DEF LateCommit, writerVars, SafeInv, DownInv, PublishedInv,
           EffectiveLive
      <3>2. \A k \in Keys : acked'[k] = IF k = o.name THEN Unknown ELSE acked[k]
        BY <2>2, <3>0 DEF LateCommit, TypeOK
      <3>3. \A k \in Keys : k # o.name => store'[k] = store[k]
        BY <2>2 DEF LateCommit, TypeOK
      <3>4. Unknown \notin Rows /\ Unknown # Pending
        BY HistoryAssumption DEF Rows
      <3>5. AckedPersisted'
        BY <3>2, <3>3, <3>4 DEF SafeInv, AckedPersisted
      <3>6. PublishInv'
        BY <2>2, <3>2, <3>4 DEF LateCommit, writerVars, SafeInv, PublishInv
      <3>7. PendingInv'
        BY <2>2, <3>2, <3>3, <3>4
        DEF LateCommit, writerVars, SafeInv, PendingInv, Persisted, CallInv, Accepted
      <3>8. QED
        BY <3>1, <3>5, <3>6, <3>7 DEF SafeInv
    <2>3. QED
      BY <1>15, <2>1, <2>2
  <1>16. CASE Crash
    BY <1>16 DEF Crash, newOverlay, SafeInv, DownInv, PublishInv,
       PendingInv, Persisted, PublishedInv, AckedPersisted, EffectiveLive
  <1>17. CASE UNCHANGED vars
    BY <1>17 DEF vars, SafeInv, DownInv, PublishInv, PendingInv, Persisted,
       PublishedInv, AckedPersisted, EffectiveLive
  <1>18. QED
    BY <1>1, <1>2, <1>3, <1>4, <1>5, <1>6, <1>7, <1>8, <1>9, <1>10, <1>11,
       <1>12, <1>13, <1>14, <1>15, <1>16, <1>17
    DEF Next, LoadAtBoot, WriterStep, Apply, Clear, Rows

LEMMA Safe == Spec => [](TypeInv /\ SafeInv)
  BY TypeInit, TypeStep, SafeInit, SafeStep, PTL DEF Spec

\* A write acknowledged with nil is in the store, and stays there until a later
\* statement on the same key reaches it, whatever crashes.
THEOREM AcknowledgedWritesPersist == Spec => []AckedPersisted
  <1>1. SafeInv => AckedPersisted
    BY DEF SafeInv
  <1>2. QED
    BY <1>1, Safe, PTL

\* The live overlay holds what every caller was told: writers of different keys
\* never undo each other, a failed statement changes nothing that is live, and
\* a RestartRequired key keeps the value of the last boot.
THEOREM AcknowledgedWritesAreLive == Spec => []EffectiveLive
  <1>1. SafeInv => EffectiveLive
    BY DEF SafeInv
  <1>2. QED
    BY <1>1, Safe, PTL

-----------------------------------------------------------------------------
(* MergedView. *)

\* A running or finished MergedView has loaded a snapshot that was live during
\* the call, and the entries built so far show that snapshot.
ViewInv ==
    \A r \in Readers :
        seen[r] # {} \/ todo[r] # {} =>
            /\ cur[r] \in seen[r]
            /\ \A k \in Keys \ todo[r] : view[r][k] = KeyView(cur[r], k)

LEMMA ViewStep == TypeInv /\ ViewInv /\ [Next]_vars => ViewInv'
  <1> SUFFICES ASSUME TypeInv, ViewInv, [Next]_vars PROVE ViewInv'
    OBVIOUS
  <1>1. ASSUME NEW o, Publish(o), UNCHANGED <<cur, todo, view>> PROVE ViewInv'
    BY <1>1 DEF Publish, ViewInv, TypeInv, TypeOK
  <1>2. CASE UNCHANGED readerVars
    BY <1>2 DEF readerVars, ViewInv
  <1>3. ASSUME NEW r \in Readers, ViewLoad(r) PROVE ViewInv'
    BY <1>3 DEF ViewLoad, ViewInv, TypeInv, TypeOK
  <1>4. ASSUME NEW r \in Readers, NEW k \in Keys, ViewKey(r, k) PROVE ViewInv'
    BY <1>4 DEF ViewKey, ViewInv, TypeInv, TypeOK
  <1>5. CASE Crash
    BY <1>5 DEF Crash, ViewInv
  <1>6. CASE NewManager
    BY <1>2, <1>6 DEF NewManager, readerVars
  <1>7. CASE LoadAtBoot
    BY <1>1, <1>2, <1>7
    DEF LoadAtBoot, Lock, LoadAll, LoadAllFails, LoadPublish, LoadReturn, readerVars
  <1>8. ASSUME NEW w \in Writers, WriterStep(w) PROVE ViewInv'
    BY <1>1, <1>2, <1>8
    DEF WriterStep, Apply, Clear, Enter, Lock, Persist, PersistFails, Clone,
        WriterPublish, Return, Done, readerVars
  <1>9. ASSUME NEW o \in orphans, LateCommit(o) \/ LateDrop(o) PROVE ViewInv'
    BY <1>2, <1>9 DEF LateCommit, LateDrop
  <1>10. CASE UNCHANGED vars
    BY <1>2, <1>10 DEF vars, readerVars
  <1>11. QED
    BY <1>3, <1>4, <1>5, <1>6, <1>7, <1>8, <1>9, <1>10 DEF Next, MergedView

\* MergedView is a consistent snapshot of the overlay although it takes no lock.
THEOREM ViewsAreSnapshots == Spec => []ViewIsSnapshot
  <1>1. Init => ViewInv
    BY DEF Init, ViewInv
  <1>2. TypeInv /\ ViewInv => ViewIsSnapshot
    BY DEF ViewInv, ViewIsSnapshot, TypeInv, TypeOK
  <1>3. Spec => [](TypeInv /\ ViewInv)
    BY <1>1, TypeInit, TypeStep, ViewStep, PTL DEF Spec
  <1>4. QED
    BY <1>2, <1>3, PTL

-----------------------------------------------------------------------------
(* Hot swaps. *)

LEMMA SwapStep ==
    ASSUME TypeInv, SafeInv, [Next]_vars, NEW k \in Keys, overlay'[k] # overlay[k]
    PROVE  \/ pc'[Boot] = "down"
           \/ pc[Boot] = "publish"
           \/ /\ k \in Mutable \ RestartRequired
              /\ \E w \in Writers : pc[w] = "publish" /\ call[w].name = k
  <1>1. CASE overlay' = overlay
    BY <1>1
  <1>2. CASE NewManager
    BY <1>2 DEF NewManager, SafeInv, DownInv
  <1>3. CASE Crash
    BY <1>3, ProcessAssumption DEF Crash, Procs
  <1>4. CASE LoadPublish
    BY <1>4 DEF LoadPublish
  <1>5. ASSUME NEW w \in Writers, WriterPublish(w)
        PROVE  /\ k \in Mutable \ RestartRequired
               /\ pc[w] = "publish" /\ call[w].name = k
    <2>1. /\ call[w].name \in Mutable \ RestartRequired
          /\ overlay' = Edited(overlay, call[w])
      BY <1>5 DEF WriterPublish, Publish, TypeInv, CallInv, Accepted, SafeInv,
         PublishInv
    <2>2. call[w].name = k
      BY <2>1, EditedType, NamesAssumption DEF TypeInv, TypeOK
    <2>3. QED
      BY <1>5, <2>1, <2>2 DEF WriterPublish
  <1>6. QED
    BY <1>1, <1>2, <1>3, <1>4, <1>5
    DEF Next, LoadAtBoot, WriterStep, Apply, Clear, Enter, Lock, LoadAll,
        LoadAllFails, LoadReturn, Persist, PersistFails, Clone, Return, Done,
        MergedView, ViewLoad, ViewKey, LateCommit, LateDrop, vars

\* Outside a boot only the running write of a mutable, hot key moves that key's
\* live override.
THEOREM SwapsAreConfined == Spec => HotSwapOnly
  <1>1. TypeInv /\ SafeInv /\ [Next]_vars =>
          [\A k \in Keys :
              overlay'[k] # overlay[k] =>
                  \/ pc'[Boot] = "down"
                  \/ pc[Boot] = "publish"
                  \/ /\ k \in Mutable \ RestartRequired
                     /\ \E w \in Writers : pc[w] = "publish" /\ call[w].name = k]_vars
    BY SwapStep
  <1>2. QED
    BY <1>1, Safe, PTL DEF Spec, HotSwapOnly

-----------------------------------------------------------------------------
(* The refinement. *)

\* A statement that is still on its way was accepted when it was issued.
OrphanInv == \A o \in orphans : Durable /\ Refusal(o.name, o.row) = "none"

LEMMA OrphanStep == TypeInv /\ OrphanInv /\ [Next]_vars => OrphanInv'
  <1> SUFFICES ASSUME TypeInv, OrphanInv, [Next]_vars PROVE OrphanInv'
    OBVIOUS
  <1>1. CASE orphans' \subseteq orphans
    BY <1>1 DEF OrphanInv
  <1>2. ASSUME NEW w \in Writers, PersistFails(w) PROVE OrphanInv'
    <2>1. Refusal(call[w].name, call[w].row) = "none"
      BY <1>2 DEF PersistFails, TypeInv, CallInv, Accepted
    <2>2. QED
      BY <1>2, <2>1 DEF PersistFails, OrphanInv
  <1>3. QED
    BY <1>1, <1>2
    DEF Next, NewManager, LoadAtBoot, WriterStep, Apply, Clear, Enter, Lock,
        LoadAll, LoadAllFails, LoadPublish, LoadReturn, Persist, Clone,
        WriterPublish, Return, Done, MergedView, ViewLoad, ViewKey, LateCommit,
        LateDrop, Crash, vars

\* The table as ConfigContract sees it, and the entry one writer owes.
TableRows == [k \in Keys |-> store[k]]
Owed(c) == [k \in {c.name} |-> LiveOf(k, c.row)]
Nothing == [k \in {} |-> None]

\* Who owes what, by the state of the goroutines.
LEMMA DueOf ==
    ASSUME TypeInv
    PROVE  /\ \A w \in Writers : pc[w] \in {"clone", "publish"} => Due = Owed(call[w])
           /\ pc[Boot] = "publish" => Due = next[Boot]
           /\ pc[Boot] # "publish"
              /\ (\A w \in Writers : pc[w] \notin {"clone", "publish"}) => Due = Nothing
  <1> USE ProcessAssumption DEF TypeInv, MutexInv, Procs, Critical
  <1>1. \A w \in Writers : pc[w] \in {"clone", "publish"} => Due = Owed(call[w])
    BY DEF Due, Owed
  <1>2. pc[Boot] = "publish" => Due = next[Boot]
    BY DEF Due
  <1>3. pc[Boot] # "publish" /\ (\A w \in Writers : pc[w] \notin {"clone", "publish"})
          => Due = Nothing
    BY DEF Due, Nothing
  <1>4. QED
    BY <1>1, <1>2, <1>3

LEMMA DueOfNext ==
    ASSUME TypeInv'
    PROVE  /\ \A w \in Writers :
                 pc'[w] \in {"clone", "publish"} => Due' = [k \in {call'[w].name} |->
                                                        LiveOf(k, call'[w].row)]
           /\ pc'[Boot] = "publish" => Due' = next'[Boot]
           /\ pc'[Boot] # "publish"
              /\ (\A w \in Writers : pc'[w] \notin {"clone", "publish"}) => Due' = Nothing
  <1> USE ProcessAssumption DEF TypeInv, MutexInv, Procs, Critical
  <1>1. \A w \in Writers :
          pc'[w] \in {"clone", "publish"} => Due' = [k \in {call'[w].name} |->
                                                 LiveOf(k, call'[w].row)]
    BY DEF Due
  <1>2. pc'[Boot] = "publish" => Due' = next'[Boot]
    BY DEF Due
  <1>3. pc'[Boot] # "publish" /\ (\A w \in Writers : pc'[w] \notin {"clone", "publish"})
          => Due' = Nothing
    BY DEF Due, Nothing
  <1>4. QED
    BY <1>1, <1>2, <1>3

\* Nobody starts or stops owing anything.
LEMMA DueKept ==
    ASSUME TypeInv, TypeInv',
           \A w \in Writers : pc'[w] \in {"clone", "publish"} <=> pc[w] \in {"clone", "publish"},
           \A w \in Writers : pc[w] \in {"clone", "publish"} => call'[w] = call[w],
           pc'[Boot] = "publish" <=> pc[Boot] = "publish",
           pc[Boot] = "publish" => next'[Boot] = next[Boot]
    PROVE  Due' = Due
  <1>1. ASSUME NEW w \in Writers, pc[w] \in {"clone", "publish"} PROVE Due' = Due
    <2>1. Due = Owed(call[w])
      BY <1>1, DueOf
    <2>2. Due' = [k \in {call'[w].name} |-> LiveOf(k, call'[w].row)]
      BY <1>1, DueOfNext
    <2>3. QED
      BY <1>1, <2>1, <2>2 DEF Owed
  <1>2. CASE pc[Boot] = "publish"
    BY <1>2, DueOf, DueOfNext
  <1>3. CASE pc[Boot] # "publish" /\ \A w \in Writers : pc[w] \notin {"clone", "publish"}
    BY <1>3, DueOf, DueOfNext
  <1>4. QED
    BY <1>1, <1>2, <1>3

LEMMA RefineInit == Init => Contract!Init
  <1> SUFFICES ASSUME Init PROVE Contract!Init
    OBVIOUS
  <1>1. Due = [k \in {} |-> None]
    BY ProcessAssumption DEF Init, Due
  <1>2. TableRows \in [Keys -> IF Durable THEN Rows ELSE {None}]
    BY NamesAssumption DEF Init, TableRows
  <1>3. QED
    BY <1>1, <1>2 DEF Init, Contract!Init, Contract!Rows, Rows, TableRows,
       Contract!newOverlay, newOverlay, Contract!Nothing

ContractStep == [Contract!Next]_(Contract!contractVars)

\* A write of one row is a step of the contract.
LEMMA CommitOrStray ==
    ASSUME NEW k \in Keys, NEW row \in Contract!Rows,
           Contract!Commit(k, row) \/ Contract!Stray(k, row)
    PROVE  ContractStep
  BY Zenon DEF ContractStep, Contract!Next

LEMMA RefineStep ==
    ASSUME TypeInv, TypeInv', SafeInv, OrphanInv, [Next]_vars
    PROVE  ContractStep
  <1> USE NamesAssumption, ProcessAssumption
  <1> DEFINE Stutter == TableRows' = TableRows /\ overlay' = overlay /\ Due' = Due
  <1>0. ASSUME Stutter PROVE ContractStep
    BY <1>0 DEF ContractStep, Contract!contractVars, TableRows
  <1>1. CASE NewManager
    <2>1. Due' = Due
      BY <1>1, DueKept DEF NewManager, GoTo, TypeInv, TypeOK, Procs
    <2>2. QED
      BY <1>0, <1>1, <2>1 DEF NewManager, SafeInv, DownInv, TableRows
  <1>2. ASSUME NEW p \in Procs, Lock(p) PROVE ContractStep
    <2>1. Due' = Due
      BY <1>2, DueKept DEF Lock, GoTo, TypeInv, TypeOK, Procs
    <2>2. QED
      BY <1>0, <1>2, <2>1 DEF Lock, TableRows
  <1>3. CASE LoadAll
    <2>1. \A w \in Writers : pc[w] \notin Critical
      BY <1>3 DEF LoadAll, TypeInv, MutexInv, Critical, Procs
    <2>2. Due = Nothing /\ Due' = LoadedOverlay(store)
      BY <1>3, <2>1, DueOf, DueOfNext
      DEF LoadAll, GoTo, TypeInv, TypeOK, Procs, Critical
    <2>3. LoadedOverlay(store) = Contract!LoadedOverlay(TableRows)
      BY DEF LoadedOverlay, Contract!LoadedOverlay, TableRows, LiveOf, Contract!LiveOf
    <2>4. Contract!Load
      BY <1>3, <2>2, <2>3
      DEF LoadAll, Contract!Load, Contract!Nothing, Nothing, TableRows
    <2>5. QED
      BY <2>4 DEF ContractStep, Contract!Next
  <1>4. CASE LoadAllFails
    <2>1. Due' = Due
      BY <1>4, DueKept DEF LoadAllFails, GoTo, TypeInv, TypeOK, Procs
    <2>2. QED
      BY <1>0, <1>4, <2>1 DEF LoadAllFails, TableRows
  <1>5. CASE LoadPublish
    <2>1. \A w \in Writers : pc[w] \notin Critical
      BY <1>5 DEF LoadPublish, TypeInv, MutexInv, Critical, Procs
    <2>2. Due = next[Boot] /\ Due' = Nothing /\ overlay' = next[Boot]
      BY <1>5, <2>1, DueOf, DueOfNext
      DEF LoadPublish, Publish, GoTo, TypeInv, TypeOK, Procs, Critical
    <2>3. next[Boot] \in Overlays /\ overlay \in Overlays
      BY DEF TypeInv, TypeOK, Procs
    <2>4. CASE Due = Nothing
      <3>1. overlay' = overlay
        BY <2>2, <2>3, <2>4 DEF Overlays, Nothing
      <3>2. QED
        BY <1>0, <1>5, <2>2, <2>4, <3>1 DEF LoadPublish, TableRows
    <2>5. CASE Due # Nothing
      <3>1. overlay' = [k \in Keys |-> IF k \in DOMAIN Due THEN Due[k] ELSE overlay[k]]
        BY <2>2, <2>3 DEF Overlays
      <3>2. Contract!PublishDue
        BY <1>5, <2>2, <2>5, <3>1
        DEF LoadPublish, Contract!PublishDue, Contract!Nothing, Nothing
      <3>3. QED
        BY <3>2 DEF ContractStep, Contract!Next
    <2>6. QED
      BY <2>4, <2>5
  <1>6. CASE LoadReturn
    <2>1. Due' = Due
      BY <1>6, DueKept DEF LoadReturn, GoTo, TypeInv, TypeOK, Procs
    <2>2. QED
      BY <1>0, <1>6, <2>1 DEF LoadReturn, TableRows
  <1>7. ASSUME NEW w \in Writers, NEW name \in Names, NEW row \in Rows,
              Enter(w, name, row)
       PROVE  ContractStep
    <2>1. Due' = Due
      BY <1>7, DueKept DEF Enter, GoTo, TypeInv, TypeOK, Procs
    <2>2. QED
      BY <1>0, <1>7, <2>1 DEF Enter, TableRows
  <1>8. ASSUME NEW w \in Writers, Persist(w)
       PROVE  ContractStep
    <2>0. PICK k \in Keys, row \in Rows :
            /\ k = call[w].name /\ row = call[w].row
            /\ Refusal(k, row) = "none" /\ pc[w] \in Critical
      BY <1>8 DEF Persist, TypeInv, TypeOK, CallInv, Accepted, Critical
    <2>1. \A p \in Procs : p # w => pc[p] \notin Critical
      BY <2>0 DEF TypeInv, MutexInv, Procs
    <2>2. Due = Nothing
      BY <1>8, <2>1, DueOf DEF Persist, Critical, Procs
    <2>3. TableRows' = [TableRows EXCEPT ![k] = row] /\ overlay' = overlay
      BY <1>8, <2>0 DEF Persist, TableRows, TypeInv, TypeOK
    <2>4. Due' = IF k \in RestartRequired THEN Nothing ELSE Owed(call[w])
      <3>0. /\ call' = call
            /\ \A p \in Procs : p # w => pc'[p] \notin {"clone", "publish"}
            /\ pc'[w] = IF k \in RestartRequired THEN "unlock" ELSE "clone"
        BY <1>8, <2>0, <2>1 DEF Persist, GoTo, TypeInv, TypeOK, Procs, Critical
      <3>1. CASE k \in RestartRequired
        BY <3>0, <3>1, DueOfNext DEF Procs
      <3>2. CASE k \notin RestartRequired
        BY <2>0, <3>0, <3>2, DueOfNext DEF Owed
      <3>3. QED
        BY <3>1, <3>2
    <2>5. Contract!Writable(k, row) /\ row \in Contract!Rows
      BY <2>0 DEF Contract!Writable, Contract!Refusal, Refusal, Contract!Rows, Rows
    <2>6. Owed(call[w]) = [x \in {k} |-> Contract!LiveOf(x, row)]
      BY <2>0 DEF Owed, Contract!LiveOf, LiveOf
    <2>7. Contract!Commit(k, row)
      BY <2>2, <2>3, <2>4, <2>5, <2>6
      DEF Contract!Commit, Contract!Nothing, Nothing, TableRows
    <2>8. QED
      BY <2>5, <2>7, CommitOrStray
  <1>9. ASSUME NEW w \in Writers, PersistFails(w)
       PROVE  ContractStep
    <2>0. PICK k \in Keys, row \in Rows :
            k = call[w].name /\ row = call[w].row /\ Refusal(k, row) = "none"
      BY <1>9 DEF PersistFails, TypeInv, TypeOK, CallInv, Accepted
    <2>1. Due' = Due
      BY <1>9, DueKept DEF PersistFails, GoTo, TypeInv, TypeOK, Procs
    <2>2. CASE store' = store
      BY <1>0, <1>9, <2>1, <2>2 DEF PersistFails, TableRows
    <2>3. CASE store' = [store EXCEPT ![k] = row]
      <3>1. TableRows' = [TableRows EXCEPT ![k] = row] /\ overlay' = overlay
        BY <1>9, <2>0, <2>3 DEF PersistFails, TableRows, TypeInv, TypeOK
      <3>2. Contract!Writable(k, row) /\ row \in Contract!Rows
        BY <2>0 DEF Contract!Writable, Contract!Refusal, Refusal, Contract!Rows, Rows
      <3>3. Contract!Stray(k, row)
        BY <1>9, <2>1, <3>1, <3>2 DEF PersistFails, Contract!Stray, TableRows
      <3>4. QED
        BY <3>2, <3>3, CommitOrStray
    <2>4. QED
      BY <1>9, <2>0, <2>2, <2>3 DEF PersistFails
  <1>10. ASSUME NEW w \in Writers, Clone(w)
       PROVE  ContractStep
    <2>1. Due' = Due
      BY <1>10, DueKept DEF Clone, GoTo, TypeInv, TypeOK, Procs
    <2>2. QED
      BY <1>0, <1>10, <2>1 DEF Clone, TableRows
  <1>11. ASSUME NEW w \in Writers, WriterPublish(w)
       PROVE  ContractStep
    <2> DEFINE k == call[w].name
    <2>0. /\ k \in Keys /\ pc[w] \in Critical
          /\ overlay' = Edited(overlay, call[w])
      BY <1>11 DEF WriterPublish, Publish, TypeInv, CallInv, Accepted, Critical,
         SafeInv, PublishInv
    <2>1. \A p \in Procs : p # w => pc[p] \notin Critical
      BY <2>0 DEF TypeInv, MutexInv, Procs
    <2>2. Due = Owed(call[w])
      BY <1>11, DueOf DEF WriterPublish
    <2>3. Due' = Nothing
      BY <1>11, <2>1, DueOfNext
      DEF WriterPublish, GoTo, TypeInv, TypeOK, Procs, Critical
    <2>4. Due # Nothing
      <3>1. DOMAIN Due = {k} /\ DOMAIN Nothing = {}
        BY <2>2 DEF Owed, Nothing
      <3>2. QED
        BY <3>1
    <2>5. /\ overlay' \in Overlays
          /\ overlay'[k] = LiveOf(k, call[w].row)
          /\ \A x \in Keys \ {k} : overlay'[x] = overlay[x]
      BY <2>0, EditedType DEF TypeInv, TypeOK
    <2>6. overlay' = [x \in Keys |-> IF x \in DOMAIN Due THEN Due[x] ELSE overlay[x]]
      BY <2>2, <2>5 DEF Owed, Overlays
    <2>7. Contract!PublishDue
      BY <1>11, <2>3, <2>4, <2>6
      DEF WriterPublish, Contract!PublishDue, Contract!Nothing, Nothing
    <2>8. QED
      BY <2>7 DEF ContractStep, Contract!Next
  <1>12. ASSUME NEW w \in Writers, Return(w) \/ Done(w)
       PROVE  ContractStep
    <2>1. Due' = Due
      BY <1>12, DueKept DEF Return, Done, GoTo, TypeInv, TypeOK, Procs
    <2>2. QED
      BY <1>0, <1>12, <2>1 DEF Return, Done, TableRows
  <1>13. ASSUME NEW r \in Readers, MergedView(r)
       PROVE  ContractStep
    <2>1. Due' = Due
      BY <1>13, DueKept DEF MergedView, ViewLoad, ViewKey, writerVars
    <2>2. QED
      BY <1>0, <1>13, <2>1 DEF MergedView, ViewLoad, ViewKey, TableRows
  <1>14. ASSUME NEW o \in orphans, LateCommit(o)
       PROVE  ContractStep
    <2>0. o.name \in Keys /\ o.row \in Rows /\ Durable
      BY DEF TypeInv, TypeOK, OrphanInv
    <2>1. Due' = Due
      BY <1>14, DueKept DEF LateCommit, writerVars
    <2>2. TableRows' = [TableRows EXCEPT ![o.name] = o.row] /\ overlay' = overlay
      BY <1>14, <2>0 DEF LateCommit, TableRows, TypeInv, TypeOK
    <2>3. Contract!Writable(o.name, o.row) /\ o.row \in Contract!Rows
      BY <2>0 DEF OrphanInv, Contract!Writable, Contract!Refusal, Refusal,
         Contract!Rows, Rows
    <2>4. Contract!Stray(o.name, o.row)
      BY <2>0, <2>1, <2>2, <2>3 DEF Contract!Stray, TableRows
    <2>5. QED
      BY <2>0, <2>3, <2>4, CommitOrStray
  <1>15. ASSUME NEW o \in orphans, LateDrop(o)
       PROVE  ContractStep
    <2>1. Due' = Due
      BY <1>15, DueKept DEF LateDrop, writerVars
    <2>2. QED
      BY <1>0, <1>15, <2>1 DEF LateDrop, TableRows
  <1>16. CASE Crash
    <2>1. Due' = Nothing
      BY <1>16, DueOfNext DEF Crash, Procs
    <2>2. TableRows' = IF Durable THEN TableRows ELSE newOverlay
      BY <1>16 DEF Crash, TableRows, newOverlay
    <2>3. Contract!Restart
      BY <1>16, <2>1, <2>2 DEF Crash, Contract!Restart, Contract!newOverlay,
         newOverlay, Contract!Nothing, Nothing, TableRows
    <2>4. QED
      BY <2>3 DEF ContractStep, Contract!Next
  <1>17. CASE UNCHANGED vars
    <2>1. Due' = Due
      BY <1>17, DueKept DEF vars
    <2>2. QED
      BY <1>0, <1>17, <2>1 DEF vars, TableRows
  <1>18. QED
    <2>1. CASE LoadAtBoot
      BY <1>2, <1>3, <1>4, <1>5, <1>6, <2>1 DEF LoadAtBoot, Procs
    <2>2. ASSUME NEW w \in Writers, WriterStep(w) PROVE ContractStep
      BY <1>2, <1>7, <1>8, <1>9, <1>10, <1>11, <1>12, <2>2
      DEF WriterStep, Apply, Clear, Rows, Procs
    <2>3. QED
      BY <1>1, <1>13, <1>14, <1>15, <1>16, <1>17, <2>1, <2>2 DEF Next

\* The concurrent Manager implements the contract: every step of a goroutine is
\* a step of ConfigContract or changes nothing of it.
THEOREM ManagerImplementsContract == Spec => ImplementsContract
  <1>1. Init => OrphanInv
    BY DEF Init, OrphanInv
  <1>2. Spec => [](TypeInv /\ SafeInv /\ OrphanInv)
    BY <1>1, TypeInit, TypeStep, SafeInit, SafeStep, OrphanStep, PTL DEF Spec
  <1>3. TypeInv /\ TypeInv' /\ SafeInv /\ OrphanInv /\ [Next]_vars
          => [Contract!Next]_(Contract!contractVars)
    BY RefineStep DEF ContractStep
  <1>4. QED
    BY <1>2, <1>3, RefineInit, PTL DEF Spec, ImplementsContract, Contract!Spec
=============================================================================
