--------------------------- MODULE FlagSetProofs ---------------------------
(***************************************************************************)
(* Proofs about FlagSet, for every set of declared flags, every table the  *)
(* process may boot from and every number of goroutines that toggle: the   *)
(* flags are as their callers were told, and FlagSet implements            *)
(* FlagContract.                                                           *)
(***************************************************************************)
EXTENDS FlagSet, TLAPS

(* The inductive invariant, one named part per argument. *)

TogglerPcs == {"idle", "lock", "persist", "copy", "publish", "unlock"}
BootPcs == {"down", "lock", "load", "publish", "unlock", "up"}
Critical == {"load", "persist", "copy", "publish", "unlock"}
Stored == {"copy", "publish", "unlock"}

\* A goroutine is between Lock and the deferred Unlock iff it holds writeMu, and a
\* toggler that runs has a declared flag as its argument.
MutexInv ==
    /\ \A g \in Togglers : pc[g] \in TogglerPcs
    /\ pc[Boot] \in BootPcs
    /\ \A p \in Procs : pc[p] \in Critical <=> writeMu = p
    /\ \A g \in Togglers : pc[g] # "idle" => arg[g].flag \in Known

TypeInv == TypeOK /\ MutexInv

\* Before NewFlagSet nothing runs and the defaults are live.
DownInv ==
    pc[Boot] = "down" => flags = FlagDefault /\ \A g \in Togglers : pc[g] = "idle"

\* What a row that somebody knows about means for the live flag.
Meaning(f, row) == IF Decodes(row) THEN row = "true" ELSE FlagDefault[f]

\* The snapshot LoadAtBoot is about to publish shows every row that is known: a
\* statement that commits between the read and the publish makes its row unknown.
LoadInv ==
    pc[Boot] = "publish" =>
        \A f \in Known : told[f].row \in FlagRows => next[Boot][f] = Meaning(f, told[f].row)

\* The snapshot Set is about to publish differs from the live one in its flag only:
\* nobody else publishes between the copy and the publish.
CopyInv ==
    \A g \in Togglers :
        /\ pc[g] = "publish" => next[g] = [flags EXCEPT ![arg[g].flag] = arg[g].value]
        /\ pc[g] = "unlock" => flags[arg[g].flag] = arg[g].value

\* Only the row of the running Set that has persisted is pending, and it has the
\* value of that Set unless a late statement overtook it.
PendingInv ==
    /\ \A g \in Togglers : pc[g] \in Stored =>
          \/ told[arg[g].flag].row = "unknown"
          \/ /\ told[arg[g].flag].row = "pending"
             /\ table[arg[g].flag] = Marshal(arg[g].value)
    /\ \A f \in Known : told[f].row = "pending" =>
          \E g \in Togglers : pc[g] \in Stored /\ arg[g].flag = f

SafeInv == DownInv /\ LoadInv /\ CopyInv /\ PendingInv /\ FlagsAsTold

-----------------------------------------------------------------------------
(* Facts about the pure operators. *)

LEMMA MarshalType == \A b : Marshal(b) \in FlagRows /\ Marshal(b) \in {"true", "false"}
  BY DEF Marshal, FlagRows

LEMMA MeaningType ==
    ASSUME NEW f \in Known, NEW row
    PROVE  Meaning(f, row) \in BOOLEAN
  BY FlagAssumption DEF Meaning

LEMMA LoadedFlagsType ==
    ASSUME NEW t
    PROVE  /\ LoadedFlags(t) \in [Known -> BOOLEAN]
           /\ \A f \in Known : LoadedFlags(t)[f] = Meaning(f, t[f])
  BY MeaningType DEF LoadedFlags, Meaning

-----------------------------------------------------------------------------
(* Types. *)

LEMMA TypeInit == Init => TypeInv
  <1> SUFFICES ASSUME Init PROVE TypeInv
    OBVIOUS
  <1>1. TypeOK
    BY FlagAssumption, TogglerAssumption, MarshalType
    DEF Init, TypeOK, Procs, NoArg
  <1>2. MutexInv
    BY TogglerAssumption DEF Init, MutexInv, Procs, TogglerPcs, BootPcs, Critical
  <1>3. QED
    BY <1>1, <1>2 DEF TypeInv

LEMMA TypeStep == TypeInv /\ [Next]_vars => TypeInv'
  <1> SUFFICES ASSUME TypeInv, [Next]_vars PROVE TypeInv'
    OBVIOUS
  <1> USE FlagAssumption, TogglerAssumption DEF TypeInv, Procs
  <1>1. CASE NewFlagSet
    <2>1. TypeOK'
      BY <1>1 DEF NewFlagSet, GoTo, TypeOK
    <2>2. MutexInv'
      BY <1>1 DEF NewFlagSet, GoTo, TypeOK, MutexInv, BootPcs, TogglerPcs, Critical
    <2>3. QED
      BY <2>1, <2>2
  <1>2. ASSUME NEW p \in Procs, Lock(p) PROVE TypeInv'
    <2>1. TypeOK'
      BY <1>2 DEF Lock, GoTo, TypeOK
    <2>2. MutexInv'
      BY <1>2 DEF Lock, GoTo, TypeOK, MutexInv, BootPcs, TogglerPcs, Critical
    <2>3. QED
      BY <2>1, <2>2
  <1>3. CASE LoadFails
    <2>1. TypeOK'
      BY <1>3 DEF LoadFails, GoTo, TypeOK
    <2>2. MutexInv'
      BY <1>3 DEF LoadFails, GoTo, TypeOK, MutexInv, BootPcs, TogglerPcs, Critical
    <2>3. QED
      BY <2>1, <2>2
  <1>4. CASE Load
    <2>1. TypeOK'
      BY <1>4, LoadedFlagsType DEF Load, GoTo, TypeOK
    <2>2. MutexInv'
      BY <1>4 DEF Load, GoTo, TypeOK, MutexInv, BootPcs, TogglerPcs, Critical
    <2>3. QED
      BY <2>1, <2>2
  <1>5. CASE LoadPublish
    <2>1. TypeOK'
      <3>1. told' \in [Known -> [live : {"true", "false", "unknown"},
                                 row : FlagRows \cup {"unknown", "pending"}]]
        BY <1>5, MarshalType DEF LoadPublish, TypeOK
      <3>2. QED
        BY <1>5, <3>1 DEF LoadPublish, GoTo, TypeOK
    <2>2. MutexInv'
      BY <1>5 DEF LoadPublish, GoTo, TypeOK, MutexInv, BootPcs, TogglerPcs, Critical
    <2>3. QED
      BY <2>1, <2>2
  <1>6. CASE LoadReturn
    <2>1. TypeOK'
      BY <1>6 DEF LoadReturn, GoTo, TypeOK
    <2>2. MutexInv'
      BY <1>6 DEF LoadReturn, GoTo, TypeOK, MutexInv, BootPcs, TogglerPcs, Critical
    <2>3. QED
      BY <2>1, <2>2
  <1>7. ASSUME NEW g \in Togglers, NEW f \in FlagNames, NEW v \in BOOLEAN, Set(g, f, v)
       PROVE  TypeInv'
    <2>1. TypeOK'
      BY <1>7 DEF Set, GoTo, TypeOK
    <2>2. MutexInv'
      BY <1>7 DEF Set, GoTo, TypeOK, MutexInv, BootPcs, TogglerPcs, Critical
    <2>3. QED
      BY <2>1, <2>2
  <1>8. ASSUME NEW g \in Togglers, Persist(g) PROVE TypeInv'
    <2>0. arg[g].flag \in Known
      BY <1>8 DEF Persist, MutexInv
    <2>1. TypeOK'
      BY <1>8, <2>0, MarshalType DEF Persist, GoTo, TypeOK
    <2>2. MutexInv'
      BY <1>8 DEF Persist, GoTo, TypeOK, MutexInv, BootPcs, TogglerPcs, Critical
    <2>3. QED
      BY <2>1, <2>2
  <1>9. ASSUME NEW g \in Togglers, PersistFails(g) PROVE TypeInv'
    <2>0. arg[g] \in [flag : Known, value : BOOLEAN]
      BY <1>9 DEF PersistFails, MutexInv, TypeOK
    <2>1. TypeOK'
      <3>1. table' \in [FlagNames -> FlagRows]
        BY <1>9, <2>0, MarshalType DEF PersistFails, TypeOK
      <3>2. late' \subseteq [flag : Known, value : BOOLEAN]
        BY <1>9, <2>0 DEF PersistFails, TypeOK
      <3>3. arg' \in [Togglers -> [flag : Known \cup {None}, value : BOOLEAN]]
        BY <1>9 DEF PersistFails, TypeOK, NoArg
      <3>4. told' \in [Known -> [live : {"true", "false", "unknown"},
                                 row : FlagRows \cup {"unknown", "pending"}]]
        BY <1>9, <2>0 DEF PersistFails, TypeOK
      <3>5. QED
        BY <1>9, <3>1, <3>2, <3>3, <3>4 DEF PersistFails, GoTo, TypeOK
    <2>2. MutexInv'
      BY <1>9 DEF PersistFails, GoTo, TypeOK, MutexInv, BootPcs, TogglerPcs, Critical
    <2>3. QED
      BY <2>1, <2>2
  <1>10. ASSUME NEW g \in Togglers, Copy(g) PROVE TypeInv'
    <2>0. arg[g] \in [flag : Known, value : BOOLEAN]
      BY <1>10 DEF Copy, MutexInv, TypeOK
    <2>1. TypeOK'
      BY <1>10, <2>0 DEF Copy, GoTo, TypeOK
    <2>2. MutexInv'
      BY <1>10 DEF Copy, GoTo, TypeOK, MutexInv, BootPcs, TogglerPcs, Critical
    <2>3. QED
      BY <2>1, <2>2
  <1>11. ASSUME NEW g \in Togglers, Publish(g) PROVE TypeInv'
    <2>1. TypeOK'
      BY <1>11 DEF Publish, GoTo, TypeOK
    <2>2. MutexInv'
      BY <1>11 DEF Publish, GoTo, TypeOK, MutexInv, BootPcs, TogglerPcs, Critical
    <2>3. QED
      BY <2>1, <2>2
  <1>12. ASSUME NEW g \in Togglers, Return(g) PROVE TypeInv'
    <2>0. arg[g].flag \in Known
      BY <1>12 DEF Return, MutexInv
    <2>1. TypeOK'
      <3>1. told' \in [Known -> [live : {"true", "false", "unknown"},
                                 row : FlagRows \cup {"unknown", "pending"}]]
        BY <1>12, <2>0, MarshalType DEF Return, TypeOK
      <3>2. QED
        BY <1>12, <3>1 DEF Return, GoTo, TypeOK, NoArg
    <2>2. MutexInv'
      BY <1>12 DEF Return, GoTo, TypeOK, MutexInv, BootPcs, TogglerPcs, Critical
    <2>3. QED
      BY <2>1, <2>2
  <1>13. ASSUME NEW o \in late, LateCommit(o) \/ LateDrop(o) PROVE TypeInv'
    <2>1. TypeOK'
      BY <1>13, MarshalType DEF LateCommit, LateDrop, TypeOK
    <2>2. MutexInv'
      BY <1>13 DEF LateCommit, LateDrop, MutexInv
    <2>3. QED
      BY <2>1, <2>2
  <1>14. CASE Crash
    <2>1. TypeOK'
      BY <1>14, MarshalType DEF Crash, TypeOK, NoArg
    <2>2. MutexInv'
      BY <1>14 DEF Crash, MutexInv, BootPcs, TogglerPcs, Critical
    <2>3. QED
      BY <2>1, <2>2
  <1>15. CASE UNCHANGED vars
    BY <1>15 DEF vars, TypeOK, MutexInv
  <1>16. QED
    BY <1>1, <1>2, <1>3, <1>4, <1>5, <1>6, <1>7, <1>8, <1>9, <1>10, <1>11, <1>12,
       <1>13, <1>14, <1>15 DEF Next, LoadAtBoot, Toggle

\* Every behaviour is well typed, and writeMu excludes: at most one goroutine is
\* between Lock and Unlock of Set or LoadAtBoot.
THEOREM FlagSetTypes == Spec => []TypeInv
  BY TypeInit, TypeStep, PTL DEF Spec

-----------------------------------------------------------------------------
(* The flags are as told. *)

LEMMA SafeInit == Init => SafeInv
  <1> SUFFICES ASSUME Init PROVE SafeInv
    OBVIOUS
  <1> USE FlagAssumption, TogglerAssumption DEF Procs
  <1>1. DownInv
    BY DEF Init, DownInv
  <1>2. LoadInv /\ CopyInv
    BY DEF Init, LoadInv, CopyInv
  <1>3. \A f \in Known : told[f].row = table[f] /\ told[f].live = Marshal(flags[f])
    BY DEF Init
  <1>4. \A f \in Known : table[f] \in FlagRows
    BY DEF Init
  <1>5. PendingInv
    BY <1>3, <1>4 DEF Init, PendingInv, Stored, FlagRows
  <1>6. FlagsAsTold
    BY <1>3 DEF FlagsAsTold
  <1>7. QED
    BY <1>1, <1>2, <1>5, <1>6 DEF SafeInv

\* A step that touches neither the table, the live flags nor what callers know.
LEMMA FlagsAsToldKept ==
    ASSUME FlagsAsTold, UNCHANGED <<table, flags, told>>
    PROVE  FlagsAsTold'
  BY DEF FlagsAsTold

LEMMA SafeStep == TypeInv /\ TypeInv' /\ SafeInv /\ [Next]_vars => SafeInv'
  <1> SUFFICES ASSUME TypeInv, TypeInv', SafeInv, [Next]_vars PROVE SafeInv'
    OBVIOUS
  <1> USE FlagAssumption, TogglerAssumption DEF TypeInv, SafeInv, Procs
  <1>1. CASE NewFlagSet
    <2>1. DownInv'
      BY <1>1 DEF NewFlagSet, GoTo, TypeOK, MutexInv, Critical, DownInv
    <2>2. LoadInv'
      BY <1>1 DEF NewFlagSet, GoTo, TypeOK, MutexInv, Critical, LoadInv
    <2>3. CopyInv'
      BY <1>1 DEF NewFlagSet, GoTo, DownInv, TypeOK, MutexInv, Critical, CopyInv
    <2>4. PendingInv'
      BY <1>1 DEF NewFlagSet, GoTo, TypeOK, MutexInv, Critical, PendingInv, Stored
    <2>5. FlagsAsTold'
      BY <1>1 DEF NewFlagSet, DownInv, FlagsAsTold
    <2>6. QED
      BY <2>1, <2>2, <2>3, <2>4, <2>5
  <1>2. ASSUME NEW p \in Procs, Lock(p) PROVE SafeInv'
    <2>1. DownInv'
      BY <1>2 DEF Lock, GoTo, TypeOK, MutexInv, Critical, DownInv
    <2>2. LoadInv'
      BY <1>2 DEF Lock, GoTo, TypeOK, MutexInv, Critical, LoadInv
    <2>3. CopyInv'
      BY <1>2 DEF Lock, GoTo, TypeOK, MutexInv, Critical, CopyInv
    <2>4. PendingInv'
      BY <1>2 DEF Lock, GoTo, TypeOK, MutexInv, Critical, PendingInv, Stored
    <2>5. FlagsAsTold'
      BY <1>2, FlagsAsToldKept DEF Lock
    <2>6. QED
      BY <2>1, <2>2, <2>3, <2>4, <2>5
  <1>3. CASE LoadFails
    <2>1. DownInv'
      BY <1>3 DEF LoadFails, GoTo, TypeOK, MutexInv, Critical, DownInv
    <2>2. LoadInv'
      BY <1>3 DEF LoadFails, GoTo, TypeOK, MutexInv, Critical, LoadInv
    <2>3. CopyInv'
      BY <1>3 DEF LoadFails, GoTo, TypeOK, MutexInv, Critical, CopyInv
    <2>4. PendingInv'
      BY <1>3 DEF LoadFails, GoTo, TypeOK, MutexInv, Critical, PendingInv, Stored
    <2>5. FlagsAsTold'
      BY <1>3, FlagsAsToldKept DEF LoadFails
    <2>6. QED
      BY <2>1, <2>2, <2>3, <2>4, <2>5
  <1>4. CASE Load
    <2>1. DownInv'
      BY <1>4 DEF Load, GoTo, TypeOK, MutexInv, Critical, DownInv
    <2>2. LoadInv'
      BY <1>4, LoadedFlagsType DEF Load, GoTo, TypeOK, LoadInv, FlagsAsTold
    <2>3. CopyInv'
      BY <1>4 DEF Load, GoTo, TypeOK, MutexInv, Critical, CopyInv
    <2>4. PendingInv'
      BY <1>4 DEF Load, GoTo, TypeOK, MutexInv, Critical, PendingInv, Stored
    <2>5. FlagsAsTold'
      BY <1>4, FlagsAsToldKept DEF Load
    <2>6. QED
      BY <2>1, <2>2, <2>3, <2>4, <2>5
  <1>5. CASE LoadPublish
    <2>0. \A f \in Known :
            /\ told'[f].row = told[f].row
            /\ told'[f].live = IF told[f].row = "unknown" THEN "unknown"
                              ELSE Marshal(Meaning(f, told[f].row))
      BY <1>5 DEF LoadPublish, TypeOK, Meaning
    <2>1. DownInv'
      BY <1>5 DEF LoadPublish, GoTo, TypeOK, MutexInv, Critical, DownInv
    <2>2. LoadInv'
      BY <1>5 DEF LoadPublish, GoTo, TypeOK, LoadInv
    <2>3. CopyInv'
      BY <1>5 DEF LoadPublish, GoTo, TypeOK, MutexInv, Critical, CopyInv
    <2>4. PendingInv'
      <3>1. \A g \in Togglers : pc[g] \notin Stored /\ pc'[g] = pc[g]
        BY <1>5 DEF LoadPublish, GoTo, TypeOK, MutexInv, Critical, Stored
      <3>2. QED
        BY <2>0, <3>1 DEF PendingInv
    <2>5. FlagsAsTold'
      <3>1. \A f \in Known : told[f].row # "pending"
        BY <1>5 DEF LoadPublish, MutexInv, Critical, PendingInv, Stored
      <3>2. \A f \in Known : told[f].row = "unknown" \/ told[f].row \in FlagRows
        BY <3>1 DEF TypeOK
      <3>3. \A f \in Known :
              told[f].row # "unknown" => flags'[f] = Meaning(f, told[f].row)
        BY <1>5, <3>2 DEF LoadPublish, LoadInv
      <3>4. QED
        BY <1>5, <2>0, <3>3 DEF LoadPublish, FlagsAsTold
    <2>6. QED
      BY <2>1, <2>2, <2>3, <2>4, <2>5
  <1>6. CASE LoadReturn
    <2>1. DownInv'
      BY <1>6 DEF LoadReturn, GoTo, TypeOK, MutexInv, Critical, DownInv
    <2>2. LoadInv'
      BY <1>6 DEF LoadReturn, GoTo, TypeOK, MutexInv, Critical, LoadInv
    <2>3. CopyInv'
      BY <1>6 DEF LoadReturn, GoTo, TypeOK, MutexInv, Critical, CopyInv
    <2>4. PendingInv'
      BY <1>6 DEF LoadReturn, GoTo, TypeOK, MutexInv, Critical, PendingInv, Stored
    <2>5. FlagsAsTold'
      BY <1>6, FlagsAsToldKept DEF LoadReturn
    <2>6. QED
      BY <2>1, <2>2, <2>3, <2>4, <2>5
  <1>7. ASSUME NEW g \in Togglers, NEW f \in FlagNames, NEW v \in BOOLEAN, Set(g, f, v)
       PROVE  SafeInv'
    <2>1. DownInv'
      BY <1>7 DEF Set, GoTo, TypeOK, MutexInv, Critical, DownInv
    <2>2. LoadInv'
      BY <1>7 DEF Set, GoTo, TypeOK, MutexInv, Critical, LoadInv
    <2>3. CopyInv'
      BY <1>7 DEF Set, GoTo, TypeOK, MutexInv, Critical, CopyInv
    <2>4. PendingInv'
      <3>1. \A h \in Togglers : pc'[h] \in Stored <=> pc[h] \in Stored
        BY <1>7 DEF Set, GoTo, TypeOK, Stored
      <3>2. \A h \in Togglers : pc[h] \in Stored => arg'[h] = arg[h]
        BY <1>7 DEF Set, TypeOK, Stored
      <3>3. UNCHANGED <<table, told>>
        BY <1>7 DEF Set
      <3>4. QED
        BY <3>1, <3>2, <3>3 DEF PendingInv
    <2>5. FlagsAsTold'
      BY <1>7, FlagsAsToldKept DEF Set
    <2>6. QED
      BY <2>1, <2>2, <2>3, <2>4, <2>5
  <1>8. ASSUME NEW g \in Togglers, Persist(g) PROVE SafeInv'
    <2>0. /\ arg[g].flag \in Known
          /\ \A f \in Known :
                /\ told'[f].live = told[f].live
                /\ told'[f].row = IF f = arg[g].flag THEN "pending" ELSE told[f].row
                /\ table'[f] = IF f = arg[g].flag THEN Marshal(arg[g].value) ELSE table[f]
      BY <1>8 DEF Persist, TypeOK, MutexInv
    <2>1. DownInv'
      BY <1>8 DEF Persist, GoTo, TypeOK, MutexInv, Critical, DownInv
    <2>2. LoadInv'
      BY <1>8 DEF Persist, GoTo, TypeOK, MutexInv, Critical, LoadInv
    <2>3. CopyInv'
      BY <1>8 DEF Persist, GoTo, TypeOK, MutexInv, Critical, CopyInv
    <2>4. PendingInv'
      BY <1>8, <2>0 DEF Persist, GoTo, TypeOK, MutexInv, Critical, PendingInv, Stored
    <2>5. FlagsAsTold'
      BY <1>8, <2>0 DEF Persist, FlagsAsTold, FlagRows
    <2>6. QED
      BY <2>1, <2>2, <2>3, <2>4, <2>5
  <1>9. ASSUME NEW g \in Togglers, PersistFails(g) PROVE SafeInv'
    <2>0. /\ arg[g].flag \in Known
          /\ \A f \in Known :
                /\ told'[f].live = told[f].live
                /\ told'[f].row = IF f = arg[g].flag THEN "unknown" ELSE told[f].row
                /\ f # arg[g].flag => table'[f] = table[f]
      BY <1>9 DEF PersistFails, TypeOK, MutexInv
    <2>1. DownInv'
      BY <1>9 DEF PersistFails, GoTo, TypeOK, MutexInv, Critical, DownInv
    <2>2. LoadInv'
      BY <1>9 DEF PersistFails, GoTo, TypeOK, MutexInv, Critical, LoadInv
    <2>3. CopyInv'
      BY <1>9 DEF PersistFails, GoTo, TypeOK, MutexInv, Critical, CopyInv
    <2>4. PendingInv'
      BY <1>9, <2>0 DEF PersistFails, GoTo, TypeOK, MutexInv, Critical, PendingInv, Stored
    <2>5. FlagsAsTold'
      BY <1>9, <2>0 DEF PersistFails, FlagsAsTold, FlagRows
    <2>6. QED
      BY <2>1, <2>2, <2>3, <2>4, <2>5
  <1>10. ASSUME NEW g \in Togglers, Copy(g) PROVE SafeInv'
    <2>1. DownInv'
      BY <1>10 DEF Copy, GoTo, TypeOK, MutexInv, Critical, DownInv
    <2>2. LoadInv'
      BY <1>10 DEF Copy, GoTo, TypeOK, MutexInv, Critical, LoadInv
    <2>3. CopyInv'
      BY <1>10 DEF Copy, GoTo, TypeOK, MutexInv, Critical, CopyInv
    <2>4. PendingInv'
      BY <1>10 DEF Copy, GoTo, TypeOK, MutexInv, Critical, PendingInv, Stored
    <2>5. FlagsAsTold'
      BY <1>10, FlagsAsToldKept DEF Copy
    <2>6. QED
      BY <2>1, <2>2, <2>3, <2>4, <2>5
  <1>11. ASSUME NEW g \in Togglers, Publish(g) PROVE SafeInv'
    <2>0. /\ arg[g].flag \in Known
          /\ flags' = [flags EXCEPT ![arg[g].flag] = arg[g].value]
          /\ \A f \in Known :
                /\ told'[f].live = IF f = arg[g].flag THEN "unknown" ELSE told[f].live
                /\ told'[f].row = told[f].row
      BY <1>11 DEF Publish, TypeOK, MutexInv, CopyInv
    <2>1. DownInv'
      BY <1>11 DEF Publish, GoTo, TypeOK, MutexInv, Critical, DownInv
    <2>2. LoadInv'
      BY <1>11 DEF Publish, GoTo, TypeOK, MutexInv, Critical, LoadInv
    <2>3. CopyInv'
      BY <1>11, <2>0 DEF Publish, GoTo, TypeOK, MutexInv, Critical, CopyInv
    <2>4. PendingInv'
      BY <1>11, <2>0 DEF Publish, GoTo, TypeOK, MutexInv, Critical, PendingInv, Stored
    <2>5. FlagsAsTold'
      BY <1>11, <2>0 DEF Publish, TypeOK, FlagsAsTold
    <2>6. QED
      BY <2>1, <2>2, <2>3, <2>4, <2>5
  <1>12. ASSUME NEW g \in Togglers, Return(g) PROVE SafeInv'
    <2>0. /\ arg[g].flag \in Known
          /\ \A f \in Known \ {arg[g].flag} : told'[f] = told[f]
          /\ told'[arg[g].flag].live = Marshal(arg[g].value)
          /\ told'[arg[g].flag].row =
                IF told[arg[g].flag].row = "pending" THEN Marshal(arg[g].value)
                ELSE told[arg[g].flag].row
      BY <1>12 DEF Return, TypeOK, MutexInv
    <2>1. DownInv'
      BY <1>12 DEF Return, GoTo, TypeOK, MutexInv, Critical, DownInv
    <2>2. LoadInv'
      BY <1>12 DEF Return, GoTo, TypeOK, MutexInv, Critical, LoadInv
    <2>3. CopyInv'
      BY <1>12 DEF Return, GoTo, TypeOK, MutexInv, Critical, CopyInv
    <2>4. PendingInv'
      BY <1>12, <2>0, MarshalType
      DEF Return, GoTo, TypeOK, MutexInv, Critical, PendingInv, Stored
    <2>5. FlagsAsTold'
      <3>1. UNCHANGED <<table, flags>> /\ flags[arg[g].flag] = arg[g].value
        BY <1>12 DEF Return, CopyInv
      <3>2. \/ told[arg[g].flag].row = "unknown"
            \/ /\ told[arg[g].flag].row = "pending"
               /\ table[arg[g].flag] = Marshal(arg[g].value)
        BY <1>12 DEF Return, PendingInv, Stored
      <3>3. \A f \in Known \ {arg[g].flag} :
              /\ told'[f].live # "unknown" => Marshal(flags'[f]) = told'[f].live
              /\ told'[f].row \in FlagRows => table'[f] = told'[f].row
        BY <2>0, <3>1 DEF FlagsAsTold
      <3>4. QED
        BY <2>0, <3>1, <3>2, <3>3 DEF FlagsAsTold, FlagRows
    <2>6. QED
      BY <2>1, <2>2, <2>3, <2>4, <2>5
  <1>13. ASSUME NEW o \in late, LateCommit(o) PROVE SafeInv'
    <2>0. /\ o.flag \in Known
          /\ \A f \in Known :
                /\ told'[f].live = told[f].live
                /\ told'[f].row = IF f = o.flag THEN "unknown" ELSE told[f].row
                /\ f # o.flag => table'[f] = table[f]
      BY <1>13 DEF LateCommit, TypeOK
    <2>1. DownInv'
      BY <1>13 DEF LateCommit, TypeOK, MutexInv, Critical, DownInv
    <2>2. LoadInv'
      BY <1>13, <2>0 DEF LateCommit, LoadInv, FlagRows
    <2>3. CopyInv'
      BY <1>13 DEF LateCommit, TypeOK, MutexInv, Critical, CopyInv
    <2>4. PendingInv'
      BY <1>13, <2>0 DEF LateCommit, TypeOK, MutexInv, PendingInv, Stored
    <2>5. FlagsAsTold'
      BY <1>13, <2>0 DEF LateCommit, FlagsAsTold, FlagRows
    <2>6. QED
      BY <2>1, <2>2, <2>3, <2>4, <2>5
  <1>14. ASSUME NEW o \in late, LateDrop(o) PROVE SafeInv'
    BY <1>14, FlagsAsToldKept DEF LateDrop, DownInv, LoadInv, CopyInv, PendingInv
  <1>15. CASE Crash
    <2>0. \A f \in Known :
            /\ told'[f].live = Marshal(FlagDefault[f])
            /\ told'[f].row = IF told[f].row = "pending" THEN "unknown" ELSE told[f].row
      BY <1>15 DEF Crash
    <2>1. DownInv'
      BY <1>15 DEF Crash, TypeOK, MutexInv, Critical, DownInv
    <2>2. LoadInv'
      BY <1>15 DEF Crash, TypeOK, MutexInv, Critical, LoadInv
    <2>3. CopyInv'
      BY <1>15 DEF Crash, TypeOK, MutexInv, Critical, CopyInv
    <2>4. PendingInv'
      BY <1>15, <2>0 DEF Crash, PendingInv, Stored
    <2>5. FlagsAsTold'
      BY <1>15, <2>0 DEF Crash, FlagsAsTold, FlagRows
    <2>6. QED
      BY <2>1, <2>2, <2>3, <2>4, <2>5
  <1>16. CASE UNCHANGED vars
    BY <1>16 DEF vars, DownInv, LoadInv, CopyInv, PendingInv, FlagsAsTold
  <1>17. QED
    BY <1>1, <1>2, <1>3, <1>4, <1>5, <1>6, <1>7, <1>8, <1>9, <1>10, <1>11, <1>12,
       <1>13, <1>14, <1>15, <1>16 DEF Next, LoadAtBoot, Toggle

LEMMA Safe == Spec => [](TypeInv /\ SafeInv)
  <1>1. Spec => []TypeInv
    BY FlagSetTypes
  <1>2. QED
    BY <1>1, SafeInit, SafeStep, PTL DEF Spec

\* A flag has the live value its callers were told and an acknowledged toggle is in
\* the store, whatever other goroutines toggle at the same time, whatever statement
\* fails, runs late or is lost, and wherever the process dies.
THEOREM FlagsStayAsTold == Spec => []FlagsAsTold
  BY Safe, PTL DEF SafeInv

-----------------------------------------------------------------------------
(* The refinement of FlagContract. *)

Owing == {"copy", "publish"}
Owed(a) == [f \in {a.flag} |-> a.value]
Nothing == [f \in {} |-> FALSE]

\* Who owes what to the live flags, by the state of the goroutines.
DueInv ==
    /\ \A g \in Togglers : pc[g] \in Owing => Due = Owed(arg[g])
    /\ pc[Boot] = "publish" => Due = next[Boot]
    /\ pc[Boot] # "publish" /\ (\A g \in Togglers : pc[g] \notin Owing) => Due = Nothing

LEMMA DueOf == TypeInv => DueInv
  <1> SUFFICES ASSUME TypeInv PROVE DueInv
    OBVIOUS
  <1> USE TogglerAssumption DEF TypeInv, MutexInv, Procs, Critical, Owing
  <1>1. ASSUME NEW g \in Togglers, pc[g] \in Owing PROVE Due = Owed(arg[g])
    <2>1. pc[Boot] # "publish" /\ \A h \in Togglers : pc[h] \in Owing => h = g
      BY <1>1
    <2>2. {arg[h].flag : h \in {x \in Togglers : pc[x] \in {"copy", "publish"}}}
            = {arg[g].flag}
      BY <1>1, <2>1
    <2>3. (\E h \in Togglers : /\ pc[h] \in {"copy", "publish"} /\ arg[h].flag = arg[g].flag
                               /\ arg[h].value) = arg[g].value
      <3>1. arg[g].value \in BOOLEAN
        BY DEF TypeOK
      <3>2. QED
        BY <1>1, <2>1, <3>1
    <2>4. QED
      BY <2>1, <2>2, <2>3 DEF Due, Owed
  <1>2. pc[Boot] = "publish" => Due = next[Boot]
    BY DEF Due
  <1>3. pc[Boot] # "publish" /\ (\A g \in Togglers : pc[g] \notin Owing) => Due = Nothing
    BY DEF Due, Nothing
  <1>4. QED
    BY <1>1, <1>2, <1>3 DEF DueInv

LEMMA DueOfNext == TypeInv' => DueInv'
  BY DueOf, PTL

\* Nobody starts or stops owing anything.
LEMMA DueKept ==
    ASSUME TypeInv, TypeInv',
           \A g \in Togglers : pc'[g] \in Owing <=> pc[g] \in Owing,
           \A g \in Togglers : pc[g] \in Owing => arg'[g] = arg[g],
           pc'[Boot] = "publish" <=> pc[Boot] = "publish",
           pc[Boot] = "publish" => next'[Boot] = next[Boot]
    PROVE  Due' = Due
  <1> DueInv /\ DueInv'
    BY DueOf, DueOfNext
  <1>1. ASSUME NEW g \in Togglers, pc[g] \in Owing PROVE Due' = Due
    <2>1. Due = Owed(arg[g]) /\ Due' = [f \in {arg'[g].flag} |-> arg'[g].value]
      BY <1>1 DEF DueInv, Owed
    <2>2. QED
      BY <1>1, <2>1 DEF Owed
  <1>2. CASE pc[Boot] = "publish"
    BY <1>2 DEF DueInv
  <1>3. CASE pc[Boot] # "publish" /\ \A g \in Togglers : pc[g] \notin Owing
    BY <1>3 DEF DueInv, Nothing
  <1>4. QED
    BY <1>1, <1>2, <1>3

LEMMA RefineInit == Init => Contract!Init
  <1> SUFFICES ASSUME Init PROVE Contract!Init
    OBVIOUS
  <1>1. Due = Nothing
    BY TogglerAssumption DEF Init, Due, Procs, Nothing
  <1>2. QED
    BY <1>1 DEF Init, Contract!Init, Contract!FlagRows, FlagRows, Contract!Settled, Nothing

ContractStep == [Contract!Next]_(Contract!flagContractVars)

\* A row that is written, acknowledged or not, is a step of the contract.
LEMMA ToggleOrStray ==
    ASSUME NEW f \in Known, NEW v \in BOOLEAN,
           Contract!Toggle(f, v) \/ Contract!StrayToggle(f, v)
    PROVE  ContractStep
  BY Zenon DEF ContractStep, Contract!Next

LEMMA RefineStep ==
    ASSUME TypeInv, TypeInv', SafeInv, [Next]_vars
    PROVE  ContractStep
  <1> USE FlagAssumption, TogglerAssumption
  <1> DueInv /\ DueInv'
    BY DueOf, DueOfNext
  <1>0. ASSUME UNCHANGED <<table, flags, Due>> PROVE ContractStep
    BY <1>0 DEF ContractStep, Contract!flagContractVars
  <1>1. CASE NewFlagSet
    <2>1. Due' = Due
      BY <1>1, DueKept DEF NewFlagSet, GoTo, Owing, TypeInv, TypeOK, Procs
    <2>2. QED
      BY <1>0, <1>1, <2>1 DEF NewFlagSet, SafeInv, DownInv
  <1>2. ASSUME NEW p \in Procs, Lock(p) PROVE ContractStep
    <2>1. Due' = Due
      BY <1>2, DueKept DEF Lock, GoTo, Owing, TypeInv, TypeOK, Procs
    <2>2. QED
      BY <1>0, <1>2, <2>1 DEF Lock
  <1>3. CASE LoadFails
    <2>1. Due' = Due
      BY <1>3, DueKept DEF LoadFails, GoTo, Owing, TypeInv, TypeOK, Procs
    <2>2. QED
      BY <1>0, <1>3, <2>1 DEF LoadFails
  <1>4. CASE Load
    <2>1. \A g \in Togglers : pc[g] \notin Owing
      BY <1>4 DEF Load, TypeInv, MutexInv, Critical, Procs, Owing
    <2>2. Due = Nothing /\ Due' = LoadedFlags(table)
      BY <1>4, <2>1 DEF Load, GoTo, DueInv, TypeInv, TypeOK, Procs
    <2>3. LoadedFlags(table) = Contract!LoadedFlags(table)
      BY DEF LoadedFlags, Contract!LoadedFlags, Decodes, Contract!Decodes
    <2>4. Contract!LoadFlags
      BY <1>4, <2>2, <2>3 DEF Load, Contract!LoadFlags, Contract!Settled, Nothing
    <2>5. QED
      BY <2>4 DEF ContractStep, Contract!Next
  <1>5. CASE LoadPublish
    <2>1. \A g \in Togglers : pc[g] \notin Owing /\ pc'[g] = pc[g]
      BY <1>5 DEF LoadPublish, GoTo, TypeInv, TypeOK, MutexInv, Critical, Procs, Owing
    <2>2. pc[Boot] = "publish" /\ pc'[Boot] = "unlock" /\ flags' = next[Boot] /\ table' = table
      BY <1>5 DEF LoadPublish, GoTo, TypeInv, TypeOK, Procs
    <2>3. Due = next[Boot] /\ Due' = Nothing
      BY <2>1, <2>2 DEF DueInv
    <2>4. next[Boot] \in [Known -> BOOLEAN] /\ flags \in [Known -> BOOLEAN]
      BY DEF TypeInv, TypeOK, Procs
    <2>5. CASE Due = Nothing
      <3>1. flags' = flags
        BY <2>2, <2>3, <2>4, <2>5 DEF Nothing
      <3>2. QED
        BY <1>0, <2>2, <2>3, <2>5, <3>1
    <2>6. CASE Due # Nothing
      <3>1. flags' = [f \in Known |-> IF f \in DOMAIN Due THEN Due[f] ELSE flags[f]]
        BY <2>2, <2>3, <2>4
      <3>2. Contract!PublishFlags
        BY <2>2, <2>3, <2>6, <3>1 DEF Contract!PublishFlags, Contract!Settled, Nothing
      <3>3. QED
        BY <3>2 DEF ContractStep, Contract!Next
    <2>7. QED
      BY <2>5, <2>6
  <1>6. CASE LoadReturn
    <2>1. Due' = Due
      BY <1>6, DueKept DEF LoadReturn, GoTo, Owing, TypeInv, TypeOK, Procs
    <2>2. QED
      BY <1>0, <1>6, <2>1 DEF LoadReturn
  <1>7. ASSUME NEW g \in Togglers, NEW f \in FlagNames, NEW v \in BOOLEAN, Set(g, f, v)
       PROVE  ContractStep
    <2>1. Due' = Due
      BY <1>7, DueKept DEF Set, GoTo, Owing, TypeInv, TypeOK, Procs
    <2>2. QED
      BY <1>0, <1>7, <2>1 DEF Set
  <1>8. ASSUME NEW g \in Togglers, Persist(g) PROVE ContractStep
    <2>1. PICK f \in Known, v \in BOOLEAN : arg[g].flag = f /\ arg[g].value = v
      BY <1>8 DEF Persist, TypeInv, TypeOK, MutexInv
    <2>2. pc[Boot] # "publish" /\ \A h \in Togglers : pc[h] \notin Owing
      BY <1>8 DEF Persist, TypeInv, MutexInv, Critical, Procs, Owing
    <2>3. arg' = arg /\ pc'[g] \in Owing /\ flags' = flags
      BY <1>8 DEF Persist, GoTo, TypeInv, TypeOK, Procs, Owing
    <2>4. Due = Nothing /\ Due' = [x \in {f} |-> v]
      BY <2>1, <2>2, <2>3 DEF DueInv, Owed
    <2>5. table' = [table EXCEPT ![f] = Marshal(v)]
      BY <1>8, <2>1 DEF Persist
    <2>6. Contract!Toggle(f, v)
      BY <2>3, <2>4, <2>5
      DEF Contract!Toggle, Contract!Settled, Nothing, Contract!Marshal, Marshal
    <2>7. QED
      BY <2>6, ToggleOrStray
  <1>9. ASSUME NEW g \in Togglers, PersistFails(g) PROVE ContractStep
    <2>1. PICK f \in Known, v \in BOOLEAN : arg[g].flag = f /\ arg[g].value = v
      BY <1>9 DEF PersistFails, TypeInv, TypeOK, MutexInv
    <2>2. flags' = flags /\ (table' = table \/ table' = [table EXCEPT ![f] = Marshal(v)])
      BY <1>9, <2>1 DEF PersistFails
    <2>3. Due' = Due
      BY <1>9, DueKept DEF PersistFails, GoTo, Owing, TypeInv, TypeOK, Procs
    <2>4. CASE table' = [table EXCEPT ![f] = Marshal(v)]
      <3>1. Contract!StrayToggle(f, v)
        BY <2>2, <2>3, <2>4 DEF Contract!StrayToggle, Contract!Marshal, Marshal
      <3>2. QED
        BY <3>1, ToggleOrStray
    <2>5. QED
      BY <1>0, <2>2, <2>3, <2>4
  <1>10. ASSUME NEW g \in Togglers, Copy(g) PROVE ContractStep
    <2>1. Due' = Due
      BY <1>10, DueKept DEF Copy, GoTo, Owing, TypeInv, TypeOK, Procs
    <2>2. QED
      BY <1>0, <1>10, <2>1 DEF Copy
  <1>11. ASSUME NEW g \in Togglers, Publish(g) PROVE ContractStep
    <2>1. /\ arg[g].flag \in Known /\ table' = table
          /\ flags' = [flags EXCEPT ![arg[g].flag] = arg[g].value]
      BY <1>11 DEF Publish, TypeInv, MutexInv, SafeInv, CopyInv
    <2>2. /\ pc[g] \in Owing
          /\ pc'[Boot] # "publish" /\ \A h \in Togglers : pc'[h] \notin Owing
      BY <1>11 DEF Publish, GoTo, TypeInv, TypeOK, MutexInv, Critical, Procs, Owing
    <2>3. Due = Owed(arg[g]) /\ Due' = Nothing
      BY <2>2 DEF DueInv
    <2>4. flags' = [f \in Known |-> IF f \in DOMAIN Due THEN Due[f] ELSE flags[f]]
      BY <2>1, <2>3 DEF Owed, TypeInv, TypeOK
    <2>5. Due # Nothing
      <3>1. DOMAIN Due = {arg[g].flag} /\ DOMAIN Nothing = {}
        BY <2>3 DEF Owed, Nothing
      <3>2. QED
        BY <3>1
    <2>6. Contract!PublishFlags
      BY <2>1, <2>3, <2>4, <2>5 DEF Contract!PublishFlags, Contract!Settled, Nothing
    <2>7. QED
      BY <2>6 DEF ContractStep, Contract!Next
  <1>12. ASSUME NEW g \in Togglers, Return(g) PROVE ContractStep
    <2>1. Due' = Due
      BY <1>12, DueKept DEF Return, GoTo, Owing, TypeInv, TypeOK, Procs
    <2>2. QED
      BY <1>0, <1>12, <2>1 DEF Return
  <1>13. ASSUME NEW o \in late, LateCommit(o) PROVE ContractStep
    <2>1. PICK f \in Known, v \in BOOLEAN : o.flag = f /\ o.value = v
      BY <1>13 DEF TypeInv, TypeOK
    <2>2. flags' = flags /\ table' = [table EXCEPT ![f] = Marshal(v)]
      BY <1>13, <2>1 DEF LateCommit
    <2>3. Due' = Due
      BY <1>13 DEF LateCommit, Due
    <2>4. Contract!StrayToggle(f, v)
      BY <2>2, <2>3 DEF Contract!StrayToggle, Contract!Marshal, Marshal
    <2>5. QED
      BY <2>4, ToggleOrStray
  <1>14. ASSUME NEW o \in late, LateDrop(o) PROVE ContractStep
    BY <1>0, <1>14 DEF LateDrop, Due
  <1>15. CASE Crash
    <2>1. Due' = Nothing
      BY <1>15 DEF Crash, DueInv, Procs, Owing
    <2>2. Contract!RestartFlags
      BY <1>15, <2>1 DEF Crash, Contract!RestartFlags, Contract!Settled, Nothing
    <2>3. QED
      BY <2>2 DEF ContractStep, Contract!Next
  <1>16. CASE UNCHANGED vars
    BY <1>0, <1>16 DEF vars, Due
  <1>17. QED
    BY <1>1, <1>2, <1>3, <1>4, <1>5, <1>6, <1>7, <1>8, <1>9, <1>10, <1>11, <1>12,
       <1>13, <1>14, <1>15, <1>16 DEF Next, LoadAtBoot, Toggle, Procs

\* FlagSet implements the safety part of its contract: every step of Set, LoadAtBoot,
\* a late statement or a crash is a step of FlagContract or changes nothing there.
\* (ImplementsFlagContract adds that what is due is published, which TLC checks.)
THEOREM FlagSetImplementsContract == Spec => Contract!Spec
  <1>1. TypeInv /\ TypeInv' /\ SafeInv /\ [Next]_vars => ContractStep
    BY RefineStep
  <1>2. QED
    BY <1>1, RefineInit, Safe, PTL DEF Contract!Spec, Spec, ContractStep
=============================================================================
