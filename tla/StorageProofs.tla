---------------------------- MODULE StorageProofs ----------------------------
(***************************************************************************)
(* Proofs about Storage for all keys, values, crash and error bounds, and  *)
(* about the database engine for any pool, number of clients and table.    *)
(***************************************************************************)
EXTENDS Storage, Engine, Induction

-----------------------------------------------------------------------------
(* Maps *)

\* The map a new store starts with, and nil, are maps of every value set.
LEMMA EmptyIsMap ==
  ASSUME NEW V
  PROVE  Empty \in MapsOf(V) /\ Nil \in MapsOf(V)
BY Zenon DEF Empty, Nil, MapsOf

\* Assigning an entry of a map that is not nil, or deleting one, gives a map.
LEMMA PutIsMap ==
  ASSUME NEW V, NEW m \in MapsOf(V), NEW k \in Keys, NEW v \in V \cup {Absent},
         ~m.nil \/ v = Absent
  PROVE  Put(m, k, v) \in MapsOf(V) /\ Put(m, k, v).nil = m.nil
BY Zenon DEF Put, MapsOf

\* A decoded map is a map of Go values.
LEMMA ValuesAreAny == MapsOf(Values) \subseteq MapsOf(Any)
BY Zenon DEF MapsOf, Any

\* What json.Marshal accepts reads back as a map of decoded values.
LEMMA MarshalDecodes ==
  ASSUME NEW m \in MapsOf(Any), ~HasBad(m)
  PROVE  Marshal(m) \in MapsOf(Values)
<1>1. \A k \in Keys : ToJson(m.at[k]) \in Values \cup {Absent}
  BY StorageAssumption, ZenonT(60) DEF HasBad, ToJson, MapsOf, Any
<1>2. m.nil \in BOOLEAN /\ (m.nil => \A k \in Keys : m.at[k] = Absent)
  BY Zenon DEF MapsOf
<1>3. ToJson(Absent) = Absent
  BY StorageAssumption, Zenon DEF ToJson
<1> QED
  BY <1>1, <1>2, <1>3, ZenonT(60) DEF Marshal, MapsOf

\* Marshalling a decoded map changes nothing: a second round trip is exact.
LEMMA MarshalExact ==
  ASSUME NEW m \in MapsOf(Values)
  PROVE  ~HasBad(m) /\ Marshal(m) = m
<1>1. \A k \in Keys : m.at[k] \in Values \cup {Absent}
  BY ZenonT(60) DEF MapsOf
<1>2. ~HasBad(m)
  BY <1>1, StorageAssumption, Zenon DEF HasBad
<1>3. \A k \in Keys : ToJson(m.at[k]) = m.at[k]
  BY <1>1, StorageAssumption, ZenonT(60) DEF ToJson
<1> QED
  BY <1>2, <1>3, Zenon DEF Marshal, MapsOf

\* Files: a whole file holds a decoded map.
LEMMA FilesAre ==
  /\ \A d \in MapsOf(Values) : File(d) \in Files
  /\ \A k \in {"absent"} \cup Torn : NoData(k) \in Files
  /\ \A f \in Files : f.kind = "whole" => f.data \in MapsOf(Values) /\ f = File(f.data)
BY DEF Files, File, NoData, Torn

\* MergeJSON copies decoded entries into a map that is not nil, or nothing.
LEMMA MergeIsMap ==
  ASSUME NEW m \in MapsOf(Any), NEW obj \in MapsOf(Values), NEW new \in SUBSET Keys,
         ~m.nil \/ new = {}
  PROVE  LET r == [m EXCEPT !.at = [k \in Keys |-> IF k \in new THEN obj.at[k] ELSE @[k]]]
         IN  r \in MapsOf(Any) /\ r.nil = m.nil
BY ZenonT(60) DEF MapsOf, Any

-----------------------------------------------------------------------------
(* The inductive invariant *)

\* Only a running process is inside save.
Running == pc # "idle" => up = "up"

\* Which file holds the last saved snapshot at each point of save, before the
\* first failure; and that a first crash leaves one of the two.
Intact ==
  errors = 0 /\ saved.kind = "whole" =>
    /\ crashes = 0 => /\ pc \in {"idle", "backup", "copy", "truncate"} => path = saved
                      /\ pc \in {"truncate", "write"} => backup = saved
    /\ crashes = 1 /\ up = "crashed" => saved \in {path, backup}

\* Before the first failure Path is never a torn file longer than 16 bytes,
\* save writes the marshalled store, and Path holds it when save returned.
InStep ==
  crashes = 0 /\ errors = 0 =>
    /\ path.kind \in {"absent", "whole", "short"}
    /\ path.kind = "short" => pc = "write"
    /\ pc # "idle" => ~HasBad(store) /\ out = Marshal(store)
    /\ up = "up" /\ pc = "idle" /\ ~HasBad(store) => path = File(Marshal(store))
    /\ path.kind = "absent" => saved.kind = "absent"

Inv == TypeOK /\ Running /\ Intact /\ InStep

\* A call outside save that puts a map m in memory and saves it keeps Inv; the
\* files do not change before the first step of save.
LEMMA SaveKeepsInv ==
  ASSUME Inv, pc = "idle", NEW m \in MapsOf(Any), Save(m), up' = "up",
         nulled' \in BOOLEAN, UNCHANGED <<disk, panicked>>
  PROVE  Inv'
<1> USE DEF Inv, disk
<1>1. TypeOK'
  BY MarshalDecodes, Zenon DEF TypeOK, Save, FirstWrite
<1>2. Running'
  BY Zenon DEF Running
<1>3. Intact'
  BY Zenon DEF Intact, Save, FirstWrite, TypeOK, InStep
<1>4. InStep'
  BY Zenon DEF InStep, Save, FirstWrite, HasBad, Marshal
<1> QED
  BY <1>1, <1>2, <1>3, <1>4, Zenon

\* A panic of a call outside save keeps Inv: it changes neither map nor file.
LEMMA PanicKeepsInv ==
  ASSUME Inv, Call, NEW why \in {"nilmap", "ragged"}, Panic(why)
  PROVE  Inv'
BY Zenon DEF Inv, Call, Panic, disk, TypeOK, Running, Intact, InStep, HasBad, Marshal

-----------------------------------------------------------------------------
(* Every step keeps the inductive invariant *)

\* The file operations of save, one of them failing, and the end of the process.
LEMMA DiskStepKeepsInv ==
  ASSUME Inv, Saving \/ SaveError \/ Stop \/ Crash
  PROVE  Inv'
<1> USE DEF Inv
<1>1. CASE SaveOpenBackup
  BY <1>1, FilesAre, Zenon DEF SaveOpenBackup, TypeOK, Torn, Running, Intact, InStep, HasBad,
                               Marshal
<1>2. CASE SaveCopy
  BY <1>2, Zenon DEF SaveCopy, TypeOK, Running, Intact, InStep, HasBad, Marshal
<1>3. CASE SaveTruncate
  <2>1. TypeOK'
    BY <1>3, FilesAre, Zenon DEF SaveTruncate, TypeOK, Torn
  <2>2. Running' /\ Intact'
    BY <1>3, Zenon DEF SaveTruncate, Running, Intact
  <2>3. InStep'
    BY <1>3, Zenon DEF SaveTruncate, InStep, NoData, HasBad, Marshal
  <2> QED
    BY <2>1, <2>2, <2>3, Zenon
<1>4. CASE SaveWrite
  <2>1. TypeOK'
    BY <1>4, FilesAre, Zenon DEF SaveWrite, TypeOK
  <2>2. Running' /\ Intact'
    BY <1>4, Zenon DEF SaveWrite, Running, Intact
  <2>3. InStep'
    BY <1>4, Zenon DEF SaveWrite, InStep, File, HasBad, Marshal
  <2> QED
    BY <2>1, <2>2, <2>3, Zenon
<1>5. CASE SaveError
  <2>1. errors' # 0
    BY <1>5 DEF SaveError, TypeOK
  <2>2. TypeOK'
    <3>1. {NoData(k) : k \in Torn} \subseteq Files
      BY FilesAre, Zenon
    <3>2. errors' \in Nat
      BY <1>5 DEF SaveError, TypeOK
    <3> QED
      BY <1>5, <3>1, <3>2, ZenonT(60) DEF SaveError, TypeOK
  <2>3. Running'
    BY <1>5, Zenon DEF SaveError, Running
  <2> QED
    BY <2>1, <2>2, <2>3, Zenon DEF Intact, InStep
<1>6. CASE Stop
  BY <1>6, Zenon DEF Stop, Call, disk, TypeOK, Running, Intact, InStep, HasBad, Marshal
<1>7. CASE Crash
  <2>1. crashes' # 0 /\ (crashes' = 1 => crashes = 0)
    BY <1>7 DEF Crash, TypeOK
  <2>2. TypeOK'
    <3>1. {NoData(k) : k \in Torn} \subseteq Files
      BY FilesAre, Zenon
    <3>2. File(out) \in Files
      BY FilesAre, Zenon DEF TypeOK
    <3>3. crashes' \in Nat /\ path' \in Files /\ backup' \in Files
      BY <1>7, <3>1, <3>2 DEF Crash, TypeOK
    <3>4. cut' \in BOOLEAN
      BY <1>7, Zenon DEF Crash
    <3> QED
      BY <1>7, <3>3, <3>4, Zenon DEF Crash, TypeOK
  <2>3. Running'
    BY <1>7, Zenon DEF Crash, Running
  <2>4. Intact'
    BY <1>7, <2>1, Zenon DEF Crash, Intact, TypeOK
  <2> QED
    BY <2>1, <2>2, <2>3, <2>4, Zenon DEF InStep
<1> QED
  BY <1>1, <1>2, <1>3, <1>4, <1>5, <1>6, <1>7, Zenon DEF Saving

\* Initialize when a file cannot be read: a fresh save after the first failure.
LEMMA InitializeErrorKeepsInv ==
  ASSUME Inv, InitializeError
  PROVE  Inv'
<1> USE DEF Inv
<1>1. errors' # 0 /\ errors' \in Nat
  BY DEF InitializeError, TypeOK
<1>2. Empty \in MapsOf(Any) /\ Save(Empty) /\ up' = "up"
  BY EmptyIsMap, Zenon DEF InitializeError, FreshStore
<1>3. TypeOK'
  BY <1>1, <1>2, MarshalDecodes, Zenon DEF InitializeError, TypeOK, Save, FirstWrite
<1> QED
  BY <1>1, <1>2, <1>3, Zenon DEF Running, Intact, InStep

\* Initialize: a panic, the map of one of the files, or a fresh save.
LEMMA InitializeKeepsInv ==
  ASSUME Inv, Initialize
  PROVE  Inv'
<1> USE DEF Inv
<1>1. CASE Source = "panic"
  BY <1>1, Zenon DEF Initialize, disk, TypeOK, Running, Intact, InStep, HasBad, Marshal
<1>2. CASE Source = "path"
  <2>1. path.kind = "whole"
    BY <1>2, Zenon DEF Source
  <2>2. path.data \in MapsOf(Values) /\ path = File(path.data)
    BY <2>1, FilesAre, Zenon DEF TypeOK
  <2>3. store' = path.data /\ up' = "up" /\ pc = "idle"
        /\ UNCHANGED <<pc, out, panicked, disk, nulled>>
    BY <1>2, Zenon DEF Initialize
  <2>4. TypeOK'
    BY <2>2, <2>3, ValuesAreAny, Zenon DEF TypeOK, disk
  <2>5. path' = File(Marshal(store))'
    BY <2>2, <2>3, MarshalExact, Zenon DEF disk, File, Marshal
  <2>6. Running' /\ Intact' /\ InStep'
    BY <2>3, <2>5, Zenon DEF Running, Intact, InStep, disk
  <2> QED
    BY <2>4, <2>6, Zenon
<1>3. CASE Source = "backup"
  <2>1. path.kind = "blocks" /\ backup.kind = "whole"
    BY <1>3, Zenon DEF Source
  <2>2. backup.data \in MapsOf(Values)
    BY <2>1, FilesAre, Zenon DEF TypeOK
  <2>3. store' = backup.data /\ up' = "up" /\ pc = "idle"
        /\ UNCHANGED <<pc, out, panicked, disk, nulled>>
    BY <1>3, Zenon DEF Initialize
  <2>4. TypeOK'
    BY <2>2, <2>3, ValuesAreAny, Zenon DEF TypeOK, disk
  <2>5. Running' /\ Intact' /\ InStep'
    BY <2>1, <2>3, Zenon DEF Running, Intact, InStep, disk
  <2> QED
    BY <2>4, <2>5, Zenon
<1>4. CASE Source = "fresh"
  <2>1. Save(Empty) /\ up' = "up" /\ pc = "idle" /\ UNCHANGED <<disk, panicked, nulled>>
    BY <1>4, Zenon DEF Initialize, FreshStore
  <2>2. Empty \in MapsOf(Any) /\ nulled' \in BOOLEAN
    BY <2>1, EmptyIsMap, Zenon DEF TypeOK
  <2> QED
    BY <2>1, <2>2, SaveKeepsInv, Zenon
<1>5. Source \in {"panic", "path", "backup", "fresh"}
  BY Zenon DEF Source
<1> QED
  BY <1>1, <1>2, <1>3, <1>4, <1>5, Zenon

\* The operations on a running store: each puts one map in memory and saves
\* it, or panics.
LEMMA OperationKeepsInv ==
  ASSUME Inv,
         \/ \E k \in Keys : \/ \E v \in Any : Set(k, v) \/ SetAuto(k, v)
                            \/ Delete(k)
         \/ Clear \/ RestoreFromBackup
         \/ \E obj \in MapsOf(Values) : ImportJSON(obj) \/ MergeJSON(obj)
  PROVE  Inv'
<1>0. store \in MapsOf(Any) /\ nulled \in BOOLEAN
  BY Zenon DEF Inv, TypeOK
<1>1. ASSUME NEW k \in Keys, NEW v \in Any, Set(k, v) PROVE Inv'
  <2>1. CASE store.nil
    BY <1>1, <2>1, PanicKeepsInv, Zenon DEF Set
  <2>2. CASE ~store.nil
    <3>1. Put(store, k, v) \in MapsOf(Any)
      BY <1>0, <2>2, PutIsMap, Zenon
    <3> QED
      BY <1>0, <1>1, <2>2, <3>1, SaveKeepsInv, Zenon DEF Set, Call
  <2> QED
    BY <2>1, <2>2, Zenon
<1>2. ASSUME NEW k \in Keys, NEW v \in Any, SetAuto(k, v) PROVE Inv'
  <2>1. CASE store.nil
    BY <1>2, <2>1, PanicKeepsInv, Zenon DEF SetAuto
  <2>2. CASE ~store.nil
    <3>1. ToJson(v) \in Any
      BY StorageAssumption, Zenon DEF ToJson, Any
    <3>2. Put(store, k, ToJson(v)) \in MapsOf(Any)
      BY <1>0, <2>2, <3>1, PutIsMap, Zenon
    <3> QED
      BY <1>0, <1>2, <2>2, <3>2, SaveKeepsInv, Zenon DEF SetAuto, Call
  <2> QED
    BY <2>1, <2>2, Zenon
<1>3. ASSUME NEW k \in Keys, Delete(k) PROVE Inv'
  <2>1. Put(store, k, Absent) \in MapsOf(Any)
    BY <1>0, PutIsMap, Zenon
  <2> QED
    BY <1>0, <1>3, <2>1, SaveKeepsInv, Zenon DEF Delete, Call
<1>4. CASE Clear
  BY <1>0, <1>4, EmptyIsMap, SaveKeepsInv, Zenon DEF Clear, Call
<1>5. CASE RestoreFromBackup
  <2>1. CASE Panic("ragged")
    BY <1>5, <2>1, PanicKeepsInv, Zenon DEF RestoreFromBackup
  <2>2. CASE backup.kind = "whole" /\ Save(backup.data) /\ UNCHANGED <<up, disk, nulled, panicked>>
    <3>1. backup.data \in MapsOf(Any)
      BY <2>2, FilesAre, ValuesAreAny, Zenon DEF Inv, TypeOK
    <3> QED
      BY <1>0, <1>5, <2>2, <3>1, SaveKeepsInv, Zenon DEF RestoreFromBackup, Call
  <2> QED
    BY <1>5, <2>1, <2>2, Zenon DEF RestoreFromBackup
<1>6. ASSUME NEW obj \in MapsOf(Values), ImportJSON(obj) PROVE Inv'
  <2>1. obj \in MapsOf(Any) /\ obj.nil \in BOOLEAN
    BY ValuesAreAny, Zenon DEF MapsOf
  <2> QED
    BY <1>0, <1>6, <2>1, SaveKeepsInv, Zenon DEF ImportJSON, Call
<1>7. ASSUME NEW obj \in MapsOf(Values), MergeJSON(obj) PROVE Inv'
  <2> DEFINE new == {k \in Keys : obj.at[k] # Absent}
  <2>1. CASE store.nil /\ new # {}
    BY <1>7, <2>1, PanicKeepsInv, Zenon DEF MergeJSON
  <2>2. CASE ~(store.nil /\ new # {})
    <3> DEFINE m == [store EXCEPT !.at =
                       [k \in Keys |-> IF k \in new THEN obj.at[k] ELSE @[k]]]
    <3>1. m \in MapsOf(Any)
      BY <1>0, <2>2, MergeIsMap, ZenonT(60)
    <3>2. Call /\ Save(m) /\ UNCHANGED <<up, disk, nulled, panicked>>
      BY <1>7, <2>2, Zenon DEF MergeJSON
    <3> HIDE DEF m
    <3> QED
      BY <1>0, <3>1, <3>2, SaveKeepsInv, Zenon DEF Call
  <2> QED
    BY <2>1, <2>2, Zenon
<1> QED
  BY <1>1, <1>2, <1>3, <1>4, <1>5, <1>6, <1>7, Zenon

\* Inv holds in every state of every behaviour.
THEOREM InvHolds == Spec => []Inv
<1>1. Init => Inv
  <2>1. Empty \in MapsOf(Any) /\ Empty \in MapsOf(Values)
    BY EmptyIsMap, Zenon
  <2>2. NoData("absent") \in Files /\ NoData("absent").kind = "absent"
    BY FilesAre, Zenon DEF NoData
  <2>3. Init => TypeOK
    <3>1. Init => nulled \in BOOLEAN /\ cut \in BOOLEAN
      BY Zenon DEF Init
    <3>2. Init => crashes \in Nat /\ errors \in Nat
      BY DEF Init
    <3> QED
      BY <2>1, <2>2, <3>1, <3>2, Zenon DEF Init, TypeOK
  <2>4. Init => Running /\ Intact /\ InStep
    BY <2>2, Zenon DEF Init, Running, Intact, InStep
  <2> QED
    BY <2>3, <2>4, Zenon DEF Inv
<1>2. Inv /\ [Next]_vars => Inv'
  <2> SUFFICES ASSUME Inv, [Next]_vars PROVE Inv'
    BY Zenon
  <2>1. CASE UNCHANGED vars
    BY <2>1 DEF vars, Inv, TypeOK, Running, Intact, InStep, HasBad, Marshal
  <2>2. CASE Next
    BY <2>2, DiskStepKeepsInv, InitializeKeepsInv, InitializeErrorKeepsInv, OperationKeepsInv,
       Zenon DEF Next
  <2> QED
    BY <2>1, <2>2, Zenon
<1> QED
  BY <1>1, <1>2, PTL DEF Spec

\* Whatever Go values are stored, what reaches the disk is JSON.
THEOREM TypeCorrect == Spec => []TypeOK
BY InvHolds, PTL DEF Inv

\* One of the two files holds the last saved snapshot at every point of every
\* save and after the first crash.
THEOREM OneIntactCopyHolds == Spec => []OneIntactCopy
<1>1. Inv => OneIntactCopy
  BY Zenon DEF Inv, TypeOK, Running, Intact, OneIntactCopy
<1> QED
  BY <1>1, InvHolds, PTL

\* Path holds the store whenever the store can be marshalled.
THEOREM DiskFollowsMemoryHolds == Spec => []DiskFollowsMemory
<1>1. Inv => DiskFollowsMemory
  BY Zenon DEF Inv, InStep, DiskFollowsMemory
<1> QED
  BY <1>1, InvHolds, PTL

-----------------------------------------------------------------------------
(* Panics *)

\* A nil map comes from an import of null, wherever it was copied since.
NilNeedsNull ==
  /\ store.nil \/ out.nil \/ path.data.nil \/ backup.data.nil => nulled
  /\ panicked = "nilmap" => nulled

\* Every panic on a nil map goes back to an import of null.
THEOREM PanicNeedsNullHolds == Spec => []PanicNeedsNull
<1>0. Empty.nil = FALSE /\ \A k : NoData(k).data.nil = FALSE /\ NoData(k).kind = k
  BY Zenon DEF Empty, NoData
<1>1. Init => NilNeedsNull
  BY <1>0, Zenon DEF Init, NilNeedsNull
<1>2. Inv /\ NilNeedsNull /\ [Next]_vars => NilNeedsNull'
  <2> SUFFICES ASSUME Inv, NilNeedsNull, [Next]_vars PROVE NilNeedsNull'
    BY Zenon
  <2>0. store \in MapsOf(Any) /\ nulled \in BOOLEAN
    BY Zenon DEF Inv, TypeOK
  <2>1. CASE UNCHANGED vars
    BY <2>1, Zenon DEF vars, NilNeedsNull
  <2>2. CASE SaveOpenBackup \/ SaveCopy \/ SaveTruncate
    BY <2>2, <1>0, Zenon DEF SaveOpenBackup, SaveCopy, SaveTruncate, NilNeedsNull
  <2>3. CASE SaveWrite
    BY <2>3, Zenon DEF SaveWrite, NilNeedsNull, File
  <2>4. CASE SaveError
    BY <2>4, <1>0, Zenon DEF SaveError, NilNeedsNull
  <2>5. CASE Stop
    BY <2>5, Zenon DEF Stop, disk, NilNeedsNull
  <2>6. CASE Crash
    BY <2>6, <1>0 DEF Crash, NilNeedsNull, File
  <2>7. ASSUME NEW m, Save(m), m.nil => nulled', nulled => nulled', UNCHANGED <<disk, panicked>>
        PROVE  NilNeedsNull'
    BY <2>7 DEF Save, Marshal, disk, NilNeedsNull
  <2>8. ASSUME NEW why, Panic(why), why = "nilmap" => nulled PROVE NilNeedsNull'
    BY <2>8, Zenon DEF Panic, disk, NilNeedsNull
  <2>9. CASE Initialize
    <3>1. CASE Source = "panic"
      BY <2>9, <3>1, Zenon DEF Initialize, disk, NilNeedsNull
    <3>2. CASE Source = "path" \/ Source = "backup"
      BY <2>9, <3>2, ZenonT(60) DEF Initialize, disk, NilNeedsNull
    <3>3. CASE Source = "fresh"
      BY <2>9, <2>7, <3>3, <1>0, Zenon DEF Initialize, FreshStore
    <3>4. Source \in {"panic", "path", "backup", "fresh"}
      BY Zenon DEF Source
    <3> QED
      BY <3>1, <3>2, <3>3, <3>4, Zenon
  <2>10. ASSUME NEW k \in Keys, NEW v \in Any, Set(k, v) \/ SetAuto(k, v) PROVE NilNeedsNull'
    <3>1. CASE store.nil
      BY <2>8, <2>10, <3>1, Zenon DEF Set, SetAuto, NilNeedsNull
    <3>2. CASE ~store.nil
      <4>1. \A w : Put(store, k, w).nil = store.nil
        BY <2>0, Zenon DEF Put, MapsOf
      <4> QED
        BY <2>7, <2>10, <3>2, <4>1 DEF Set, SetAuto
    <3> QED
      BY <3>1, <3>2, Zenon
  <2>11. ASSUME NEW k \in Keys, Delete(k) PROVE NilNeedsNull'
    <3>1. Put(store, k, Absent).nil = store.nil
      BY <2>0, PutIsMap, ZenonT(60)
    <3> QED
      BY <2>7, <2>11, <3>1, Zenon DEF Delete, NilNeedsNull
  <2>12. CASE Clear
    BY <2>7, <2>12, <1>0, Zenon DEF Clear
  <2>13. CASE RestoreFromBackup
    BY <2>7, <2>8, <2>13 DEF RestoreFromBackup, NilNeedsNull
  <2>14. ASSUME NEW obj \in MapsOf(Values), ImportJSON(obj) PROVE NilNeedsNull'
    BY <2>7, <2>14, ZenonT(60) DEF ImportJSON
  <2>15. ASSUME NEW obj \in MapsOf(Values), MergeJSON(obj) PROVE NilNeedsNull'
    <3> DEFINE new == {k \in Keys : obj.at[k] # Absent}
               m == [store EXCEPT !.at =
                       [k \in Keys |-> IF k \in new THEN obj.at[k] ELSE @[k]]]
    <3>1. CASE store.nil /\ new # {}
      BY <2>8, <2>15, <3>1, Zenon DEF MergeJSON, NilNeedsNull
    <3>2. CASE ~(store.nil /\ new # {})
      <4>1. Save(m) /\ UNCHANGED <<up, disk, nulled, panicked>>
        BY <2>15, <3>2, Zenon DEF MergeJSON
      <4>2. m.nil = store.nil
        BY <2>0, <3>2, MergeIsMap
      <4> HIDE DEF m
      <4> QED
        BY <2>7, <4>1, <4>2, Zenon DEF NilNeedsNull
    <3> QED
      BY <3>1, <3>2, Zenon
  <2>16. CASE InitializeError
    BY <1>0, <2>16 DEF InitializeError, FreshStore, Save, Marshal, NilNeedsNull
  <2> QED
    BY <2>1, <2>2, <2>3, <2>4, <2>5, <2>6, <2>9, <2>10, <2>11, <2>12, <2>13, <2>14, <2>15,
       <2>16
    DEF Next, Saving
<1>3. NilNeedsNull => PanicNeedsNull
  BY Zenon DEF NilNeedsNull, PanicNeedsNull
<1> QED
  BY <1>1, <1>2, <1>3, InvHolds, PTL DEF Spec

-----------------------------------------------------------------------------
(* Recovery *)

\* What the first crash leaves for Initialize: a whole Path, or one that was cut
\* and the saved snapshot in the backup.
Recoverable ==
  /\ crashes = 1 /\ errors = 0 /\ up = "crashed" /\ saved.kind = "whole"
  => \/ path \in {saved, File(out)}
     \/ cut /\ path.kind \in Torn /\ backup = saved

\* However a write is torn, the first Initialize after the first crash brings
\* back the last saved store or the one that was being saved, except where the
\* crash cut the write of Path off inside a cipher block or before the 17th byte:
\* there it panics, or starts empty, beside a whole backup.
THEOREM RecoversUnlessCutHolds == Spec => RecoversUnlessCut
<1>1. Init => Recoverable
  BY Zenon DEF Init, Recoverable
<1>2. Inv /\ Recoverable /\ [Next]_vars => Recoverable'
  <2> SUFFICES ASSUME Inv, Recoverable, [Next]_vars,
                      crashes' = 1 /\ errors' = 0 /\ up' = "crashed" /\ saved'.kind = "whole"
               PROVE  (path \in {saved, File(out)}
                       \/ (cut /\ path.kind \in Torn /\ backup = saved))'
    BY Zenon DEF Recoverable
  <2>1. CASE Crash
    <3>1. crashes = 0 /\ errors = 0 /\ saved.kind = "whole" /\ saved' = saved /\ out' = out
      BY <2>1 DEF Crash, Inv, TypeOK
    <3>2. CASE pc = "write"
      <4>1. backup' = saved /\ cut'
        BY <2>1, <3>1, <3>2, Zenon DEF Crash, Inv, Intact
      <4>2. path' \in {File(out)} \cup {NoData(k) : k \in Torn}
        BY <2>1, <3>2, Zenon DEF Crash
      <4>3. path' = File(out) \/ path'.kind \in Torn
        BY <4>2 DEF NoData
      <4> QED
        BY <3>1, <4>1, <4>3, Zenon DEF File, Torn
    <3>3. CASE pc # "write"
      BY <2>1, <3>1, <3>3, Zenon DEF Crash, Inv, Intact, TypeOK
    <3> QED
      BY <3>2, <3>3, Zenon
  <2>2. CASE ~Crash
    <3>1. up = "crashed" /\ UNCHANGED <<out, disk>>
      <4>1. CASE UNCHANGED vars
        BY <4>1, Zenon DEF vars, disk
      <4>2. CASE Initialize
        BY <4>2, ZenonT(60) DEF Initialize, Source
      <4>3. CASE Saving \/ SaveError
        BY <4>3, Zenon DEF Saving, SaveOpenBackup, SaveCopy, SaveTruncate, SaveWrite, SaveError,
                    Inv, Running
      <4> QED
        BY <2>2, <4>1, <4>2, <4>3, ZenonT(60)
        DEF Next, InitializeError, Stop, Set, SetAuto, Delete, Clear, RestoreFromBackup,
            ImportJSON, MergeJSON, Call, Panic
    <3> QED
      BY <3>1, Zenon DEF Recoverable, disk, File, Torn
  <2> QED
    BY <2>1, <2>2, Zenon
<1>3. Recoverable /\ [Next]_vars =>
        [ /\ up = "crashed" /\ crashes = 1 /\ errors = 0 /\ saved.kind = "whole"
          /\ Initialize
          => \/ up' = "up" /\ store' \in {saved.data, out}
             \/ /\ cut /\ backup = saved
                /\ \/ path.kind = "ragged" /\ up' = "crashed"
                   \/ path.kind = "short" /\ up' = "up" /\ store' = Empty ]_vars
  <2> SUFFICES ASSUME Recoverable, Initialize, up = "crashed", crashes = 1,
                      errors = 0, saved.kind = "whole"
               PROVE  \/ up' = "up" /\ store' \in {saved.data, out}
                      \/ /\ cut /\ backup = saved
                         /\ \/ path.kind = "ragged" /\ up' = "crashed"
                            \/ path.kind = "short" /\ up' = "up" /\ store' = Empty
    BY Zenon
  <2>1. CASE path \in {saved, File(out)}
    <3>1. path.kind = "whole" /\ path.data \in {saved.data, out}
      BY <2>1 DEF File
    <3>2. Source = "path"
      BY <3>1, Zenon DEF Source
    <3> QED
      BY <3>1, <3>2, Zenon DEF Initialize
  <2>2. CASE path.kind = "blocks" /\ backup = saved
    <3>1. Source = "backup"
      BY <2>2, Zenon DEF Source
    <3> QED
      BY <2>2, <3>1, Zenon DEF Initialize
  <2>3. CASE cut /\ path.kind = "ragged" /\ backup = saved
    <3>1. Source = "panic"
      BY <2>3, Zenon DEF Source
    <3> QED
      BY <2>3, <3>1, Zenon DEF Initialize
  <2>4. CASE cut /\ path.kind = "short" /\ backup = saved
    <3>1. Source = "fresh"
      BY <2>4, Zenon DEF Source
    <3> QED
      BY <2>4, <3>1, Zenon DEF Initialize, Save, FreshStore
  <2> QED
    BY <2>1, <2>2, <2>3, <2>4, Zenon DEF Recoverable, Torn
<1> QED
  BY <1>1, <1>2, <1>3, InvHolds, PTL DEF Spec, RecoversUnlessCut

-----------------------------------------------------------------------------
(* Engine runs its components: each of its steps is, for each of them, one *)
(* of their own steps or none.                                             *)

\* A behaviour of Engine is one of Database.
LEMMA DbRuns == EngineSpec => Db!Spec
<1>1. EngineInit => Db!Init
  BY Zenon DEF EngineInit
<1>2. [EngineNext]_engineVars => [Db!Next]_(Db!vars)
  BY Zenon DEF EngineNext, EngineStep, engineVars, dbVars, Db!vars, Db!pool, Db!seen
<1> QED
  BY <1>1, <1>2, PTL DEF EngineSpec, Db!Spec

\* A behaviour of Engine is one of Paging.
LEMMA WalkRuns == EngineSpec => Walk!Spec
<1>1. EngineInit => Walk!Init
  BY Zenon DEF EngineInit
<1>2. [EngineNext]_engineVars => [Walk!Next]_(Walk!vars)
  BY Zenon DEF EngineNext, EngineStep, engineVars, walkVars, Walk!vars
<1> QED
  BY <1>1, <1>2, PTL DEF EngineSpec, Walk!Spec

-----------------------------------------------------------------------------
(* DatabaseEngine: the pool, the calls and the rows *)

Pragmas == SUBSET {"journal_mode", "synchronous", "foreign_keys"}

DbTypes ==
  /\ opened \in Nat /\ alive \subseteq 1..opened
  /\ settings \in Seq(Pragmas) /\ Len(settings) = opened
  /\ held \in [Clients \cup {"maintenance"} -> 0..opened]
  /\ progress \in 0..5 /\ conf \in Configs

CallTypes ==
  call \in [Clients -> [at : {"idle", "begin", "prepare", "exec", "commit"},
                        kind : {"save", "batch", "migrate"}, n : Nat, tries : Nat,
                        res : {"none", "ok", "error"}]]

\* A call of a client runs on an engine that is open, and holds a connection
\* from its Begin to its return.
CallsHold ==
  \A c \in Clients :
    /\ call[c].at # "idle" => progress = 5 /\ call[c].res = "none"
    /\ held[c] = 0 <=> call[c].at \in {"idle", "begin"}

\* A client has rows exactly when its last call stored them and returned nil.
RowsKept ==
  \A c \in Clients :
    (call[c].res = "ok" /\ call[c].kind # "migrate") <=> \E r \in rows : r[2] = c

\* In each database a client has all rows of its batch or none.
RowsWhole ==
  \A c \in Clients, k \in Nat :
    \/ \A i \in 1..BatchLen : <<k, c, i>> \in rows
    \/ \A i \in 1..BatchLen : <<k, c, i>> \notin rows

DbInv == DbTypes /\ CallTypes /\ CallsHold /\ RowsKept /\ RowsWhole

\* What taking a connection does to the pool: the connection taken is one of
\* those opened, and the settings of the others stay.
LEMMA TakeConnection ==
  ASSUME DbTypes, NEW k \in Db!Candidates, Db!Take(k)
  PROVE  /\ opened' \in {opened, opened + 1} /\ k \in 1..opened'
         /\ alive' \subseteq 1..opened'
         /\ Db!Taken(k) \in Seq(Pragmas) /\ Len(Db!Taken(k)) = opened'
         /\ \A j \in 1..opened : Db!Taken(k)[j] = settings[j]
<1>1. CASE k \in Db!Idle /\ UNCHANGED <<alive, opened>>
  <2>1. k \in alive
    BY <1>1, Zenon DEF Db!Idle
  <2>2. Db!Taken(k) = settings
    BY <2>1, Zenon DEF Db!Taken
  <2> QED
    BY <1>1, <2>1, <2>2, Zenon DEF DbTypes
<1>2. CASE k = opened + 1 /\ alive' = alive \cup {k} /\ opened' = k
  <2>1. opened \in Nat /\ k \notin alive /\ k \in 1..opened' /\ 1..opened \subseteq 1..opened'
    BY <1>2 DEF DbTypes
  <2>2. Db!Taken(k) = Append(settings, {})
    BY <2>1, Zenon DEF Db!Taken
  <2>3. settings \in Seq(Pragmas) /\ {} \in Pragmas /\ Len(settings) = opened
    BY Zenon DEF DbTypes, Pragmas
  <2>4. /\ Append(settings, {}) \in Seq(Pragmas)
        /\ Len(Append(settings, {})) = opened + 1
        /\ \A j \in 1..opened : Append(settings, {})[j] = settings[j]
    BY <2>3
  <2> QED
    BY <1>2, <2>1, <2>2, <2>4, Zenon DEF DbTypes
<1> QED
  BY <1>1, <1>2, Zenon DEF Db!Take

\* A statement of Open: the pool opens at most one connection.
LEMMA OpenKeepsDbInv ==
  ASSUME DbInv, Db!Pragma \/ Db!Migrate \/ Db!OpenFails
  PROVE  DbInv'
<1>1. UNCHANGED <<conf, held, rows, call>>
  BY Zenon DEF Db!Pragma, Db!Migrate, Db!OpenFails
<1>2. CASE Db!Pragma
  <2>1. PICK k \in Db!Candidates :
          /\ Db!Take(k)
          /\ settings' = [Db!Taken(k) EXCEPT ![k] = @ \cup {Db!Statements[progress]}]
    BY <1>2, Zenon DEF Db!Pragma
  <2>2. /\ progress \in 1..3 /\ progress' = progress + 1
        /\ Db!Statements[progress] \in {"journal_mode", "synchronous", "foreign_keys"}
    BY <1>2 DEF Db!Pragma, Db!Statements
  <2> DEFINE t == Db!Taken(k)
             st == Db!Statements[progress]
  <2>3. /\ opened' \in {opened, opened + 1} /\ k \in 1..opened' /\ alive' \subseteq 1..opened'
        /\ t \in Seq(Pragmas) /\ Len(t) = opened' /\ opened \in Nat
    BY <2>1, TakeConnection, Zenon DEF DbInv, DbTypes
  <2> HIDE DEF t, st
  <2>4. settings' = [t EXCEPT ![k] = @ \cup {st}]
    BY <2>1, Zenon DEF t, st
  <2>5. settings' \in Seq(Pragmas) /\ Len(settings') = opened'
    <3>1. DOMAIN t = 1..opened' /\ t[k] \in Pragmas
      BY <2>3
    <3>2. t[k] \cup {st} \in Pragmas
      BY <2>2, <3>1, Zenon DEF Pragmas, st
    <3> QED
      BY <2>3, <2>4, <3>2
  <2>6. DbTypes'
    <3>1. held \in [Clients \cup {"maintenance"} -> 0..opened'] /\ opened' \in Nat
      BY <2>3 DEF DbInv, DbTypes
    <3>2. progress' \in 0..5 /\ conf' \in Configs
      BY <1>1, <2>2 DEF DbInv, DbTypes
    <3> QED
      BY <1>1, <2>3, <2>5, <3>1, <3>2, Zenon DEF DbTypes
  <2>7. CallsHold'
    BY <1>1, <2>2 DEF DbInv, CallsHold
  <2> QED
    BY <1>1, <2>6, <2>7, Zenon DEF DbInv, CallTypes, RowsKept, RowsWhole
<1>3. CASE Db!Migrate
  <2>1. progress = 4 /\ progress' = 5
    BY <1>3 DEF Db!Migrate, Db!MigrateStep, Db!Ready, Db!Statements
  <2>2. /\ opened' \in {opened, opened + 1} /\ alive' \subseteq 1..opened'
        /\ settings' \in Seq(Pragmas) /\ Len(settings') = opened' /\ opened \in Nat
    <3>1. CASE \E k \in Db!Candidates : Db!Take(k) /\ settings' = Db!Taken(k)
      BY <3>1, TakeConnection, Zenon DEF DbInv, DbTypes
    <3>2. CASE UNCHANGED <<alive, opened, settings>>
      BY <3>2, Zenon DEF DbInv, DbTypes
    <3> QED
      BY <1>3, <3>1, <3>2, Zenon DEF Db!Migrate
  <2>3. DbTypes'
    <3>1. held \in [Clients \cup {"maintenance"} -> 0..opened'] /\ opened' \in Nat
      BY <2>2 DEF DbInv, DbTypes
    <3>2. progress' \in 0..5 /\ conf' \in Configs
      BY <1>1, <2>1 DEF DbInv, DbTypes
    <3> QED
      BY <1>1, <2>2, <3>1, <3>2, Zenon DEF DbTypes
  <2>4. CallsHold'
    BY <1>1, <2>1, Zenon DEF DbInv, CallsHold
  <2> QED
    BY <1>1, <2>3, <2>4, Zenon DEF DbInv, CallTypes, RowsKept, RowsWhole
<1>4. CASE Db!OpenFails
  <2>1. /\ progress \in 1..4 /\ progress' = 0 /\ alive' = {}
        /\ UNCHANGED <<opened, settings>>
    BY <1>4 DEF Db!OpenFails, Db!MigrateStep, Db!Failed, Db!Statements
  <2>2. DbTypes'
    BY <1>1, <2>1 DEF DbInv, DbTypes
  <2>3. CallsHold'
    BY <1>1, <2>1 DEF DbInv, CallsHold
  <2> QED
    BY <1>1, <2>2, <2>3, Zenon DEF DbInv, CallTypes, RowsKept, RowsWhole
<1> QED
  BY <1>2, <1>3, <1>4, Zenon

\* Steps that only give connections back.
QuietStep ==
  /\ UNCHANGED <<conf, progress, opened, settings, rows, call>>
  /\ alive' \subseteq alive
  /\ held' \in {held, [held EXCEPT !["maintenance"] = 0]}

\* The steps of the pool, the maintenance goroutine and Close that touch no row.
LEMMA QuietSteps ==
  ASSUME \/ Db!Expire \/ Db!Tick \/ Db!JobRun \/ Db!JobStop \/ Db!Cool
         \/ \E g \in DbClosers : Db!CloseStop(g) \/ Db!CloseDB(g)
         \/ UNCHANGED Db!vars
  PROVE  QuietStep
<1> USE DEF QuietStep
<1>1. CASE Db!Expire
  BY <1>1, Zenon DEF Db!Expire
<1>2. CASE Db!Tick \/ Db!JobStop \/ Db!Cool \/ \E g \in DbClosers : Db!CloseStop(g)
  BY <1>2, Zenon DEF Db!Tick, Db!JobStop, Db!Cool, Db!CloseStop, Db!pool
<1>3. CASE Db!JobRun
  BY <1>3, Zenon DEF Db!JobRun, Db!Released, Db!Maintenance
<1>4. CASE \E g \in DbClosers : Db!CloseDB(g)
  BY <1>4, Zenon DEF Db!CloseDB
<1>5. CASE UNCHANGED Db!vars
  BY <1>5, Zenon DEF Db!vars, Db!pool
<1> QED
  BY <1>1, <1>2, <1>3, <1>4, <1>5, Zenon

\* Such a step keeps the invariant.
LEMMA QuietKeepsDbInv ==
  ASSUME DbInv, QuietStep
  PROVE  DbInv'
<1>1. \A c \in Clients : held'[c] = held[c]
  BY ClientsAssumption, Zenon DEF DbInv, DbTypes, QuietStep
<1>2. DbTypes'
  BY DEF DbInv, DbTypes, QuietStep
<1>3. CallsHold'
  BY <1>1, Zenon DEF DbInv, CallsHold, QuietStep
<1> QED
  BY <1>2, <1>3, Zenon DEF DbInv, QuietStep, CallTypes, RowsKept, RowsWhole

\* A goroutine takes a connection on an engine that is open.
LEMMA TakeKeepsPool ==
  ASSUME DbInv, NEW k \in Db!Candidates, Db!Take(k), settings' = Db!Taken(k),
         NEW g \in Clients \cup {"maintenance"}, held' = [held EXCEPT ![g] = k],
         UNCHANGED <<conf, progress>>
  PROVE  DbTypes' /\ k # 0
<1>1. /\ opened' \in {opened, opened + 1} /\ k \in 1..opened' /\ alive' \subseteq 1..opened'
      /\ settings' \in Seq(Pragmas) /\ Len(settings') = opened' /\ opened \in Nat
      /\ \A j \in 1..opened : settings'[j] = settings[j]
  BY TakeConnection, Zenon DEF DbInv, DbTypes
<1>2. DbTypes'
  <2>1. held' \in [Clients \cup {"maintenance"} -> 0..opened']
    BY <1>1 DEF DbInv, DbTypes
  <2> QED
    BY <1>1, <2>1 DEF DbInv, DbTypes
<1> QED
  BY <1>1, <1>2

\* A maintenance job takes a connection no call holds.
LEMMA JobTakeKeepsDbInv ==
  ASSUME DbInv, Db!JobTake
  PROVE  DbInv'
<1>1. UNCHANGED <<conf, progress, rows, call>>
  BY Zenon DEF Db!JobTake
<1>2. CASE UNCHANGED Db!pool
  BY <1>1, <1>2, QuietKeepsDbInv, Zenon DEF Db!pool, QuietStep
<1>3. CASE \E k \in Db!Candidates : /\ Db!Take(k) /\ settings' = Db!Taken(k)
                                    /\ held' = [held EXCEPT !["maintenance"] = k]
  <2>1. DbTypes'
    BY <1>1, <1>3, TakeKeepsPool, Zenon
  <2>2. \A c \in Clients : held'[c] = held[c]
    BY <1>3, ClientsAssumption, Zenon DEF DbInv, DbTypes
  <2>3. CallsHold'
    BY <1>1, <2>2, Zenon DEF DbInv, CallsHold
  <2> QED
    BY <1>1, <2>1, <2>3, Zenon DEF DbInv, CallTypes, RowsKept, RowsWhole
<1> QED
  BY <1>2, <1>3, Zenon DEF Db!JobTake, Db!Maintenance

\* A call begins, and takes its connection.
LEMMA StartKeepsDbInv ==
  ASSUME DbInv, NEW c \in Clients, Db!Start(c)
  PROVE  DbInv'
<1>1. PICK kind \in {"save", "batch", "migrate"} :
        call' = [call EXCEPT ![c] = [at |-> "begin", kind |-> kind, n |-> 0,
                                     tries |-> @.tries + 1, res |-> "none"]]
  BY ConfigsAssumption, Zenon DEF Db!Start, DbInv, DbTypes
<1>2. /\ call[c].at = "idle" /\ call[c].res # "ok" /\ progress = 5
      /\ UNCHANGED <<conf, progress, alive, opened, settings, held, rows>>
  BY DEF Db!Start, Db!Ready, Db!Statements, Db!pool
<1>3. /\ call'[c].at = "begin" /\ call'[c].res = "none"
      /\ \A d \in Clients \ {c} : call'[d] = call[d]
  BY <1>1, Zenon DEF DbInv, CallTypes
<1>4. CallTypes'
  BY <1>1 DEF DbInv, CallTypes
<1>5. CallsHold'
  BY <1>2, <1>3 DEF DbInv, CallTypes, CallsHold
<1>6. RowsKept'
  BY <1>2, <1>3 DEF DbInv, RowsKept
<1> QED
  BY <1>2, <1>4, <1>5, <1>6, Zenon
  DEF DbInv, DbTypes, RowsWhole

\* A call returns.
LEMMA ReturnOfCall ==
  ASSUME CallTypes, NEW c \in Clients, NEW r \in {"ok", "error"}, Db!Return(c, r)
  PROVE  /\ CallTypes' /\ call'[c].at = "idle" /\ call'[c].res = r /\ call'[c].kind = call[c].kind
         /\ \A d \in Clients \ {c} : call'[d] = call[d]
<1> DEFINE C == [at : {"idle", "begin", "prepare", "exec", "commit"},
                 kind : {"save", "batch", "migrate"}, n : Nat, tries : Nat,
                 res : {"none", "ok", "error"}]
<1>1. call \in [Clients -> C]
  BY Zenon DEF CallTypes
<1>2. /\ call'[c] = [call[c] EXCEPT !.at = "idle", !.res = r]
      /\ \A d \in Clients \ {c} : call'[d] = call[d]
      /\ call' = [d \in Clients |-> call'[d]]
  BY <1>1, Zenon DEF Db!Return
<1>3. /\ call'[c] \in C /\ call'[c].at = "idle" /\ call'[c].res = r
      /\ call'[c].kind = call[c].kind
  <2>1. call[c] \in C
    BY <1>1, Zenon
  <2>2. call'[c].at = "idle" /\ call'[c].res = r /\ call'[c].kind = call[c].kind
    BY <1>2, <2>1, Zenon
  <2>3. call'[c] \in C
    BY <1>2, <2>1, Zenon
  <2> QED
    BY <2>2, <2>3, Zenon
<1> HIDE DEF C
<1>4. call' \in [Clients -> C]
  BY <1>1, <1>2, <1>3, Zenon
<1> QED
  BY <1>2, <1>3, <1>4, Zenon DEF CallTypes, C

\* A batch begins on a connection of its own, with nothing written.
LEMMA BeginKeepsDbInv ==
  ASSUME DbInv, NEW c \in Clients, Db!Begin(c)
  PROVE  DbInv'
<1>1. /\ call[c].at = "begin" /\ call[c].res = "none" /\ progress = 5 /\ held[c] = 0
      /\ UNCHANGED <<conf, progress, rows>>
  BY Zenon DEF Db!Begin, DbInv, CallsHold
<1>2. CASE Db!Return(c, "error") /\ UNCHANGED Db!pool
  <2>1. /\ call'[c].at = "idle" /\ call'[c].res = "error" /\ CallTypes'
        /\ \A d \in Clients \ {c} : call'[d] = call[d]
    BY <1>2, ReturnOfCall, Zenon DEF DbInv
  <2>2. CallsHold' /\ RowsKept'
    BY <1>1, <1>2, <2>1 DEF DbInv, CallsHold, RowsKept, Db!pool
  <2> QED
    BY <1>1, <1>2, <2>1, <2>2, Zenon
    DEF DbInv, DbTypes, RowsWhole, Db!pool
<1>3. CASE /\ \E k \in Db!Candidates : /\ Db!Take(k) /\ settings' = Db!Taken(k)
                                       /\ held' = [held EXCEPT ![c] = k]
           /\ \E l \in {"prepare", "exec"} : Db!At(c, l)
  <2>1. PICK k \in Db!Candidates : /\ Db!Take(k) /\ settings' = Db!Taken(k)
                                   /\ held' = [held EXCEPT ![c] = k]
    BY <1>3, Zenon
  <2>2. DbTypes' /\ k # 0
    BY <1>1, <2>1, TakeKeepsPool, Zenon
  <2>3. held'[c] = k /\ \A d \in Clients \ {c} : held'[d] = held[d]
    BY <2>1, Zenon DEF DbInv, DbTypes
  <2>4. /\ call'[c].at \in {"prepare", "exec"} /\ call'[c].res = "none" /\ CallTypes'
        /\ \A d \in Clients \ {c} : call'[d] = call[d]
    BY <1>1, <1>3 DEF Db!At, DbInv, CallTypes
  <2>5. CallsHold' /\ RowsKept'
    BY <1>1, <2>2, <2>3, <2>4 DEF DbInv, CallsHold, RowsKept
  <2> QED
    BY <1>1, <2>2, <2>4, <2>5, Zenon DEF DbInv, RowsWhole
<1> QED
  BY <1>2, <1>3, Zenon DEF Db!Begin

\* A call that gives its connection back.
LEMMA ReleaseKeeps ==
  ASSUME DbInv, NEW c \in Clients, NEW r \in {"ok", "error"},
         Db!Released(c), Db!Return(c, r), UNCHANGED <<conf, progress>>
  PROVE  DbTypes' /\ CallTypes' /\ CallsHold'
<1>1. /\ CallTypes' /\ call'[c].at = "idle" /\ \A d \in Clients \ {c} : call'[d] = call[d]
  BY ReturnOfCall, Zenon DEF DbInv
<1>2. /\ UNCHANGED <<opened, settings>> /\ alive' \subseteq alive
      /\ held' = [held EXCEPT ![c] = 0]
  BY Zenon DEF Db!Released
<1>3. held'[c] = 0 /\ \A d \in Clients \ {c} : held'[d] = held[d]
  BY <1>2, Zenon DEF DbInv, DbTypes
<1>4. DbTypes'
  BY <1>2 DEF DbInv, DbTypes
<1>5. CallsHold'
  BY <1>1, <1>3, ZenonT(60) DEF DbInv, CallsHold
<1> QED
  BY <1>1, <1>4, <1>5, Zenon

\* An error: the client has no rows, before and after.
LEMMA RollbackKeepsDbInv ==
  ASSUME DbInv, NEW c \in Clients, call[c].at # "idle", Db!Rollback(c),
         UNCHANGED <<conf, progress>>
  PROVE  DbInv'
<1>1. Db!Released(c) /\ Db!Return(c, "error") /\ UNCHANGED rows
  BY Zenon DEF Db!Rollback
<1>2. DbTypes' /\ CallTypes' /\ CallsHold'
  BY <1>1, ReleaseKeeps, Zenon
<1>3. call'[c].res = "error" /\ \A d \in Clients \ {c} : call'[d] = call[d]
  BY <1>1, ReturnOfCall, Zenon DEF DbInv
<1>4. call[c].res = "none"
  BY Zenon DEF DbInv, CallsHold
<1>5. RowsKept'
  BY <1>1, <1>3, <1>4 DEF DbInv, RowsKept
<1> QED
  BY <1>1, <1>2, <1>5, Zenon DEF DbInv, RowsWhole

\* Preparing the statement, or giving up.
LEMMA PrepareKeepsDbInv ==
  ASSUME DbInv, NEW c \in Clients, Db!Prepare(c)
  PROVE  DbInv'
<1>1. call[c].at = "prepare" /\ call[c].res = "none" /\ progress = 5 /\ held[c] # 0
  BY Zenon DEF Db!Prepare, DbInv, CallsHold
<1>2. UNCHANGED <<conf, progress>>
  BY Zenon DEF Db!Prepare
<1>3. CASE Db!At(c, "exec") /\ UNCHANGED <<Db!pool, writers, rows>>
  <2>1. /\ CallTypes' /\ call'[c].at = "exec" /\ call'[c].res = "none"
        /\ \A d \in Clients \ {c} : call'[d] = call[d]
    BY <1>1, <1>3, ZenonT(60) DEF Db!At, DbInv, CallTypes
  <2>2. UNCHANGED <<alive, opened, settings, held, rows>>
    BY <1>3, Zenon DEF Db!pool
  <2>3. CallsHold' /\ RowsKept'
    BY <1>1, <1>2, <2>1, <2>2 DEF DbInv, CallsHold, RowsKept
  <2>4. DbTypes' /\ RowsWhole'
    BY <1>2, <2>2, Zenon DEF DbInv, DbTypes, RowsWhole
  <2> QED
    BY <2>1, <2>3, <2>4, Zenon DEF DbInv
<1>4. CASE Db!Rollback(c)
  BY <1>1, <1>2, <1>4, RollbackKeepsDbInv, Zenon
<1> QED
  BY <1>3, <1>4, Zenon DEF Db!Prepare

\* An entity is written, or the call ends.
LEMMA ExecKeepsDbInv ==
  ASSUME DbInv, NEW c \in Clients, Db!Exec(c)
  PROVE  DbInv'
<1>1. call[c].at = "exec" /\ call[c].res = "none" /\ progress = 5 /\ held[c] # 0
  BY Zenon DEF Db!Exec, DbInv, CallsHold
<1>2. UNCHANGED <<conf, progress>>
  BY Zenon DEF Db!Exec
<1>3. CASE Db!Rollback(c)
  BY <1>1, <1>2, <1>3, RollbackKeepsDbInv, Zenon
<1>4. CASE /\ rows' = rows \cup {<<Db!Db(held[c]), c, 0>>} /\ call[c].kind = "save"
           /\ Db!Released(c) /\ Db!Return(c, "ok")
  <2>1. DbTypes' /\ CallTypes' /\ CallsHold'
    BY <1>2, <1>4, ReleaseKeeps, Zenon
  <2>2. /\ call'[c].res = "ok" /\ call'[c].kind # "migrate"
        /\ \A d \in Clients \ {c} : call'[d] = call[d]
    BY <1>4, ReturnOfCall, Zenon DEF DbInv
  <2>3. RowsKept'
    <3>1. \E r \in rows' : r[2] = c
      <4>1. <<Db!Db(held[c]), c, 0>> \in rows' /\ <<Db!Db(held[c]), c, 0>>[2] = c
        BY <1>4, Zenon
      <4> QED
        BY <4>1, Zenon
    <3>2. \A d \in Clients \ {c} : (\E r \in rows' : r[2] = d) <=> (\E r \in rows : r[2] = d)
      BY <1>4
    <3>3. ASSUME NEW d \in Clients \ {c}
          PROVE  (call'[d].res = "ok" /\ call'[d].kind # "migrate") <=>
                   \E r \in rows' : r[2] = d
      BY <2>2, <3>2, Zenon DEF DbInv, RowsKept
    <3> QED
      BY <2>2, <3>1, <3>3, Zenon DEF RowsKept
  <2>4. RowsWhole'
    <3>1. \A d \in Clients, k \in Nat, i \in 1..BatchLen :
            <<k, d, i>> \in rows' <=> <<k, d, i>> \in rows
      BY <1>4, BatchLenAssumption
    <3> QED
      BY <3>1, Zenon DEF DbInv, RowsWhole
  <2> QED
    BY <2>1, <2>3, <2>4, Zenon DEF DbInv
<1>5. CASE /\ call' = [call EXCEPT ![c].n = @ + 1,
                                   ![c].at = IF call[c].n + 1 = BatchLen THEN "commit" ELSE "exec"]
           /\ UNCHANGED <<Db!pool, rows>>
  <2> DEFINE l == IF call[c].n + 1 = BatchLen THEN "commit" ELSE "exec"
  <2>1. l \in {"commit", "exec"} /\ call[c].n + 1 \in Nat
    BY DEF DbInv, CallTypes
  <2> HIDE DEF l
  <2>2. /\ call'[c] = [call[c] EXCEPT !.n = call[c].n + 1, !.at = l]
        /\ \A d \in Clients \ {c} : call'[d] = call[d]
        /\ call' = [d \in Clients |-> call'[d]]
    BY <1>5, Zenon DEF DbInv, CallTypes, l
  <2>3. /\ CallTypes' /\ call'[c].at \in {"commit", "exec"} /\ call'[c].res = "none"
        /\ \A d \in Clients \ {c} : call'[d] = call[d]
    <3> DEFINE C == [at : {"idle", "begin", "prepare", "exec", "commit"},
                     kind : {"save", "batch", "migrate"}, n : Nat, tries : Nat,
                     res : {"none", "ok", "error"}]
    <3>1. call[c] \in C /\ \A d \in Clients : call[d] \in C
      BY Zenon DEF DbInv, CallTypes
    <3>2. call'[c] \in C /\ call'[c].at = l /\ call'[c].res = "none"
      BY <1>1, <2>1, <2>2, <3>1, Zenon
    <3> HIDE DEF C
    <3>3. call' \in [Clients -> C]
      BY <2>2, <3>1, <3>2, Zenon
    <3> QED
      BY <2>1, <2>2, <3>2, <3>3, Zenon DEF CallTypes, C
  <2>4. UNCHANGED <<alive, opened, settings, held, rows>>
    BY <1>5, Zenon DEF Db!pool
  <2>5. CallsHold' /\ RowsKept'
    BY <1>1, <1>2, <2>3, <2>4 DEF DbInv, CallsHold, RowsKept
  <2>6. DbTypes' /\ RowsWhole'
    BY <1>2, <2>4, Zenon DEF DbInv, DbTypes, RowsWhole
  <2> QED
    BY <2>3, <2>5, <2>6, Zenon DEF DbInv
<1> QED
  BY <1>3, <1>4, <1>5, Zenon DEF Db!Exec

\* The batch is committed whole, or rolled back.
LEMMA CommitKeepsDbInv ==
  ASSUME DbInv, NEW c \in Clients, Db!Commit(c)
  PROVE  DbInv'
<1>1. call[c].at = "commit" /\ call[c].res = "none"
  BY Zenon DEF Db!Commit, DbInv, CallsHold
<1>2. UNCHANGED <<conf, progress>>
  BY Zenon DEF Db!Commit
<1>3. CASE Db!Rollback(c)
  BY <1>1, <1>2, <1>3, RollbackKeepsDbInv, Zenon
<1>4. CASE /\ rows' = rows \cup {<<Db!Db(held[c]), c, i>> : i \in 1..BatchLen}
           /\ call[c].kind = "batch"
           /\ Db!Released(c) /\ Db!Return(c, "ok")
  <2>1. DbTypes' /\ CallTypes' /\ CallsHold'
    BY <1>2, <1>4, ReleaseKeeps, Zenon
  <2>2. /\ call'[c].res = "ok" /\ call'[c].kind # "migrate"
        /\ \A d \in Clients \ {c} : call'[d] = call[d]
    BY <1>4, ReturnOfCall, Zenon DEF DbInv
  <2>3. RowsKept'
    <3>1. \E r \in rows' : r[2] = c
      <4>1. <<Db!Db(held[c]), c, 1>> \in rows' /\ <<Db!Db(held[c]), c, 1>>[2] = c
        BY <1>4, BatchLenAssumption
      <4> QED
        BY <4>1, Zenon
    <3>2. \A d \in Clients \ {c} : (\E r \in rows' : r[2] = d) <=> (\E r \in rows : r[2] = d)
      BY <1>4
    <3>3. ASSUME NEW d \in Clients \ {c}
          PROVE  (call'[d].res = "ok" /\ call'[d].kind # "migrate") <=>
                   \E r \in rows' : r[2] = d
      BY <2>2, <3>2, Zenon DEF DbInv, RowsKept
    <3> QED
      BY <2>2, <3>1, <3>3, Zenon DEF RowsKept
  <2>4. RowsWhole'
    <3> SUFFICES ASSUME NEW d \in Clients, NEW k \in Nat
                 PROVE  \/ \A i \in 1..BatchLen : <<k, d, i>> \in rows'
                        \/ \A i \in 1..BatchLen : <<k, d, i>> \notin rows'
      BY Zenon DEF RowsWhole
    <3>1. CASE d = c /\ k = Db!Db(held[c])
      BY <1>4, <3>1, Zenon
    <3>2. CASE ~(d = c /\ k = Db!Db(held[c]))
      <4>1. \A i \in 1..BatchLen : <<k, d, i>> \in rows' <=> <<k, d, i>> \in rows
        BY <1>4, <3>2, Zenon
      <4> QED
        BY <4>1, Zenon DEF DbInv, RowsWhole
    <3> QED
      BY <3>1, <3>2, Zenon
  <2> QED
    BY <2>1, <2>3, <2>4, Zenon DEF DbInv
<1>5. CASE /\ call[c].kind = "migrate" /\ UNCHANGED rows
           /\ Db!Released(c) /\ Db!Return(c, "ok")
  <2>1. DbTypes' /\ CallTypes' /\ CallsHold'
    BY <1>2, <1>5, ReleaseKeeps, Zenon
  <2>2. call'[c].kind = "migrate" /\ \A d \in Clients \ {c} : call'[d] = call[d]
    BY <1>5, ReturnOfCall, Zenon DEF DbInv
  <2>3. RowsKept'
    BY <1>1, <1>5, <2>2 DEF DbInv, RowsKept
  <2> QED
    BY <1>5, <2>1, <2>3, Zenon DEF DbInv, RowsWhole
<1> QED
  BY <1>3, <1>4, <1>5, Zenon DEF Db!Commit

\* The inductive invariant.
LEMMA DbInvHolds == Db!Spec => []DbInv
<1>1. ASSUME Db!Init PROVE DbInv
  <2>1. /\ progress = 1 /\ alive = {} /\ opened = 0 /\ settings = <<>> /\ rows = {}
        /\ held = [g \in Clients \cup {"maintenance"} |-> 0] /\ conf \in Configs
    BY <1>1, Zenon DEF Db!Init, Db!Goroutines, Db!Maintenance
  <2>2. DbTypes
    BY <2>1 DEF DbTypes
  <2>3. CallTypes /\ \A c \in Clients : call[c].at = "idle" /\ call[c].res = "none"
    BY <1>1, Zenon DEF Db!Init, CallTypes
  <2>4. CallsHold /\ RowsKept /\ RowsWhole
    BY <2>1, <2>3, Zenon DEF CallsHold, RowsKept, RowsWhole
  <2> QED
    BY <2>2, <2>3, <2>4, Zenon DEF DbInv
<1>2. DbInv /\ [Db!Next]_(Db!vars) => DbInv'
  <2> SUFFICES ASSUME DbInv, [Db!Next]_(Db!vars) PROVE DbInv'
    BY Zenon
  <2>1. CASE Db!Pragma \/ Db!Migrate \/ Db!OpenFails
    BY <2>1, OpenKeepsDbInv, Zenon
  <2>2. CASE \E c \in Clients : Db!Start(c) \/ Db!Client(c)
    BY <2>2, StartKeepsDbInv, BeginKeepsDbInv, PrepareKeepsDbInv, ExecKeepsDbInv,
       CommitKeepsDbInv, Zenon DEF Db!Client
  <2>3. CASE Db!JobTake
    BY <2>3, JobTakeKeepsDbInv, Zenon
  <2>4. CASE \/ Db!Expire \/ Db!Tick \/ Db!JobRun \/ Db!JobStop \/ Db!Cool
             \/ \E g \in DbClosers : Db!CloseStop(g) \/ Db!CloseDB(g)
             \/ UNCHANGED Db!vars
    BY <2>4, QuietSteps, QuietKeepsDbInv, Zenon
  <2> QED
    BY <2>1, <2>2, <2>3, <2>4, Zenon DEF Db!Next, Db!Job
<1> QED
  BY <1>1, <1>2, PTL DEF Db!Spec

\* Whatever fails, and however the batches of any number of clients,
\* maintenance and Close interleave, a batch is stored whole or not at all, and
\* SaveBatch returns nil exactly when it is stored.
THEOREM BatchAtomicHolds == EngineSpec => []BatchAtomic
<1>1. DbInv => BatchAtomic
  <2> SUFFICES ASSUME DbInv, NEW c \in Clients
               PROVE  /\ \A k \in 0..opened :
                           {i \in 1..BatchLen : <<k, c, i>> \in rows} \in {{}, 1..BatchLen}
                      /\ call[c].at = "idle" =>
                           /\ held[c] = 0
                           /\ (call[c].res = "ok" /\ call[c].kind # "migrate") <=>
                                \E r \in rows : r[2] = c
    BY Zenon DEF BatchAtomic, Db!BatchAtomic
  <2>1. ASSUME NEW k \in 0..opened
        PROVE  {i \in 1..BatchLen : <<k, c, i>> \in rows} \in {{}, 1..BatchLen}
    <3>1. k \in Nat
      BY DEF DbInv, DbTypes
    <3> QED
      BY <3>1, Zenon DEF DbInv, RowsWhole
  <2> QED
    BY <2>1, Zenon DEF DbInv, CallsHold, RowsKept
<1> QED
  BY <1>1, DbRuns, DbInvHolds, PTL

-----------------------------------------------------------------------------
(* DatabaseEngine: what Open prepared *)

INSTANCE FiniteSetTheorems

\* A pool of one connection that was never dropped.
Lone == conf.conns = 1 /\ expired = 0

\* The pool is closed by an Open that fails or after an Open that succeeds.
OpenFirst ==
  /\ closing \in [DbClosers -> {"idle", "db", "end", "panic"}]
  /\ \A g \in DbClosers : closing[g] # "idle" => progress = 5
  /\ dbClosed => progress \in {0, 5}
  /\ expired \in Nat

\* Its only connection is the one on which Open executed its statements.
LonePool ==
  Lone => /\ opened <= 1
          /\ opened = 1 /\ ~dbClosed => alive = {1}
          /\ progress \in {4, 5} => opened = 1 /\ "foreign_keys" \in settings[1]

\* Tables are made in the database of that connection, or in the file.
Tables ==
  /\ Lone => schema \subseteq {Db!Db(1)} /\ ~unchecked /\ ~missing
  /\ ~conf.memory => schema \subseteq {0} /\ ~missing

LoneInv == OpenFirst /\ LonePool /\ Tables

\* Until the pool is closed, every statement gets the first connection.
LEMMA LoneTakes ==
  ASSUME DbTypes, LonePool, Lone, ~dbClosed, NEW k \in Db!Candidates, Db!Take(k)
  PROVE  /\ k = 1 /\ opened' = 1 /\ alive' = {1}
         /\ opened = 1 => Db!Taken(k)[1] = settings[1]
<1>1. opened \in {0, 1} /\ alive \subseteq 1..opened /\ (opened = 1 => alive = {1})
  BY DEF DbTypes, LonePool
<1>2. CASE opened = 0
  <2>1. alive = {}
    BY <1>1, <1>2
  <2>2. k \notin Db!Idle
    BY <2>1, Zenon DEF Db!Idle
  <2>3. k = opened + 1 /\ alive' = alive \cup {k} /\ opened' = k
    BY <2>2, Zenon DEF Db!Take
  <2> QED
    BY <1>2, <2>1, <2>3
<1>3. CASE opened = 1
  <2>1. alive = {1} /\ Db!Cardinality({1}) = 1
    <3>1. Cardinality({1}) = 1 /\ Db!Cardinality({1}) = Cardinality({1})
      BY FS_Singleton, Zenon DEF Cardinality, Db!Cardinality
    <3> QED
      BY <1>1, <1>3, <3>1, Zenon
  <2>2. ~(Db!Cardinality(alive) < conf.conns)
    BY <2>1 DEF Lone
  <2>3. k \in Db!Idle /\ UNCHANGED <<alive, opened>>
    BY <2>2, Zenon DEF Db!Take
  <2>4. k \in alive
    BY <2>3, Zenon DEF Db!Idle
  <2> QED
    BY <1>3, <2>1, <2>3, <2>4, Zenon DEF Db!Taken
<1> QED
  BY <1>1, <1>2, <1>3, Zenon

\* A step that opens, closes and prepares no connection keeps the pool.
LEMMA SamePool ==
  ASSUME LoneInv, UNCHANGED <<conf, progress, opened, settings, dbClosed, closing, expired>>,
         dbClosed \/ UNCHANGED alive
  PROVE  OpenFirst' /\ LonePool'
<1>1. OpenFirst'
  BY Zenon DEF LoneInv, OpenFirst
<1>2. LonePool'
  BY Zenon DEF LoneInv, LonePool, Lone
<1> QED
  BY <1>1, <1>2, Zenon

\* So does a goroutine that takes a connection, with the connection it gets.
LEMMA TakingKeepsLone ==
  ASSUME DbInv, LoneInv, ~dbClosed, NEW k \in Db!Candidates, Db!Take(k),
         settings' = Db!Taken(k), UNCHANGED <<conf, progress, dbClosed, closing, expired>>
  PROVE  OpenFirst' /\ LonePool'
<1>1. OpenFirst'
  BY Zenon DEF LoneInv, OpenFirst
<1>2. ASSUME Lone
      PROVE  /\ opened' = 1 /\ alive' = {1}
             /\ progress \in {4, 5} => "foreign_keys" \in settings'[1]
  BY <1>2, LoneTakes, Zenon DEF DbInv, LoneInv, LonePool
<1>3. Lone' <=> Lone
  BY Zenon DEF Lone
<1>4. LonePool'
  BY <1>2, <1>3 DEF LonePool
<1> QED
  BY <1>1, <1>4, Zenon

\* A step that makes no table and stores no row keeps the tables.
LEMMA SameTables ==
  ASSUME Tables, UNCHANGED <<conf, expired, schema, unchecked, missing>>
  PROVE  Tables'
BY Zenon DEF Tables, Lone, Db!Db

\* Making the tables on connection k.
LEMMA AddedTables ==
  ASSUME Tables, NEW k, Lone => k = 1, schema' = schema \cup {Db!Db(k)},
         UNCHANGED <<conf, expired, unchecked, missing>>
  PROVE  Tables'
<1>1. (Lone' <=> Lone) /\ Db!Db(1)' = Db!Db(1)
  BY Zenon DEF Lone, Db!Db
<1>2. ~conf.memory => Db!Db(k) = 0
  BY Zenon DEF Db!Db
<1> QED
  BY <1>1, <1>2, Zenon DEF Tables

\* A call runs on the connection that Open prepared.
LEMMA CallOnPrepared ==
  ASSUME DbInv, LoneInv, Lone, NEW c \in Clients, call[c].at \in {"prepare", "exec", "commit"}
  PROVE  held[c] = 1 /\ "foreign_keys" \in settings[1]
<1>1. progress = 5 /\ held[c] # 0 /\ held[c] \in 0..opened
  BY Zenon DEF DbInv, CallsHold, DbTypes
<1>2. opened = 1 /\ "foreign_keys" \in settings[1]
  BY <1>1, Zenon DEF LoneInv, LonePool
<1> QED
  BY <1>1, <1>2

\* The steps of Open.
LEMMA OpenKeepsLoneInv ==
  ASSUME DbInv, LoneInv, Db!Pragma \/ Db!Migrate \/ Db!OpenFails
  PROVE  LoneInv'
<1>1. UNCHANGED <<conf, expired, closing, unchecked, missing>> /\ (Lone' <=> Lone)
  BY Zenon DEF Db!Pragma, Db!Migrate, Db!OpenFails, Db!seen, Lone
<1>2. progress \in 1..4
  BY DEF Db!Pragma, Db!Migrate, Db!OpenFails, Db!MigrateStep, Db!Statements
<1>3. /\ ~dbClosed /\ \A g \in DbClosers : closing[g] = "idle"
  BY <1>2 DEF LoneInv, OpenFirst
<1>4. CASE Db!Pragma
  <2>1. PICK k \in Db!Candidates :
          /\ Db!Take(k)
          /\ settings' = [Db!Taken(k) EXCEPT ![k] = @ \cup {Db!Statements[progress]}]
    BY <1>4, Zenon DEF Db!Pragma
  <2>2. /\ progress \in 1..3 /\ progress' = progress + 1 /\ UNCHANGED <<schema, dbClosed>>
        /\ progress = 3 => Db!Statements[progress] = "foreign_keys"
    BY <1>4 DEF Db!Pragma, Db!Statements
  <2>3. OpenFirst'
    BY <1>1, <1>3, <2>2 DEF LoneInv, OpenFirst
  <2>4. ASSUME Lone
        PROVE  /\ opened' = 1 /\ alive' = {1}
               /\ progress' \in {4, 5} => "foreign_keys" \in settings'[1]
    <3>1. k = 1 /\ opened' = 1 /\ alive' = {1}
      BY <1>3, <2>1, <2>4, LoneTakes, Zenon DEF DbInv, LoneInv
    <3>2. Db!Taken(k) \in Seq(Pragmas) /\ Len(Db!Taken(k)) = 1
      BY <2>1, <3>1, TakeConnection, Zenon DEF DbInv
    <3>3. 1 \in DOMAIN Db!Taken(k)
      BY <3>2
    <3>4. settings'[1] = Db!Taken(k)[1] \cup {Db!Statements[progress]}
      BY <2>1, <3>1, <3>3, Zenon
    <3>5. progress' \in {4, 5} => progress = 3
      BY <2>2
    <3> QED
      BY <2>2, <3>1, <3>4, <3>5, Zenon
  <2>5. LonePool'
    BY <1>1, <2>4 DEF LonePool
  <2>6. Tables'
    BY <1>1, <2>2, SameTables, Zenon DEF LoneInv
  <2> QED
    BY <2>3, <2>5, <2>6, Zenon DEF LoneInv
<1>5. CASE Db!Migrate
  <2>1. progress = 4 /\ progress' = 5 /\ UNCHANGED dbClosed
    BY <1>5 DEF Db!Migrate, Db!MigrateStep, Db!Ready, Db!Statements
  <2>2. OpenFirst'
    BY <1>1, <1>3, <2>1, Zenon DEF LoneInv, OpenFirst
  <2>3. CASE \E k \in Db!Candidates : /\ Db!Take(k) /\ settings' = Db!Taken(k)
                                      /\ schema' = schema \cup {Db!Db(k)}
    <3>1. PICK k \in Db!Candidates : /\ Db!Take(k) /\ settings' = Db!Taken(k)
                                     /\ schema' = schema \cup {Db!Db(k)}
      BY <2>3, Zenon
    <3>2. ASSUME Lone
          PROVE  k = 1 /\ opened' = 1 /\ alive' = {1} /\ "foreign_keys" \in settings'[1]
      BY <1>3, <2>1, <3>1, <3>2, LoneTakes, Zenon DEF DbInv, LoneInv, LonePool
    <3>3. LonePool'
      BY <1>1, <3>2 DEF LonePool
    <3>4. Tables'
      BY <1>1, <3>1, <3>2, AddedTables, Zenon DEF LoneInv
    <3> QED
      BY <2>2, <3>3, <3>4, Zenon DEF LoneInv
  <2>4. CASE UNCHANGED <<schema, alive, opened, settings>>
    <3>1. LonePool'
      BY <1>1, <2>1, <2>4, Zenon DEF LoneInv, LonePool
    <3>2. Tables'
      BY <1>1, <2>4, SameTables, Zenon DEF LoneInv
    <3> QED
      BY <2>2, <3>1, <3>2, Zenon DEF LoneInv
  <2> QED
    BY <1>5, <2>3, <2>4, Zenon DEF Db!Migrate
<1>6. CASE Db!OpenFails
  <2>1. progress' = 0 /\ dbClosed' /\ UNCHANGED <<schema, opened, settings>>
    BY <1>6, Zenon DEF Db!OpenFails, Db!Failed
  <2>2. OpenFirst'
    BY <1>1, <1>3, <2>1, Zenon DEF LoneInv, OpenFirst
  <2>3. LonePool'
    BY <1>1, <2>1 DEF LoneInv, LonePool
  <2>4. Tables'
    BY <1>1, <2>1, SameTables, Zenon DEF LoneInv
  <2> QED
    BY <2>2, <2>3, <2>4, Zenon DEF LoneInv
<1> QED
  BY <1>4, <1>5, <1>6, Zenon

\* A goroutine that takes a connection, a call that begins.
LEMMA TakersKeepLoneInv ==
  ASSUME DbInv, LoneInv,
         Db!JobTake \/ \E c \in Clients : Db!Start(c) \/ Db!Begin(c)
  PROVE  LoneInv'
<1>1. UNCHANGED <<conf, progress, dbClosed, closing, expired, schema, unchecked, missing>>
  BY Zenon DEF Db!Start, Db!Begin, Db!JobTake, Db!seen
<1>2. Tables'
  BY <1>1, SameTables, Zenon DEF LoneInv
<1>3. CASE UNCHANGED Db!pool
  BY <1>1, <1>2, <1>3, SamePool, Zenon DEF Db!pool, LoneInv
<1>4. CASE ~dbClosed /\ \E k \in Db!Candidates : Db!Take(k) /\ settings' = Db!Taken(k)
  BY <1>1, <1>2, <1>4, TakingKeepsLone, Zenon DEF LoneInv
<1> QED
  BY <1>3, <1>4, Zenon DEF Db!Start, Db!Begin, Db!JobTake

\* A statement or the end of a transaction leaves the pool as it is, unless the
\* pool is closed.
LEMMA ReleaseKeepsPool ==
  ASSUME NEW g, Db!Released(g)
  PROVE  (dbClosed \/ UNCHANGED alive) /\ UNCHANGED <<opened, settings>>
BY Zenon DEF Db!Released

\* Preparing: the tables are found if they were made.
LEMMA PrepareKeepsLoneInv ==
  ASSUME DbInv, LoneInv, NEW c \in Clients, Db!Prepare(c)
  PROVE  LoneInv'
<1>1. /\ call[c].at = "prepare"
      /\ UNCHANGED <<conf, progress, dbClosed, closing, expired, schema, unchecked>>
      /\ missing' = (missing \/ (schema # {} /\ Db!Db(held[c]) \notin schema))
  BY Zenon DEF Db!Prepare
<1>2. OpenFirst' /\ LonePool'
  <2>1. CASE UNCHANGED Db!pool
    BY <1>1, <2>1, SamePool, Zenon DEF Db!pool
  <2>2. CASE Db!Released(c)
    BY <1>1, <2>2, ReleaseKeepsPool, SamePool, Zenon
  <2> QED
    BY <2>1, <2>2, Zenon DEF Db!Prepare, Db!Rollback
<1>3. (Lone' <=> Lone) /\ Db!Db(1)' = Db!Db(1)
  BY <1>1, Zenon DEF Lone, Db!Db
<1>4. ASSUME Lone PROVE ~missing'
  <2>1. held[c] = 1
    BY <1>1, <1>4, CallOnPrepared, Zenon
  <2> QED
    BY <1>1, <1>4, <2>1, Zenon DEF LoneInv, Tables
<1>5. ASSUME ~conf.memory PROVE ~missing'
  <2>1. Db!Db(held[c]) = 0
    BY <1>5, Zenon DEF Db!Db
  <2> QED
    BY <1>1, <1>5, <2>1, Zenon DEF LoneInv, Tables
<1>6. Tables'
  BY <1>1, <1>3, <1>4, <1>5, Zenon DEF LoneInv, Tables
<1> QED
  BY <1>2, <1>6, Zenon DEF LoneInv

\* Storing a row: its foreign keys are checked.
LEMMA StoresKeepsTables ==
  ASSUME DbInv, LoneInv, NEW c \in Clients, call[c].at \in {"exec", "commit"}, Db!Stores(c),
         UNCHANGED <<conf, expired, schema, missing>>
  PROVE  Tables'
<1>1. (Lone' <=> Lone) /\ Db!Db(1)' = Db!Db(1)
  BY Zenon DEF Lone, Db!Db
<1>2. ASSUME Lone PROVE ~unchecked'
  <2>1. held[c] = 1 /\ "foreign_keys" \in settings[1]
    BY <1>2, CallOnPrepared, Zenon
  <2> QED
    BY <1>2, <2>1, Zenon DEF Db!Stores, LoneInv, Tables
<1> QED
  BY <1>1, <1>2, Zenon DEF LoneInv, Tables

\* Executing a statement.
LEMMA ExecKeepsLoneInv ==
  ASSUME DbInv, LoneInv, NEW c \in Clients, Db!Exec(c)
  PROVE  LoneInv'
<1>1. /\ call[c].at = "exec"
      /\ UNCHANGED <<conf, progress, dbClosed, closing, expired, schema, missing>>
  BY Zenon DEF Db!Exec
<1>2. OpenFirst' /\ LonePool'
  <2>1. CASE UNCHANGED Db!pool
    BY <1>1, <2>1, SamePool, Zenon DEF Db!pool
  <2>2. CASE Db!Released(c)
    BY <1>1, <2>2, ReleaseKeepsPool, SamePool, Zenon
  <2> QED
    BY <2>1, <2>2, Zenon DEF Db!Exec, Db!Rollback
<1>3. Tables'
  <2>1. CASE UNCHANGED unchecked
    BY <1>1, <2>1, SameTables, Zenon DEF LoneInv
  <2>2. CASE Db!Stores(c)
    BY <1>1, <2>2, StoresKeepsTables, Zenon
  <2> QED
    BY <2>1, <2>2, Zenon DEF Db!Exec
<1> QED
  BY <1>2, <1>3, Zenon DEF LoneInv

\* Committing rows or tables.
LEMMA CommitKeepsLoneInv ==
  ASSUME DbInv, LoneInv, NEW c \in Clients, Db!Commit(c)
  PROVE  LoneInv'
<1>1. /\ call[c].at = "commit" /\ Db!Released(c)
      /\ UNCHANGED <<conf, progress, dbClosed, closing, expired, missing>>
  BY Zenon DEF Db!Commit, Db!Rollback
<1>2. OpenFirst' /\ LonePool'
  BY <1>1, ReleaseKeepsPool, SamePool, Zenon
<1>3. Tables'
  <2>1. CASE UNCHANGED <<schema, unchecked>>
    BY <1>1, <2>1, SameTables, Zenon DEF LoneInv
  <2>2. CASE UNCHANGED schema /\ Db!Stores(c)
    BY <1>1, <2>2, StoresKeepsTables, Zenon
  <2>3. CASE schema' = schema \cup {Db!Db(held[c])} /\ UNCHANGED unchecked
    <3>1. Lone => held[c] = 1
      BY <1>1, CallOnPrepared, Zenon
    <3> QED
      BY <1>1, <2>3, <3>1, AddedTables, Zenon DEF LoneInv
  <2> QED
    BY <2>1, <2>2, <2>3, Zenon DEF Db!Commit
<1> QED
  BY <1>2, <1>3, Zenon DEF LoneInv

\* The pool, the maintenance goroutine and Close.
LEMMA OthersKeepLoneInv ==
  ASSUME LoneInv,
         \/ Db!Expire \/ Db!Tick \/ Db!JobRun \/ Db!JobStop \/ Db!Cool
         \/ \E g \in DbClosers : Db!CloseStop(g) \/ Db!CloseDB(g)
         \/ UNCHANGED Db!vars
  PROVE  LoneInv'
<1>1. CASE Db!Expire
  <2>1. /\ expired' = expired + 1
        /\ UNCHANGED <<conf, progress, dbClosed, closing, schema, unchecked, missing>>
    BY <1>1, Zenon DEF Db!Expire, Db!seen
  <2>2. expired' \in Nat /\ expired' # 0
    BY <2>1 DEF LoneInv, OpenFirst
  <2>3. OpenFirst'
    BY <2>1, <2>2, Zenon DEF LoneInv, OpenFirst
  <2>4. ~Lone'
    BY <2>2, Zenon DEF Lone
  <2> QED
    BY <2>1, <2>3, <2>4, Zenon DEF LoneInv, LonePool, Tables
<1>2. CASE Db!Tick \/ Db!JobStop \/ Db!Cool \/ UNCHANGED Db!vars
  <2>1. UNCHANGED <<conf, progress, alive, opened, settings, dbClosed, closing, expired,
                    schema, unchecked, missing>>
    BY <1>2, Zenon DEF Db!Tick, Db!JobStop, Db!Cool, Db!vars, Db!pool, Db!seen
  <2> QED
    BY <2>1, SamePool, SameTables, Zenon DEF LoneInv
<1>3. CASE Db!JobRun
  <2>1. /\ Db!Released("maintenance")
        /\ UNCHANGED <<conf, progress, dbClosed, closing, expired, schema, unchecked, missing>>
    BY <1>3, Zenon DEF Db!JobRun, Db!Maintenance, Db!seen
  <2> QED
    BY <2>1, ReleaseKeepsPool, SamePool, SameTables, Zenon DEF LoneInv
<1>4. ASSUME NEW g \in DbClosers, Db!CloseStop(g) \/ Db!CloseDB(g)
      PROVE  LoneInv'
  <2>1. /\ UNCHANGED <<conf, progress, opened, settings, expired, schema, unchecked, missing>>
        /\ (UNCHANGED <<alive, dbClosed>>) \/ dbClosed'
    BY <1>4, Zenon DEF Db!CloseStop, Db!CloseDB, Db!pool, Db!seen
  <2>2. progress = 5
    <3>1. CASE Db!CloseStop(g)
      BY <3>1 DEF Db!CloseStop, Db!Ready, Db!Statements
    <3>2. CASE Db!CloseDB(g)
      BY <3>2 DEF Db!CloseDB, LoneInv, OpenFirst
    <3> QED
      BY <1>4, <3>1, <3>2, Zenon
  <2>3. \E v \in {"db", "end", "panic"} : closing' = [closing EXCEPT ![g] = v]
    BY <1>4, Zenon DEF Db!CloseStop, Db!CloseDB
  <2>4. OpenFirst'
    BY <2>1, <2>2, <2>3, Zenon DEF LoneInv, OpenFirst
  <2>5. LonePool'
    BY <2>1, Zenon DEF LoneInv, LonePool, Lone
  <2>6. Tables'
    BY <2>1, SameTables, Zenon DEF LoneInv
  <2> QED
    BY <2>4, <2>5, <2>6, Zenon DEF LoneInv
<1> QED
  BY <1>1, <1>2, <1>3, <1>4, Zenon

\* With MaxOpenConns = 1 and no connection dropped, and for any number of
\* clients and calls, every row stored was checked for foreign keys and every
\* call finds the tables once they are made; on a file it does with any pool.
THEOREM SettingsStayHolds == EngineSpec => []SettingsStay
<1>1. ASSUME Db!Init PROVE LoneInv
  <2>1. /\ progress = 1 /\ opened = 0 /\ expired = 0 /\ schema = {}
        /\ closing = [g \in DbClosers |-> "idle"]
        /\ ~dbClosed /\ ~unchecked /\ ~missing
    BY <1>1, Zenon DEF Db!Init
  <2>2. OpenFirst
    BY <2>1 DEF OpenFirst
  <2>3. LonePool
    BY <2>1 DEF LonePool
  <2> QED
    BY <2>1, <2>2, <2>3, Zenon DEF LoneInv, Tables
<1>2. DbInv /\ LoneInv /\ [Db!Next]_(Db!vars) => LoneInv'
  <2> SUFFICES ASSUME DbInv, LoneInv, [Db!Next]_(Db!vars) PROVE LoneInv'
    BY Zenon
  <2>1. CASE Db!Pragma \/ Db!Migrate \/ Db!OpenFails
    BY <2>1, OpenKeepsLoneInv, Zenon
  <2>2. CASE \E c \in Clients : Db!Start(c) \/ Db!Client(c)
    BY <2>2, TakersKeepLoneInv, PrepareKeepsLoneInv, ExecKeepsLoneInv,
       CommitKeepsLoneInv, Zenon DEF Db!Client
  <2>3. CASE Db!JobTake
    BY <2>3, TakersKeepLoneInv, Zenon
  <2>4. CASE \/ Db!Expire \/ Db!Tick \/ Db!JobRun \/ Db!JobStop \/ Db!Cool
             \/ \E g \in DbClosers : Db!CloseStop(g) \/ Db!CloseDB(g)
             \/ UNCHANGED Db!vars
    BY <2>4, OthersKeepLoneInv, Zenon
  <2> QED
    BY <2>1, <2>2, <2>3, <2>4, Zenon DEF Db!Next, Db!Job
<1>3. LoneInv => SettingsStay
  BY Zenon DEF LoneInv, Tables, Lone, SettingsStay, Db!SettingsStay
<1> QED
  BY <1>1, <1>2, <1>3, DbRuns, DbInvHolds, PTL DEF Db!Spec

-----------------------------------------------------------------------------
(* Paging: the rows of a query in the order of their keys *)

\* s lists the numbers of T in increasing order.
Lists(s, T) ==
  /\ s \in [1..Cardinality(T) -> T]
  /\ \A i, j \in 1..Cardinality(T) : i < j => s[i] < s[j]

\* Every finite set of numbers can be listed: its least number first.
LEMMA Sortable ==
  ASSUME NEW T \in SUBSET Nat, IsFiniteSet(T)
  PROVE  \E s : Lists(s, T)
<1> DEFINE P(n) == \A U \in SUBSET Nat : IsFiniteSet(U) /\ Cardinality(U) = n => \E s : Lists(s, U)
           S == {n \in Nat : P(n)}
<1>1. 0 \in S
  <2> SUFFICES ASSUME NEW U \in SUBSET Nat, IsFiniteSet(U), Cardinality(U) = 0
               PROVE  \E s : Lists(s, U)
    OBVIOUS
  <2>1. Lists([i \in 1..0 |-> 0], U)
    BY DEF Lists
  <2> QED
    BY <2>1, Zenon
<1>2. \A n \in Nat : n \in S => n + 1 \in S
  <2> SUFFICES ASSUME NEW n \in Nat, P(n), NEW U \in SUBSET Nat, IsFiniteSet(U), Cardinality(U) = n + 1
               PROVE  \E s : Lists(s, U)
    OBVIOUS
  <2>1. U # {}
    BY FS_EmptySet
  <2>2. PICK x \in U : \A y \in U : x <= y
    BY <2>1, LeastNat, Zenon
  <2>3. IsFiniteSet(U \ {x}) /\ Cardinality(U \ {x}) = n
    <3>1. IsFiniteSet(U \ {x}) /\ Cardinality(U \ {x}) = Cardinality(U) - 1
      BY <2>2, FS_RemoveElement, Zenon
    <3> QED
      BY <3>1
  <2>4. PICK s : Lists(s, U \ {x})
    BY <2>3, Zenon
  <2>5. s \in [1..n -> U \ {x}] /\ \A i, j \in 1..n : i < j => s[i] < s[j]
    BY <2>3, <2>4, Zenon DEF Lists
  <2> DEFINE t == [i \in 1..(n + 1) |-> IF i = 1 THEN x ELSE s[i - 1]]
  <2>6. \A i \in 1..(n + 1) : i # 1 => i - 1 \in 1..n
    OBVIOUS
  <2>7. t \in [1..(n + 1) -> U]
    BY <2>5, <2>6
  <2>8. \A i, j \in 1..(n + 1) : i < j => t[i] < t[j]
    <3> SUFFICES ASSUME NEW i \in 1..(n + 1), NEW j \in 1..(n + 1), i < j PROVE t[i] < t[j]
      OBVIOUS
    <3>1. j # 1 /\ j - 1 \in 1..n /\ t[j] = s[j - 1] /\ s[j - 1] \in U \ {x}
      BY <2>5, <2>6
    <3>2. CASE i = 1
      <4>1. t[i] = x /\ x <= s[j - 1] /\ x # s[j - 1]
        BY <2>2, <3>1, <3>2, Zenon
      <4>2. x \in Nat /\ s[j - 1] \in Nat
        BY <3>1, Zenon
      <4> HIDE DEF t
      <4> QED
        BY <3>1, <4>1, <4>2
    <3>3. CASE i # 1
      BY <2>5, <2>6, <3>1, <3>3
    <3> QED
      BY <3>2, <3>3
  <2>9. Lists(t, U)
    BY <2>7, <2>8, Zenon DEF Lists
  <2> QED
    BY <2>9, Zenon
<1>3. S = Nat
  <2> HIDE DEF P
  <2> QED
    BY <1>1, <1>2, NatInduct, Zenon
<1>4. Cardinality(T) \in Nat
  BY FS_CardinalityType
<1> QED
  BY <1>3, <1>4, Zenon

\* A list has every number of the set.
LEMMA ListsAll ==
  ASSUME NEW T \in SUBSET Nat, IsFiniteSet(T), NEW s, Lists(s, T)
  PROVE  \A x \in T : \E i \in 1..Cardinality(T) : s[i] = x
<1> DEFINE C == Cardinality(T)
<1>1. C \in Nat
  BY FS_CardinalityType
<1>2. IsFiniteSet(1..C) /\ Cardinality(1..C) = C
  BY <1>1, FS_Interval
<1> HIDE DEF C
<1>3. s \in [1..C -> T] /\ \A i, j \in 1..C : i < j => s[i] < s[j]
  BY Zenon DEF Lists, C
<1>4. \A i, j \in 1..C : s[i] = s[j] => i = j
  <2> SUFFICES ASSUME NEW i \in 1..C, NEW j \in 1..C, s[i] = s[j], i # j PROVE FALSE
    BY Zenon
  <2>1. s[i] \in Nat /\ s[j] \in Nat
    BY <1>3, Zenon
  <2>2. s[i] < s[j] \/ s[j] < s[i]
    BY <1>1, <1>3
  <2> QED
    BY <2>1, <2>2
<1>5. s \in Injection(1..C, T)
  BY <1>3, <1>4, Zenon DEF Injection, IsInjective
<1>6. s \in Surjection(1..C, T)
  BY <1>2, <1>5, FS_Injection, Zenon DEF C
<1> QED
  BY <1>6, Zenon DEF Surjection, C

\* ORDER BY lists the keys in ascending order.
LEMMA InOrderLists ==
  ASSUME NEW T \in SUBSET Nat, IsFiniteSet(T)
  PROVE  Lists(Walk!InOrder(T), T)
<1>1. Cardinality(T) = Walk!Cardinality(T)
  BY Zenon DEF Cardinality, Walk!Cardinality
<1>2. PICK s : Lists(s, T)
  BY Sortable, Zenon
<1> DEFINE Ordered(t) == \A i, j \in DOMAIN t : i < j => t[i] < t[j]
<1>3. \A t \in [1..Cardinality(T) -> T] : Ordered(t) <=> Lists(t, T)
  BY DEF Lists
<1>4. s \in [1..Cardinality(T) -> T] /\ Ordered(s)
  BY <1>2, <1>3, Zenon DEF Lists
<1>5. Walk!InOrder(T) = CHOOSE t \in [1..Cardinality(T) -> T] : Ordered(t)
  BY <1>1, Zenon DEF Walk!InOrder
<1> HIDE DEF Ordered
<1>6. Walk!InOrder(T) \in [1..Cardinality(T) -> T] /\ Ordered(Walk!InOrder(T))
  BY <1>4, <1>5, Zenon
<1> QED
  BY <1>3, <1>6, Zenon
-----------------------------------------------------------------------------
(* Paging: the walk *)

WalkType ==
  /\ mode \in {"offset", "keyset"} /\ table \in SUBSET RowIDs /\ stable \in SUBSET table
  /\ changes \in Nat /\ (changes = 0 => stable = table)

\* By key: the rows read are in order, none beyond lastID, and no row that stays
\* is left behind.
ByKey ==
  /\ cursor \in Nat /\ read \in Seq(Nat)
  /\ \A i, j \in 1..Len(read) : i < j => read[i] < read[j]
  /\ \A i \in 1..Len(read) : read[i] <= cursor
  /\ \A x \in stable : x <= cursor \/ ~walking => \E i \in 1..Len(read) : read[i] = x

\* By offset, on a table that does not change: the first rows of the table.
ByOffset ==
  /\ cursor \in 0..Cardinality(table) /\ read \in Seq(Nat) /\ Len(read) = cursor
  /\ \A i \in 1..cursor : read[i] = Walk!InOrder(table)[i]
  /\ ~walking => cursor = Cardinality(table)

WalkInv ==
  /\ WalkType
  /\ mode = "keyset" => ByKey
  /\ mode = "offset" /\ changes = 0 => ByOffset

\* The rows of a table are finitely many numbers.
LEMMA RowsFinite ==
  ASSUME WalkType, NEW T \in SUBSET table
  PROVE  T \in SUBSET Nat /\ IsFiniteSet(T) /\ Cardinality(T) \in Nat
<1>1. T \in SUBSET RowIDs
  BY Zenon DEF WalkType
<1>2. IsFiniteSet(T)
  BY <1>1, PagingAssumption, FS_Subset, Zenon
<1>3. T \in SUBSET Nat
  BY <1>1, PagingAssumption
<1> QED
  BY <1>2, <1>3, FS_CardinalityType, Zenon

\* What a query in the order of the keys returns.
LEMMA InOrderSeq ==
  ASSUME WalkType, NEW T \in SUBSET table
  PROVE  LET s == Walk!InOrder(T)
         IN  /\ s \in Seq(Nat) /\ Len(s) = Cardinality(T)
             /\ \A i, j \in 1..Len(s) : i < j => s[i] < s[j]
             /\ \A i \in 1..Len(s) : s[i] \in T
             /\ \A x \in T : \E i \in 1..Len(s) : s[i] = x
<1> DEFINE s == Walk!InOrder(T)
<1>1. T \in SUBSET Nat /\ IsFiniteSet(T) /\ Cardinality(T) \in Nat
  BY RowsFinite, Zenon
<1>2. Lists(s, T)
  BY <1>1, InOrderLists, Zenon
<1>3. \A x \in T : \E i \in 1..Cardinality(T) : s[i] = x
  BY <1>1, <1>2, ListsAll, ZenonT(60)
<1> HIDE DEF s
<1>4. /\ s \in [1..Cardinality(T) -> T]
      /\ \A i, j \in 1..Cardinality(T) : i < j => s[i] < s[j]
  BY <1>2, Zenon DEF Lists
<1>5. s \in Seq(Nat) /\ Len(s) = Cardinality(T)
  <2>1. s \in [1..Cardinality(T) -> Nat]
    BY <1>1, <1>4, Zenon
  <2> QED
    BY <1>1, <2>1, FcnSeq, Zenon
<1>6. \A i \in 1..Cardinality(T) : s[i] \in T
  BY <1>4, Zenon
<1> QED
  BY <1>3, <1>4, <1>5, <1>6, Zenon DEF s

\* The rows a page returns: the first k of M.
LEMMA PageOf ==
  ASSUME NEW M \in Seq(Nat)
  PROVE  LET k == IF Len(M) < Limit THEN Len(M) ELSE Limit
             page == SubSeq(M, 1, k)
         IN  /\ k \in Nat /\ k <= Len(M) /\ k <= Limit /\ (k # Limit => k = Len(M))
             /\ page \in Seq(Nat) /\ Len(page) = k /\ \A i \in 1..k : page[i] = M[i]
<1> DEFINE k == IF Len(M) < Limit THEN Len(M) ELSE Limit
<1>1. k \in Nat /\ k <= Len(M) /\ k <= Limit /\ (k # Limit => k = Len(M))
  BY PagingAssumption
<1> HIDE DEF k
<1>2. LET page == SubSeq(M, 1, k)
      IN  page \in Seq(Nat) /\ Len(page) = k /\ \A i \in 1..k : page[i] = M[i]
  BY <1>1
<1> QED
  BY <1>1, <1>2, Zenon DEF k

\* Load with PaginationKeyset takes the rows behind the cursor.
LEMMA LoadByKey ==
  ASSUME WalkInv, mode = "keyset", Walk!Load
  PROVE  ByKey'
<1>1. /\ WalkType /\ cursor \in Nat /\ read \in Seq(Nat) /\ walking
      /\ \A i, j \in 1..Len(read) : i < j => read[i] < read[j]
      /\ \A i \in 1..Len(read) : read[i] <= cursor
      /\ \A x \in stable : x <= cursor \/ ~walking => \E i \in 1..Len(read) : read[i] = x
      /\ stable' = stable
  BY Zenon DEF WalkInv, ByKey, Walk!Load
<1> DEFINE T == Walk!After(cursor)
           M == Walk!InOrder(T)
           k == IF Len(M) < Limit THEN Len(M) ELSE Limit
           page == SubSeq(M, 1, k)
<1>2. T \in SUBSET table /\ stable \in SUBSET table /\ \A x \in T : x > cursor
  BY <1>1, Zenon DEF Walk!After, WalkType
<1>3. \A x \in stable : x \in Nat /\ (x > cursor => x \in T)
  <2>1. \A x \in table : x \in Nat
    BY <1>1, PagingAssumption DEF WalkType
  <2>2. \A x \in table : x > cursor => x \in T
    BY Zenon DEF Walk!After
  <2> QED
    BY <1>2, <2>1, <2>2, Zenon
<1>4. Walk!Matches = M
  BY Zenon DEF Walk!Matches
<1> HIDE DEF T
<1>5. /\ M \in Seq(Nat)
      /\ \A i, j \in 1..Len(M) : i < j => M[i] < M[j]
      /\ \A i \in 1..Len(M) : M[i] \in T
      /\ \A x \in T : \E i \in 1..Len(M) : M[i] = x
  BY <1>1, <1>2, InOrderSeq, Zenon
<1>6. /\ read' = read \o page /\ walking' = (Len(page) = Limit)
      /\ cursor' = IF page = <<>> THEN cursor ELSE page[Len(page)]
  <2>1. "keyset" # "offset"
    OBVIOUS
  <2> QED
    BY <1>4, <2>1, Zenon DEF Walk!Load
<1> HIDE DEF M
<1>7. /\ k \in Nat /\ k <= Len(M) /\ (k # Limit => k = Len(M))
      /\ page \in Seq(Nat) /\ Len(page) = k /\ \A i \in 1..k : page[i] = M[i]
  BY <1>5, PageOf, Zenon
<1> HIDE DEF k, page
<1>8. \A i \in 1..k : page[i] \in Nat /\ page[i] > cursor /\ i \in 1..Len(M)
  <2>1. \A i \in 1..k : i \in 1..Len(M)
    BY <1>5, <1>7
  <2>2. \A i \in 1..Len(M) : M[i] \in Nat /\ M[i] > cursor
    <3>1. \A i \in 1..Len(M) : M[i] \in Nat
      BY <1>5, Elt, Zenon
    <3> QED
      BY <1>2, <1>5, <3>1, Zenon
  <2> QED
    BY <1>7, <2>1, <2>2, Zenon
<1>9. \A i, j \in 1..k : i < j => page[i] < page[j]
  BY <1>5, <1>7, <1>8, Zenon
<1>10. /\ read' \in Seq(Nat) /\ Len(read') = Len(read) + k
       /\ \A i \in 1..Len(read) : read'[i] = read[i]
       /\ \A i \in 1..k : read'[Len(read) + i] = page[i]
  <2>1. read' = read \o page /\ read \in Seq(Nat) /\ page \in Seq(Nat)
    BY <1>1, <1>6, <1>7, Zenon
  <2>2. /\ read' \in Seq(Nat) /\ Len(read') = Len(read) + Len(page)
        /\ \A i \in 1..Len(read) : read'[i] = read[i]
        /\ \A i \in 1..Len(page) : read'[Len(read) + i] = page[i]
    BY <2>1, Concat, SMTT(60)
  <2> QED
    BY <1>7, <2>2, Zenon
<1>11. PICK L \in Nat : L = Len(read)
  BY <1>1
<1>12. \A i \in 1..(L + k) : i \in 1..L \/ (\E j \in 1..k : i = L + j)
  <2> SUFFICES ASSUME NEW i \in 1..(L + k), i \notin 1..L PROVE \E j \in 1..k : i = L + j
    BY Zenon
  <2>1. i - L \in 1..k /\ i = L + (i - L)
    BY <1>7
  <2> QED
    BY <2>1, Zenon
<1>13. /\ cursor' \in Nat /\ cursor <= cursor' /\ \A i \in 1..k : page[i] <= cursor'
       /\ k = 0 => cursor' = cursor
       /\ k # 0 => cursor' = page[k]
  <2>1. CASE k = 0
    BY <1>1, <1>6, <1>7, <2>1
  <2>2. CASE k # 0
    <3>1. page # <<>> /\ cursor' = page[k] /\ k \in 1..k
      BY <1>6, <1>7, <2>2
    <3>2. \A i \in 1..k : i < k \/ i = k
      BY <1>7
    <3>3. cursor \in Nat /\ cursor' \in Nat /\ cursor' > cursor
      BY <1>1, <1>8, <3>1, Zenon
    <3>4. ASSUME NEW i \in 1..k PROVE page[i] <= cursor'
      <4>1. page[i] \in Nat /\ (page[i] < cursor' \/ page[i] = cursor')
        BY <1>8, <1>9, <3>1, <3>2, Zenon
      <4> QED
        BY <3>3, <4>1
    <3>5. cursor <= cursor'
      BY <3>3
    <3> QED
      BY <2>2, <3>1, <3>3, <3>4, <3>5, Zenon
  <2> QED
    BY <2>1, <2>2
<1>14. \A i \in 1..(L + k) : read'[i] <= cursor'
  <2> SUFFICES ASSUME NEW i \in 1..(L + k) PROVE read'[i] <= cursor'
    OBVIOUS
  <2>1. CASE i \in 1..L
    BY <1>1, <1>10, <1>11, <1>13, <2>1
  <2>2. CASE \E j \in 1..k : i = L + j
    BY <1>10, <1>11, <1>13, <2>2, Zenon
  <2> QED
    BY <1>12, <2>1, <2>2, Zenon
<1>15. \A i, j \in 1..(L + k) : i < j => read'[i] < read'[j]
  <2> SUFFICES ASSUME NEW i \in 1..(L + k), NEW j \in 1..(L + k), i < j PROVE read'[i] < read'[j]
    OBVIOUS
  <2>1. CASE j \in 1..L
    <3>1. i \in 1..L
      BY <1>11, <2>1
    <3> QED
      BY <1>1, <1>10, <1>11, <2>1, <3>1, Zenon
  <2>2. ASSUME NEW b \in 1..k, j = L + b PROVE read'[i] < read'[j]
    <3>1. read'[j] = page[b] /\ page[b] \in Nat /\ page[b] > cursor
      BY <1>8, <1>10, <1>11, <2>2, Zenon
    <3>2. CASE i \in 1..L
      <4>1. read'[i] \in Nat /\ read'[i] <= cursor
        <5>1. i \in 1..Len(read) /\ read \in Seq(Nat)
          BY <1>1, <1>11, <3>2, Zenon
        <5>2. read[i] \in Nat
          BY <5>1, Elt, Zenon
        <5> QED
          BY <1>1, <1>10, <5>1, <5>2, Zenon
      <4> QED
        BY <1>1, <3>1, <4>1
    <3>3. ASSUME NEW a \in 1..k, i = L + a PROVE read'[i] < read'[j]
      <4>1. a < b
        BY <1>11, <2>2, <3>3
      <4> QED
        BY <1>9, <1>10, <1>11, <2>2, <3>3, <4>1, Zenon
    <3> QED
      BY <1>12, <3>2, <3>3, Zenon
  <2> QED
    BY <1>12, <2>1, <2>2, Zenon
<1>16. ASSUME NEW x \in stable, x <= cursor' \/ ~walking'
       PROVE  \E i \in 1..(L + k) : read'[i] = x
  <2>1. CASE x <= cursor
    <3>1. PICK i \in 1..L : read[i] = x
      BY <1>1, <1>11, <2>1, Zenon
    <3>2. i \in 1..(L + k)
      BY <1>7, <1>11
    <3> QED
      BY <1>10, <1>11, <3>1, <3>2, Zenon
  <2>2. CASE ~(x <= cursor)
    <3>1. x \in Nat /\ x > cursor
      BY <1>1, <1>3, <2>2
    <3>2. PICK i \in 1..Len(M) : M[i] = x
      BY <1>3, <1>5, <3>1, Zenon
    <3>3. i \in 1..k
      <4>1. CASE x <= cursor'
        <5>1. k # 0 /\ k \in 1..Len(M) /\ k \in 1..k
          BY <1>1, <1>5, <1>7, <1>13, <3>1, <4>1
        <5>2. M[k] = cursor' /\ M[k] \in Nat
          BY <1>5, <1>7, <1>13, <5>1
        <5>3. ~(k < i)
          BY <1>5, <3>1, <3>2, <4>1, <5>1, <5>2, SMTT(60)
        <5> QED
          BY <1>5, <1>7, <5>1, <5>3
      <4>2. CASE ~walking'
        <5>1. k = Len(M)
          BY <1>6, <1>7, <4>2, Zenon
        <5> QED
          BY <5>1
      <4> QED
        BY <1>16, <4>1, <4>2, Zenon
    <3>4. L + i \in 1..(L + k) /\ read'[L + i] = x
      <4>1. L + i \in 1..(L + k)
        <5>1. k \in Nat
          BY <1>7, Zenon
        <5> QED
          BY <3>3, <5>1
      <4>2. read'[L + i] = page[i] /\ page[i] = M[i]
        BY <1>7, <1>10, <1>11, <3>3, Zenon
      <4> QED
        BY <3>2, <4>1, <4>2, Zenon
    <3> QED
      BY <3>4, Zenon
  <2> QED
    BY <2>1, <2>2
<1>17. Len(read') = L + k
  BY <1>10, <1>11, Zenon
<1> QED
  BY <1>1, <1>10, <1>13, <1>14, <1>15, <1>16, <1>17, Zenon DEF ByKey

\* Load with an offset takes the next rows of a table at rest.
LEMMA LoadByOffset ==
  ASSUME WalkInv, mode = "offset", changes = 0, Walk!Load
  PROVE  ByOffset'
<1> DEFINE A == Walk!InOrder(table)
           C == Cardinality(table)
           M == SubSeq(A, cursor + 1, C)
           k == IF Len(M) < Limit THEN Len(M) ELSE Limit
           page == SubSeq(M, 1, k)
<1>1. /\ WalkType /\ cursor \in 0..C /\ read \in Seq(Nat) /\ Len(read) = cursor
      /\ \A i \in 1..cursor : read[i] = A[i]
      /\ table' = table
  BY Zenon DEF WalkInv, ByOffset, Walk!Load
<1>2. A \in Seq(Nat) /\ Len(A) = C /\ C \in Nat
  BY <1>1, InOrderSeq, RowsFinite, Zenon
<1>3. Walk!Matches = M
  <2>1. Cardinality(table) = Walk!Cardinality(table)
    BY Zenon DEF Cardinality, Walk!Cardinality
  <2>2. mode # "keyset"
    OBVIOUS
  <2> QED
    BY <2>1, <2>2, Zenon DEF Walk!Matches
<1>4. read' = read \o page /\ walking' = (Len(page) = Limit) /\ cursor' = cursor + Len(page)
  BY <1>3, Zenon DEF Walk!Load
<1> HIDE DEF A, C
<1>5. M \in Seq(Nat) /\ Len(M) = C - cursor /\ \A i \in 1..(C - cursor) : M[i] = A[cursor + i]
  <2>1. M = SubSeq(A, cursor + 1, Len(A)) /\ cursor \in 0..Len(A)
    BY <1>1, <1>2, Zenon
  <2> HIDE DEF M
  <2> QED
    BY <1>2, <2>1, Rest, Zenon
<1> HIDE DEF M
<1>6. /\ k \in Nat /\ k <= Len(M) /\ (k # Limit => k = Len(M))
      /\ page \in Seq(Nat) /\ Len(page) = k /\ \A i \in 1..k : page[i] = M[i]
  BY <1>5, PageOf, Zenon
<1> HIDE DEF k, page
<1>7. /\ read' \in Seq(Nat) /\ Len(read') = cursor + k
      /\ \A i \in 1..cursor : read'[i] = read[i]
      /\ \A i \in 1..k : read'[cursor + i] = page[i]
  <2>0. read' = read \o page /\ read \in Seq(Nat) /\ page \in Seq(Nat)
    BY <1>1, <1>4, <1>6, Zenon
  <2>1. /\ read' \in Seq(Nat) /\ Len(read') = Len(read) + Len(page)
        /\ \A i \in 1..Len(read) : read'[i] = read[i]
        /\ \A i \in 1..Len(page) : read'[Len(read) + i] = page[i]
    BY <2>0, Concat
  <2> QED
    BY <1>1, <1>6, <2>1, Zenon
<1>8. cursor' \in 0..C /\ Len(read') = cursor' /\ cursor' = cursor + k
  BY <1>1, <1>2, <1>4, <1>5, <1>6, <1>7
<1>9. \A i \in 1..(cursor + k) : read'[i] = A[i]
  <2> SUFFICES ASSUME NEW i \in 1..(cursor + k) PROVE read'[i] = A[i]
    OBVIOUS
  <2>1. CASE i \in 1..cursor
    BY <1>1, <1>7, <2>1, Zenon
  <2>2. CASE i \notin 1..cursor
    <3>1. i - cursor \in 1..k /\ i - cursor \in 1..(C - cursor) /\ cursor + (i - cursor) = i
      <4>1. cursor \in Nat /\ C \in Nat /\ k \in Nat /\ k <= C - cursor
        BY <1>1, <1>2, <1>5, <1>6
      <4> QED
        BY <2>2, <4>1
    <3>2. read'[cursor + (i - cursor)] = A[cursor + (i - cursor)]
      BY <1>5, <1>6, <1>7, <3>1, Zenon
    <3> QED
      BY <3>1, <3>2, Zenon
  <2> QED
    BY <2>1, <2>2
<1>10. ~walking' => cursor + k = C
  <2>1. ~walking' => k = C - cursor
    BY <1>4, <1>5, <1>6, Zenon
  <2> QED
    BY <1>1, <1>2, <2>1
<1> QED
  BY <1>1, <1>7, <1>8, <1>9, <1>10, Zenon DEF ByOffset, A, C

\* Before the first page nothing is read.
LEMMA WalkInitInv == Walk!Init => WalkInv
<1> SUFFICES ASSUME Walk!Init PROVE WalkInv
  OBVIOUS
<1>1. /\ mode \in {"offset", "keyset"} /\ table \in SUBSET RowIDs
      /\ cursor = 0 /\ read = <<>> /\ walking = TRUE /\ stable = table /\ changes = 0
  BY Zenon DEF Walk!Init
<1>2. WalkType
  <2>1. changes \in Nat
    BY <1>1
  <2> QED
    BY <1>1, <2>1, Zenon DEF WalkType
<1>3. Cardinality(table) \in Nat
  BY <1>2, RowsFinite, Zenon
<1>4. \A x \in stable : ~(x <= 0)
  BY <1>1, PagingAssumption
<1>5. ByKey
  BY <1>1, <1>4 DEF ByKey
<1>6. ByOffset
  BY <1>1, <1>3 DEF ByOffset
<1> QED
  BY <1>2, <1>5, <1>6, Zenon DEF WalkInv

\* Every step keeps WalkInv.
LEMMA WalkKeepsInv == WalkInv /\ [Walk!Next]_(Walk!vars) => WalkInv'
<1> SUFFICES ASSUME WalkInv, [Walk!Next]_(Walk!vars) PROVE WalkInv'
  OBVIOUS
<1>1. CASE Walk!Load
  <2>1. UNCHANGED <<mode, table, stable, changes>>
    BY <1>1, Zenon DEF Walk!Load
  <2>2. WalkType'
    BY <2>1, Zenon DEF WalkInv, WalkType
  <2> QED
    BY <1>1, <2>1, <2>2, LoadByKey, LoadByOffset, Zenon DEF WalkInv
<1>2. ASSUME NEW i \in RowIDs, Walk!Insert(i) \/ Walk!Delete(i) PROVE WalkInv'
  <2>1. /\ changes' = changes + 1 /\ UNCHANGED <<mode, cursor, read, walking>>
        /\ table' \in SUBSET RowIDs /\ stable' \in SUBSET table' /\ stable' \in SUBSET stable
    BY <1>2, Zenon DEF WalkInv, WalkType, Walk!Insert, Walk!Delete
  <2>2. changes' \in Nat /\ changes' # 0
    BY <2>1 DEF WalkInv, WalkType
  <2>3. WalkType'
    BY <2>1, <2>2, Zenon DEF WalkInv, WalkType
  <2>4. ByKey => ByKey'
    BY <2>1, Zenon DEF ByKey
  <2> QED
    BY <2>1, <2>2, <2>3, <2>4, Zenon DEF WalkInv
<1>3. CASE UNCHANGED Walk!vars
  <2>1. UNCHANGED <<mode, table, cursor, read, walking, stable, changes>>
    BY <1>3, Zenon DEF Walk!vars
  <2> QED
    BY <2>1, Zenon DEF WalkInv, WalkType, ByKey, ByOffset
<1> QED
  BY <1>1, <1>2, <1>3, Zenon DEF Walk!Next

\* The invariant implies the property.
LEMMA WalkInvComplete == WalkInv => WalkComplete
<1> SUFFICES ASSUME WalkInv PROVE WalkComplete
  OBVIOUS
<1>1. CASE mode = "keyset"
  <2>1. ByKey
    BY <1>1, Zenon DEF WalkInv
  <2>2. DOMAIN read = 1..Len(read)
    BY <2>1 DEF ByKey
  <2> QED
    BY <2>1, <2>2, Zenon DEF ByKey, WalkComplete, Walk!WalkComplete, Walk!Range
<1>2. CASE mode = "offset" /\ changes = 0
  <2> DEFINE A == Walk!InOrder(table)
  <2>1. ByOffset /\ WalkType /\ stable = table
    BY <1>2, Zenon DEF WalkInv, WalkType
  <2>2. /\ A \in Seq(Nat) /\ Len(A) = Cardinality(table) /\ Cardinality(table) \in Nat
        /\ \A i, j \in 1..Len(A) : i < j => A[i] < A[j]
        /\ \A x \in table : \E i \in 1..Len(A) : A[i] = x
    BY <2>1, InOrderSeq, RowsFinite, Zenon
  <2> HIDE DEF A
  <2>3. DOMAIN read = 1..cursor /\ cursor \in 0..Len(A)
    BY <2>1, <2>2 DEF ByOffset
  <2>4. \A i \in 1..cursor : i \in 1..Len(A) /\ read[i] = A[i]
    <3>1. \A i \in 1..cursor : i \in 1..Len(A)
      BY <2>2, <2>3
    <3> QED
      BY <2>1, <3>1, Zenon DEF ByOffset, A
  <2>5. \A i, j \in DOMAIN read : i < j => read[i] < read[j]
    BY <2>2, <2>3, <2>4, Zenon
  <2>6. ~walking => stable \subseteq Walk!Range(read)
    <3> SUFFICES ASSUME ~walking, NEW x \in stable PROVE x \in Walk!Range(read)
      BY Zenon
    <3>1. PICK i \in 1..Len(A) : A[i] = x
      BY <2>1, <2>2, Zenon
    <3>2. i \in 1..cursor
      BY <2>1, <2>2, <3>1, Zenon DEF ByOffset
    <3> QED
      BY <2>3, <2>4, <3>1, <3>2, Zenon DEF Walk!Range
  <2> QED
    BY <2>5, <2>6, Zenon DEF WalkComplete, Walk!WalkComplete
<1>3. CASE mode = "offset" /\ changes # 0
  <2>1. mode # "keyset"
    BY <1>3
  <2> QED
    BY <1>3, <2>1, Zenon DEF WalkComplete, Walk!WalkComplete
<1> QED
  BY <1>1, <1>2, <1>3, Zenon DEF WalkInv, WalkType

\* However large the table and whatever is inserted and deleted between the
\* pages, a walk by key (BaseEngine.Load with PaginationKeyset) returns rows in
\* key order and misses none that stayed; by offset, on a table at rest.
THEOREM WalkCompleteHolds == EngineSpec => []WalkComplete
BY WalkRuns, WalkInitInv, WalkKeepsInv, WalkInvComplete, PTL DEF Walk!Spec

================================================================================
