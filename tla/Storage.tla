------------------------------- MODULE Storage -------------------------------
(***************************************************************************)
(* storage.Storage (storage/storage.go): a map in memory, saved whole and  *)
(* encrypted to Path after every change, with the previous file copied to  *)
(* BackupPath first. Every operation runs under the write lock, so there   *)
(* is one save at a time; a save is the separate file operations it makes, *)
(* and the process can crash, or a file operation fail, between any two.   *)
(***************************************************************************)
EXTENDS Naturals

CONSTANTS
  Keys,
  Values,      \* values in the form encoding/json decodes to
  GoValues,    \* other Go values json.Marshal accepts (int, struct, ...)
  BadValues,   \* values json.Marshal refuses (chan, func, NaN)
  JsonOf,      \* GoValues -> Values: what a marshalled value decodes to
  Absent,      \* the map has no entry
  MaxCrashes,  \* bound: crashes
  MaxErrors    \* bound: file operations that fail

ASSUME StorageAssumption ==
  /\ JsonOf \in [GoValues -> Values]
  /\ Values \cap (GoValues \cup BadValues) = {} /\ GoValues \cap BadValues = {}
  /\ Absent \notin Values \cup GoValues \cup BadValues
  /\ MaxCrashes \in Nat /\ MaxErrors \in Nat

VARIABLES
  up,        \* "up", "down" (stopped or panicked) or "crashed"
  store,     \* the field store
  pc,        \* the next file operation of save, "idle" outside save
  out,       \* the snapshot save is writing
  path,      \* the file Path
  backup,    \* the file BackupPath
  crashes,   \* history: crashes so far
  cut,       \* history: the last one fell between truncating and writing Path
  errors,    \* history: failed file operations so far
  saved,     \* history: the snapshot of the last save that returned nil
  nulled,    \* history: ImportJSON was given null
  panicked   \* history: what the last panic was, "no" before any

vars == <<up, store, pc, out, path, backup, crashes, cut, errors, saved,
          nulled, panicked>>
disk == <<path, backup, crashes, cut, errors, saved>>

(* A Go map or nil. A nil map reads as empty, marshals to null and panics    *)
(* when an entry is assigned.                                                *)
MapsOf(V) == {m \in [nil : BOOLEAN, at : [Keys -> V \cup {Absent}]] :
                m.nil => \A k \in Keys : m.at[k] = Absent}
Any   == Values \cup GoValues \cup BadValues
Empty == [nil |-> FALSE, at |-> [k \in Keys |-> Absent]]
Nil   == [nil |-> TRUE,  at |-> [k \in Keys |-> Absent]]
Put(m, k, v) == [m EXCEPT !.at[k] = v]

(* A file: missing, torn, or the whole encryption of a snapshot. What an      *)
(* interrupted os.WriteFile leaves is "short" (at most 16 bytes, or none),    *)
(* "blocks" (longer, full cipher blocks) or "ragged" (longer, not full        *)
(* blocks).                                                                   *)
Torn == {"short", "ragged", "blocks"}
File(d) == [kind |-> "whole", data |-> d]
NoData(k) == [kind |-> k, data |-> Empty]
Files == {File(d) : d \in MapsOf(Values)}
         \cup {NoData(k) : k \in {"absent"} \cup Torn}

Init ==
  /\ up = "down" /\ store = Empty /\ pc = "idle" /\ out = Empty
  /\ path = NoData("absent") /\ backup = NoData("absent")
  /\ crashes = 0 /\ cut = FALSE /\ errors = 0 /\ saved = NoData("absent")
  /\ nulled = FALSE /\ panicked = "no"

-----------------------------------------------------------------------------
(* json.Marshal, as far as reading back is concerned *)

HasBad(m) == \E k \in Keys : m.at[k] \in BadValues
ToJson(v) == IF v \in GoValues THEN JsonOf[v] ELSE v
Marshal(m) == [nil |-> m.nil, at |-> [k \in Keys |-> ToJson(m.at[k])]]

-----------------------------------------------------------------------------
(* save *)

\* The existing file is copied to BackupPath before Path is written.
FirstWrite_NoBackup == "truncate"
FirstWrite == IF path.kind = "absent" THEN "truncate" ELSE "backup"

\* The caller has put m in memory; a map that does not marshal stays there and
\* save returns the error before it touches a file.
Save(m) ==
  /\ store' = m
  /\ IF HasBad(m)
       THEN UNCHANGED <<pc, out>>
       ELSE pc' = FirstWrite /\ out' = Marshal(m)

\* os.WriteFile(BackupPath, b): open with O_TRUNC, then write the bytes.
SaveOpenBackup ==
  /\ pc = "backup"
  /\ backup' = NoData("short")
  /\ pc' = "copy"
  /\ UNCHANGED <<up, store, out, path, crashes, cut, errors, saved, nulled,
                 panicked>>

SaveCopy ==
  /\ pc = "copy"
  /\ backup' = path
  /\ pc' = "truncate"
  /\ UNCHANGED <<up, store, out, path, crashes, cut, errors, saved, nulled,
                 panicked>>

\* os.WriteFile(Path, out).
SaveTruncate ==
  /\ pc = "truncate"
  /\ path' = NoData("short")
  /\ pc' = "write"
  /\ UNCHANGED <<up, store, out, backup, crashes, cut, errors, saved, nulled,
                 panicked>>

SaveWrite ==
  /\ pc = "write"
  /\ path' = File(out) /\ saved' = File(out)
  /\ pc' = "idle"
  /\ UNCHANGED <<up, store, out, backup, crashes, cut, errors, nulled, panicked>>

\* A failed read of Path is ignored, and what was read of it becomes the backup;
\* a failed write of the backup is ignored; a failed write of Path is returned.
SaveError ==
  /\ pc # "idle" /\ errors < MaxErrors
  /\ errors' = errors + 1
  /\ \/ /\ pc = "backup" /\ pc' = "truncate"
        /\ backup' \in {backup} \cup {NoData(k) : k \in Torn} /\ UNCHANGED path
     \/ /\ pc = "copy" /\ pc' = "truncate"
        /\ backup' \in {NoData(k) : k \in Torn} /\ UNCHANGED path
     \/ pc = "truncate" /\ pc' = "idle" /\ UNCHANGED <<path, backup>>
     \/ /\ pc = "write" /\ pc' = "idle"
        /\ path' \in {NoData(k) : k \in Torn} /\ UNCHANGED backup
  /\ UNCHANGED <<up, store, out, crashes, cut, saved, nulled, panicked>>

Saving == SaveOpenBackup \/ SaveCopy \/ SaveTruncate \/ SaveWrite

-----------------------------------------------------------------------------
(* The operations that change the store *)

Call == up = "up" /\ pc = "idle"

\* "nilmap": assignment to an entry of one; "ragged": CryptBlocks.
Panic(why) ==
  /\ up' = "down" /\ panicked' = why
  /\ UNCHANGED <<store, pc, out, disk, nulled>>

\* Set, and SetStruct of a map: the value is stored as it is.
Set(k, v) ==
  /\ Call
  /\ IF store.nil
       THEN Panic("nilmap")
       ELSE Save(Put(store, k, v)) /\ UNCHANGED <<up, disk, nulled, panicked>>

\* SetStruct, SetListStruct, SetAuto: the value goes through JSON first, and
\* one that does not marshal is refused before the store changes.
SetAuto(k, v) ==
  /\ Call /\ v \notin BadValues
  /\ IF store.nil
       THEN Panic("nilmap")
       ELSE Save(Put(store, k, ToJson(v))) /\ UNCHANGED <<up, disk, nulled, panicked>>

Delete_NoSave(k) ==
  /\ Call /\ store.at[k] # Absent
  /\ store' = Put(store, k, Absent)
  /\ UNCHANGED <<pc, out, up, disk, nulled, panicked>>
Delete(k) ==
  /\ Call /\ store.at[k] # Absent
  /\ Save(Put(store, k, Absent))
  /\ UNCHANGED <<up, disk, nulled, panicked>>

Clear ==
  /\ Call
  /\ Save(Empty)
  /\ UNCHANGED <<up, disk, nulled, panicked>>

ImportJSON(obj) ==
  /\ Call
  /\ Save(obj)
  /\ nulled' = (nulled \/ obj.nil)
  /\ UNCHANGED <<up, disk, panicked>>

MergeJSON(obj) ==
  /\ Call
  /\ LET new == {k \in Keys : obj.at[k] # Absent}
     IN  IF store.nil /\ new # {}
           THEN Panic("nilmap")
           ELSE /\ Save([store EXCEPT !.at =
                           [k \in Keys |-> IF k \in new THEN obj.at[k] ELSE @[k]]])
                /\ UNCHANGED <<up, disk, nulled, panicked>>

\* decryptToStore of the backup; it panics on a file of ragged length.
RestoreFromBackup ==
  /\ Call
  /\ \/ backup.kind = "ragged" /\ Panic("ragged")
     \/ /\ backup.kind = "whole"
        /\ Save(backup.data)
        /\ UNCHANGED <<up, disk, nulled, panicked>>

-----------------------------------------------------------------------------
(* Start, stop and crash of the process *)

FreshStore == Empty

\* Where Initialize gets the store from: Path if it is longer than 16 bytes
\* and decrypts, then BackupPath, or nowhere. A ragged file panics.
Source_NoFallback ==
  CASE path.kind = "whole" -> "path"
    [] path.kind = "ragged" -> "panic"
    [] OTHER -> "fresh"
Source ==
  CASE path.kind = "whole" -> "path"
    [] path.kind = "ragged" -> "panic"
    [] path.kind = "blocks" /\ backup.kind = "whole" -> "backup"
    [] path.kind = "blocks" /\ backup.kind = "ragged" -> "panic"
    [] OTHER -> "fresh"

Initialize ==
  /\ pc = "idle"
  /\ CASE Source = "panic"  -> /\ panicked' = "ragged"
                               /\ up' = IF up = "up" THEN "down" ELSE up
                               /\ UNCHANGED <<store, pc, out>>
       [] Source = "path"   -> /\ store' = path.data /\ up' = "up"
                               /\ UNCHANGED <<pc, out, panicked>>
       [] Source = "backup" -> /\ store' = backup.data /\ up' = "up"
                               /\ UNCHANGED <<pc, out, panicked>>
       [] Source = "fresh"  -> Save(FreshStore) /\ up' = "up" /\ UNCHANGED panicked
  /\ UNCHANGED <<disk, nulled>>

\* os.ReadFile of Path, or of the backup Initialize falls back to, fails: it
\* starts with a fresh store, which it saves over whatever Path holds.
InitializeError ==
  /\ pc = "idle" /\ path.kind # "absent" /\ errors < MaxErrors
  /\ errors' = errors + 1
  /\ Save(FreshStore) /\ up' = "up"
  /\ UNCHANGED <<path, backup, crashes, cut, saved, nulled, panicked>>

Stop ==
  /\ Call
  /\ up' = "down"
  /\ UNCHANGED <<store, pc, out, disk, nulled, panicked>>

\* A crash in os.WriteFile leaves the file torn, or whole when only the return
\* was missing.
Crash ==
  /\ up = "up" /\ crashes < MaxCrashes
  /\ crashes' = crashes + 1 /\ cut' = (pc = "write")
  /\ up' = "crashed" /\ pc' = "idle"
  /\ backup' \in IF pc = "copy" THEN {path} \cup {NoData(k) : k \in Torn} ELSE {backup}
  /\ path' \in IF pc = "write" THEN {File(out)} \cup {NoData(k) : k \in Torn} ELSE {path}
  /\ UNCHANGED <<store, out, errors, saved, nulled, panicked>>

Next ==
  \/ Saving \/ SaveError \/ Initialize \/ InitializeError \/ Stop \/ Crash
  \/ \E k \in Keys : \/ \E v \in Any : Set(k, v) \/ SetAuto(k, v)
                     \/ Delete(k)
  \/ Clear \/ RestoreFromBackup
  \/ \E obj \in MapsOf(Values) : ImportJSON(obj) \/ MergeJSON(obj)

Spec == Init /\ [][Next]_vars

-----------------------------------------------------------------------------
(* Properties *)

\* Every variable stays in its range; what is on disk is always JSON, whatever
\* Go values the store holds.
TypeOK ==
  /\ up \in {"up", "down", "crashed"}
  /\ store \in MapsOf(Any) /\ out \in MapsOf(Values)
  /\ pc \in {"idle", "backup", "copy", "truncate", "write"}
  /\ path \in Files /\ backup \in Files /\ saved \in Files
  /\ crashes \in Nat /\ cut \in BOOLEAN /\ errors \in Nat
  /\ nulled \in BOOLEAN /\ panicked \in {"no", "nilmap", "ragged"}

\* At every point of every save, and right after the first crash, one of the
\* two files still holds the last snapshot whose save succeeded.
OneIntactCopy ==
  /\ errors = 0 /\ (crashes = 0 \/ (crashes = 1 /\ up = "crashed"))
  /\ saved.kind = "whole"
  => saved \in {path, backup}

\* Without crashes and file errors, Path holds exactly the store whenever the
\* store can be marshalled at all: a save that failed on a bad value is made
\* good by whichever later call removes that value.
DiskFollowsMemory ==
  /\ up = "up" /\ pc = "idle" /\ crashes = 0 /\ errors = 0 /\ ~HasBad(store)
  => path = File(Marshal(store))

\* Backup recovery: the first Initialize after a crash returns, with the last
\* saved store or the one that was being saved.
RecoversSaved ==
  [][ /\ up = "crashed" /\ crashes = 1 /\ errors = 0 /\ saved.kind = "whole"
      /\ Initialize
      => up' = "up" /\ store' \in {saved.data, out} ]_vars

\* What there is of it. The first Initialize after a crash brings back the last
\* saved store or the one that was being saved, unless the crash cut the write
\* of Path off: then, with the saved store whole in the backup, it panics on a
\* ragged Path, or takes a short one for a new store and starts empty.
RecoversUnlessCut ==
  [][ /\ up = "crashed" /\ crashes = 1 /\ errors = 0 /\ saved.kind = "whole"
      /\ Initialize
      => \/ up' = "up" /\ store' \in {saved.data, out}
         \/ /\ cut /\ backup = saved
            /\ \/ path.kind = "ragged" /\ up' = "crashed"
               \/ path.kind = "short" /\ up' = "up" /\ store' = Empty ]_vars

\* A panic on a nil map can be traced back to an import of null, however many
\* saves, crashes, restarts and restores lie between.
PanicNeedsNull == panicked = "nilmap" => nulled

=============================================================================
