------------------------------- MODULE RomStore ------------------------------
(***************************************************************************)
(* The ROM store: directories roms/<32-hex>/ with their files              *)
(* (gb_mcp/storage/roms.py) and the table that maps them to emails         *)
(* (gb_mcp/storage/db.py).  There is no transaction over both.             *)
(***************************************************************************)
EXTENDS Naturals, FiniteSetsExt

CONSTANTS
  Subdirs,   \* the names that the random generator yields
  Emails,    \* normalized addresses
  Names,     \* file names with a ROM suffix, in the order of a listing
  Contents,  \* bytes of a ROM file
  Playable,  \* those that the validator and assert_rom_playable accept
  Before,    \* contents of the ROM of an earlier version, if any
  None

ASSUME RomStoreAssumption ==
  /\ Names \subseteq Nat
  /\ Playable \subseteq Contents
  /\ Before \subseteq Contents
  /\ None \notin Subdirs \cup Emails
  /\ None \notin Names
  /\ None \notin Contents

VARIABLES
  romDirs,  \* directories on disk
  files,    \* files[d][n]: content of the file, or None
  owner     \* the table: email of a subdirectory, or None

storeVars == <<romDirs, files, owner>>

StoreTypeOK ==
  /\ romDirs \subseteq Subdirs
  /\ files \in [Subdirs -> [Names -> Contents \cup {None}]]
  /\ owner \in [Subdirs -> Emails \cup {None}]

NoFiles == [n \in Names |-> None]

(* An empty store, or one subdirectory with a ROM from before. *)
StoreInit ==
  \/ /\ romDirs = {}
     /\ files = [d \in Subdirs |-> NoFiles]
     /\ owner = [d \in Subdirs |-> None]
  \/ \E d \in Subdirs, e \in Emails, r \in Before :
       /\ romDirs = {d}
       /\ files = [[s \in Subdirs |-> NoFiles] EXCEPT ![d][Min(Names)] = r]
       /\ owner = [[s \in Subdirs |-> None] EXCEPT ![d] = e]

(* _iter_subdirectory_files: the ROM files in a directory. *)
Listed(d) == {n \in Names : files[d][n] # None}

(* _rom_in_subdirectory: the first playable ROM of the listing. *)
Bootable(d) == {n \in Listed(d) : files[d][n] \in Playable}

Picked(d) == IF Bootable(d) = {} THEN None ELSE files[d][Min(Bootable(d))]

(* _allocate_subdirectory_name: unused on disk and in the table. *)
Unused(d) == d \notin romDirs /\ owner[d] = None

(* Mutant: any mapped subdirectory will do. *)
OwnsAny(e, d) == owner[d] # None

(* get_subdirectory_for_email. *)
Owns(e, d) == owner[d] = e

(* _persist_validated_rom: mkdir, temporary file, os.replace. *)
Write(d, n, bytes) ==
  /\ romDirs' = romDirs \cup {d}
  /\ files' = [files EXCEPT ![d][n] = bytes]
  /\ UNCHANGED owner

(* Mutant: a replacement that empties the directory before it writes. *)
WriteAbortedAfresh(d) ==
  /\ romDirs' = romDirs \cup {d}
  /\ files' = [files EXCEPT ![d] = NoFiles]
  /\ UNCHANGED owner

(* It raises between mkdir and os.replace. *)
WriteAborted(d) ==
  /\ romDirs' = romDirs \cup {d}
  /\ UNCHANGED <<files, owner>>

UnlinkRom(d, n) ==
  /\ files' = [files EXCEPT ![d][n] = None]
  /\ UNCHANGED <<romDirs, owner>>

(* map_subdirectory_to_email, committed by session_scope. *)
Mappable(d, e) == owner[d] \in {None, e}

Map(d, e) ==
  /\ Mappable(d, e)
  /\ owner' = [owner EXCEPT ![d] = e]
  /\ UNCHANGED <<romDirs, files>>
=============================================================================
