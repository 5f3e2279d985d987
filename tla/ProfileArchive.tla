---------------------------- MODULE ProfileArchive -----------------------------
(***************************************************************************)
(* `cfy profiles export' and `import' (commands/profiles.py): the          *)
(* directory of the profiles is packed into an archive and extracted       *)
(* again, if asked for with the SSH keys the profiles name, which are      *)
(* copied to .exported-ssh-keys first and moved back to their places last. *)
(*                                                                         *)
(* A command may fail, or be killed, at any step, and packing that fails   *)
(* half way still closes the archive, which can be read; the user changes  *)
(* profiles and keys between commands.  All keys are files of one name in  *)
(* different directories, and a key's content is a value.                  *)
(***************************************************************************)
EXTENDS Naturals

CONSTANTS
  Saved,      \* names of profiles
  KeyPaths,   \* where keys may be
  NoPath,     \* ssh_key is not set
  Contents,   \* of a key
  NoFile,
  HalfFile,   \* copying was interrupted
  Beginnings, \* profiles, with their ssh_key, and keys that the user has at first
  MaxChanges, \* bound: changes the user makes between commands
  MaxTransfers \* bound: commands

Paths == [Saved -> {{}} \cup {{p} : p \in KeyPaths \cup {NoPath}}]

ASSUME ArchiveAssumption ==
  /\ NoPath \notin KeyPaths
  /\ NoFile # HalfFile /\ {NoFile, HalfFile} \cap Contents = {}
  /\ Beginnings \subseteq Paths \X [KeyPaths -> Contents \cup {NoFile}]
  /\ MaxChanges \in Nat /\ MaxTransfers \in Nat

VARIABLES
  keyPath,      \* the ssh_key of each profile, as a set of one; {}: no profile
  keyFile,      \* the content of each key
  exportedDir,  \* whether .exported-ssh-keys is there
  exportedKey,  \* its file for each profile
  archive,      \* the archive, or NoArchive
  transferPc,   \* where the command is, or how it ended
  includeKeys,  \* --include-keys
  left,         \* profiles that are still to be handled
  changes,      \* how many changes the user has made
  transfers,    \* how many commands were begun
  untouched,    \* (history) profiles and keys when the import began
  leftOver      \* (history) the archive, or the directory an import fills, has keys
                \* that no profile of the archive names

archiveVars == <<keyPath, keyFile, exportedDir, exportedKey, archive, transferPc, includeKeys,
                 left, changes, transfers, untouched, leftOver>>
counts == <<changes, transfers>>
files == <<keyPath, keyFile, exportedDir, exportedKey>>

NoKeys == [n \in Saved |-> NoFile]
NoProfiles == [n \in Saved |-> {}]
\* An archive has profiles, and .exported-ssh-keys with its files.  Of the last
\* three (history), `pathsOf' and `keysOf' are the profiles and the content of
\* their keys when it was made, and `complete' what the export told of it:
\* "none", "profiles" or "keys", with --include-keys.
NoArchive == [readable |-> FALSE, keyPath |-> NoProfiles, dir |-> FALSE, keys |-> NoKeys,
              pathsOf |-> NoProfiles, keysOf |-> NoKeys, complete |-> "none"]
Resting == {"none", "error", "exported", "imported", "restored"}

\* env.get_profile_names()
ThoseIn(paths) == {n \in Saved : paths[n] # {}}
HasKey(paths, n) == paths[n] \cap KeyPaths # {}
KeyOf(n) == IF HasKey(keyPath, n) THEN keyFile[CHOOSE p \in keyPath[n] : TRUE] ELSE NoFile

ArchiveInit ==
  /\ \E b \in Beginnings : keyPath = b[1] /\ keyFile = b[2]
  /\ changes = 0 /\ transfers = 0
  /\ exportedDir = FALSE /\ exportedKey = NoKeys
  /\ archive = NoArchive
  /\ transferPc = "none" /\ includeKeys = FALSE /\ left = {}
  /\ untouched = <<>> /\ leftOver = FALSE
-----------------------------------------------------------------------------
Goto(where) == transferPc' = where
Finish(how) ==
  transferPc' = how /\ left' = {} /\ untouched' = <<>> /\ includeKeys' = FALSE

\* The user, between commands: profiles use, set and delete, and the key files.
UserChanges ==
  /\ transferPc \in Resting /\ Goto("none")
  /\ changes < MaxChanges /\ changes' = changes + 1
  /\ \/ \E n \in Saved, path \in KeyPaths \cup {NoPath} :
          keyPath' = [keyPath EXCEPT ![n] = {path}] /\ UNCHANGED keyFile
     \/ \E n \in Saved : keyPath' = [keyPath EXCEPT ![n] = {}] /\ UNCHANGED keyFile
     \/ \E p \in KeyPaths, c \in Contents \cup {NoFile} :
          keyFile' = [keyFile EXCEPT ![p] = c] /\ UNCHANGED keyPath
  /\ UNCHANGED <<transfers, exportedDir, exportedKey, archive, includeKeys, left, untouched,
                 leftOver>>

\* (mutant) The file is named after the key alone.
BackupNamePlain(n) == CHOOSE m \in Saved : TRUE

\* backup_path: the key's file name, which is the same for all, and the profile's.
BackupName(n) == n

\* _assert_profiles_exist()
ExportCall(keys) ==
  /\ transfers < MaxTransfers /\ transfers' = transfers + 1
  /\ transferPc \in Resting
  /\ left' = ThoseIn(keyPath)
  /\ includeKeys' = (keys /\ left' # {})
  /\ Goto(IF left' = {} THEN "error" ELSE IF keys THEN "back_up" ELSE "open")
  /\ UNCHANGED <<changes, files, archive, untouched, leftOver>>

\* _move_ssh_key, is_backup: makedirs and copy2, which fails without the file
\* or half way.
BackUpKey ==
  /\ transferPc = "back_up"
  /\ \E n \in left :
       IF ~HasKey(keyPath, n)
       THEN /\ left' = left \ {n}
            /\ UNCHANGED <<exportedDir, exportedKey, transferPc, untouched, includeKeys>>
       ELSE /\ exportedDir' = TRUE
            /\ \/ /\ KeyOf(n) # NoFile
                  /\ exportedKey' = [exportedKey EXCEPT ![BackupName(n)] = KeyOf(n)]
                  /\ left' = left \ {n} /\ UNCHANGED <<transferPc, untouched, includeKeys>>
               \/ /\ \/ UNCHANGED exportedKey
                     \/ /\ KeyOf(n) # NoFile
                        /\ exportedKey' = [exportedKey EXCEPT ![BackupName(n)] = HalfFile]
                  /\ Finish("error")
  /\ UNCHANGED <<counts, keyPath, keyFile, archive, leftOver>>

\* utils.tar: the archive that was there is gone from here on.
OpenArchive ==
  /\ transferPc = "open" \/ (transferPc = "back_up" /\ left = {})
  /\ archive' = NoArchive /\ leftOver' = FALSE
  /\ Goto("pack")
  /\ UNCHANGED <<counts, files, includeKeys, left, untouched>>

\* What an archive of these files of the directory of the profiles is.
ArchiveOf(keys, profiles) ==
  [readable |-> TRUE, dir |-> exportedDir,
   keys |-> [n \in Saved |-> IF n \in keys THEN exportedKey[n] ELSE NoFile],
   keyPath |-> [n \in Saved |-> IF n \in profiles THEN keyPath[n] ELSE {}],
   pathsOf |-> keyPath, keysOf |-> [n \in Saved |-> KeyOf(n)], complete |-> "none"]

\* Some of the packed keys are not those that the packed profiles name: they
\* were left there by an earlier command, or their profile is not packed.
OtherKeys(keys, profiles) ==
  \E n \in keys : /\ exportedKey[n] # NoFile
                  /\ ~includeKeys \/ n \notin profiles \/ ~HasKey(keyPath, n)

\* Everything in the directory is packed.
Pack ==
  /\ transferPc = "pack"
  /\ LET all == ArchiveOf(Saved, Saved)
     IN  archive' = IF includeKeys THEN all ELSE [all EXCEPT !.complete = "profiles"]
  /\ leftOver' = OtherKeys(Saved, Saved)
  /\ IF includeKeys THEN Goto("remove") /\ UNCHANGED <<left, untouched, includeKeys>>
                    ELSE Finish("exported")
  /\ UNCHANGED <<counts, files>>

\* tar.add raises, and closing() ends the archive with what it has, in the
\* directory's order: keys first.
PackFails ==
  /\ transferPc = "pack"
  /\ \E keys, profiles \in SUBSET Saved :
       /\ profiles # {} => keys = Saved
       /\ archive' = ArchiveOf(keys, profiles) /\ leftOver' = OtherKeys(keys, profiles)
  /\ Finish("error")
  /\ UNCHANGED <<counts, files>>

\* shutil.rmtree, which fails if no profile has a key.
RemoveExported ==
  /\ transferPc = "remove"
  /\ exportedDir' = FALSE /\ exportedKey' = NoKeys
  /\ IF exportedDir
     THEN Finish("exported") /\ archive' = [archive EXCEPT !.complete = "keys"]
     ELSE Finish("error") /\ UNCHANGED archive
  /\ UNCHANGED <<counts, keyPath, keyFile, leftOver>>
-----------------------------------------------------------------------------
\* _assert_is_tarfile, _assert_profiles_archive
ImportCall(keys) ==
  /\ transfers < MaxTransfers /\ transfers' = transfers + 1
  /\ transferPc \in Resting /\ includeKeys' = (keys /\ archive.readable)
  /\ IF archive.readable
     THEN /\ Goto("extract_keys")
          /\ left' = {n \in Saved : archive.keys[n] # NoFile}
          /\ untouched' = <<keyPath, keyFile>>
          /\ leftOver' = (leftOver \/ \E n \in Saved \ left' : exportedKey[n] # NoFile)
     ELSE Goto("error") /\ UNCHANGED <<left, untouched, leftOver>>
  /\ UNCHANGED <<changes, files, archive>>

\* utils.untar, in the archive's order: .exported-ssh-keys and its files, the
\* last of them perhaps not to its end ...
ExtractKey ==
  /\ transferPc = "extract_keys"
  /\ exportedDir' = TRUE
  /\ \E n \in left :
       \/ /\ exportedKey' = [exportedKey EXCEPT ![n] = archive.keys[n]]
          /\ left' = left \ {n} /\ UNCHANGED <<transferPc, untouched, includeKeys>>
       \/ exportedKey' = [exportedKey EXCEPT ![n] = HalfFile] /\ Finish("error")
  /\ UNCHANGED <<counts, keyPath, keyFile, archive, leftOver>>

KeysExtracted ==
  /\ transferPc = "extract_keys" /\ left = {}
  /\ exportedDir' = (exportedDir \/ archive.dir)
  /\ left' = ThoseIn(archive.keyPath)
  /\ Goto("extract")
  /\ UNCHANGED <<counts, keyPath, keyFile, exportedKey, archive, includeKeys, untouched,
                 leftOver>>

\* ... then the profiles.
ExtractProfile ==
  /\ transferPc = "extract"
  /\ \E n \in left :
       keyPath' = [keyPath EXCEPT ![n] = archive.keyPath[n]] /\ left' = left \ {n}
  /\ UNCHANGED <<counts, keyFile, exportedDir, exportedKey, archive, transferPc, includeKeys,
                 untouched, leftOver>>

\* for profile in env.get_profile_names(), or only a message about the keys.
Extracted ==
  /\ transferPc = "extract" /\ left = {}
  /\ IF includeKeys
     THEN Goto("restore") /\ left' = ThoseIn(keyPath) /\ UNCHANGED <<untouched, includeKeys>>
     ELSE Finish("imported")
  /\ UNCHANGED <<counts, files, archive, leftOver>>

\* _move_ssh_key: the key is moved if it is there.  Its place may not exist,
\* and between file systems a move is a copy that may end half way.
RestoreKey ==
  /\ transferPc = "restore"
  /\ \E n \in left :
       LET moved == HasKey(keyPath, n) /\ exportedKey[BackupName(n)] # NoFile
       IN  \/ /\ keyFile' = [p \in KeyPaths |->
                   IF moved /\ p \in keyPath[n] THEN exportedKey[BackupName(n)] ELSE keyFile[p]]
              /\ exportedKey' = IF moved THEN [exportedKey EXCEPT ![BackupName(n)] = NoFile]
                                         ELSE exportedKey
              /\ left' = left \ {n} /\ UNCHANGED <<transferPc, untouched, includeKeys>>
           \/ /\ moved /\ Finish("error")
              /\ \/ UNCHANGED keyFile
                 \/ keyFile' = [p \in KeyPaths |->
                                  IF p \in keyPath[n] THEN HalfFile ELSE keyFile[p]]
              /\ UNCHANGED exportedKey
  /\ UNCHANGED <<counts, keyPath, exportedDir, archive, leftOver>>

Restored ==
  /\ transferPc = "restore" /\ left = {}
  /\ Finish("restored")
  /\ UNCHANGED <<counts, files, archive, leftOver>>

\* Killed, or the disk is full.
TransferStops ==
  /\ transferPc \notin Resting /\ Finish("error")
  /\ UNCHANGED <<counts, files, archive, leftOver>>

TransferStep ==
  \/ BackUpKey \/ OpenArchive \/ Pack \/ PackFails \/ RemoveExported
  \/ ExtractKey \/ KeysExtracted \/ ExtractProfile \/ Extracted \/ RestoreKey \/ Restored
ArchiveNext ==
  \/ TransferStep \/ UserChanges \/ TransferStops
  \/ \E keys \in BOOLEAN : ExportCall(keys) \/ ImportCall(keys)
-----------------------------------------------------------------------------
\* Types of the variables.
ArchiveTypeOK ==
  LET KeyFiles == [Saved -> Contents \cup {NoFile, HalfFile}]
  IN  /\ keyPath \in Paths /\ keyFile \in [KeyPaths -> Contents \cup {NoFile, HalfFile}]
      /\ exportedDir \in BOOLEAN /\ exportedKey \in KeyFiles
      /\ exportedDir \/ exportedKey = NoKeys
      /\ archive \in [readable : BOOLEAN, keyPath : Paths, dir : BOOLEAN, keys : KeyFiles,
                      pathsOf : Paths, keysOf : KeyFiles,
                      complete : {"none", "profiles", "keys"}]
      /\ transferPc \in Resting \cup {"back_up", "open", "pack", "remove", "extract_keys",
                                      "extract", "restore"}
      /\ includeKeys \in BOOLEAN /\ left \subseteq Saved /\ leftOver \in BOOLEAN

\* "once the profiles are imported, the ssh keys will be put back in their
\* original locations": every profile of the archive is there again, and the
\* key it names is the one it named when it was exported, although all keys
\* have the same name.
KeysPutBack ==
  transferPc = "restored" /\ ~leftOver =>
    \A n \in ThoseIn(archive.keyPath) :
      /\ keyPath[n] = archive.keyPath[n]
      /\ archive.keys[n] # NoFile => KeyOf(n) = archive.keysOf[n]

\* An import that stops while it puts the keys back can be repeated: each key
\* is in its place or still in the directory.
NoKeyLost ==
  transferPc = "restore" /\ ~leftOver =>
    \A n \in ThoseIn(archive.keyPath) :
      archive.keys[n] # NoFile => archive.keysOf[n] \in {KeyOf(n), exportedKey[n]}

\* "any other profiles will be left intact", and so will their keys, wherever
\* the import stops, unless an imported profile has the same key.
OthersIntact ==
  untouched # <<>> /\ ~leftOver =>
    \A n \in Saved \ ThoseIn(archive.keyPath) :
      /\ keyPath[n] = untouched[1][n]
      /\ \A p \in keyPath[n] \cap KeyPaths :
           (\A m \in ThoseIn(archive.keyPath) : p \notin archive.keyPath[m]) =>
             keyFile[p] = untouched[2][p]

\* An archive of which the export said that it is complete has every profile,
\* and with --include-keys the key, whole, of every profile that names one.
\* (One of which it did not say so may be read and imported all the same.)  No
\* archive has another key for a profile than the one it had, unless a stopped
\* command left it behind.
ArchiveIsComplete ==
  /\ archive.complete # "none" => archive.keyPath = archive.pathsOf
  /\ archive.complete = "keys" =>
       \A n \in Saved : HasKey(archive.pathsOf, n) =>
         archive.keys[n] = archive.keysOf[n] /\ archive.keys[n] # NoFile
  /\ archive.readable /\ ~leftOver =>
       \A n \in Saved : archive.keys[n] \in {NoFile, archive.keysOf[n]}

\* An export can be imported, with the right keys, and without harm to others.
ArchiveInv == ArchiveTypeOK /\ KeysPutBack /\ NoKeyLost /\ OthersIntact /\ ArchiveIsComplete
=============================================================================
