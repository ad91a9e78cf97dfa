---------------------------- MODULE EncryptedFiles ----------------------------
(***************************************************************************)
(* Encrypting and decrypting a file in place (encrypt_in_place and         *)
(* decrypt_in_place in crates/orchid-fs/src/encrypted/engine.rs, with      *)
(* encryptor.rs and decryptor.rs of crates/orchid-crypto).                 *)
(*                                                                         *)
(* Every file operation is a step.  A ciphertext is the content it decrypts*)
(* to, a sidecar the content its hash is of.  The file manager works       *)
(* through a selection one file at a time, and several file managers may   *)
(* be open (Tasks).                                                        *)
(***************************************************************************)
EXTENDS Naturals, FiniteSets

CONSTANTS
    Files,
    Stem,        \* file name without its last extension
    Contents,
    Tasks,       \* file managers at work
    None,
    Torn,        \* bytes that are no content: a partial write, or zeros
    Faults,      \* calls that may fail: "write", "rename", "wipe", "remove",
                 \* "table"
    Crashes,     \* the process may die
    MaxSaves     \* bound: what the user stores

ASSUME EncryptedConstants ==
    /\ {None, Torn} \cap Contents = {}
    /\ None # Torn
    /\ None \notin Files
    /\ MaxSaves \in Nat

VARIABLES
    plain,       \* the file
    age,         \* <file>.age
    ageTmp,      \* <file>.age.tmp
    meta,        \* <file>.age.meta
    decTmp,      \* <stem>.orchid-decrypting
    record,      \* ENCRYPTED_PATHS
    step,        \* tasks: next step
    file,        \* tasks: the file
    buf,         \* tasks: plaintext in memory
    saves,
    want,        \* ghost: what the user last stored under the name
    edited,      \* ghost: files the user stored while a task was at them
    clashed,     \* ghost: files two tasks were at
    retried      \* ghost: files encrypted again when no longer whole, or whose
                 \*        newer plaintext a decryption replaced

disk == <<plain, age, ageTmp, meta, decTmp>>
work == <<step, file, buf>>
ghosts == <<want, edited, clashed, retried>>
vars == <<plain, age, ageTmp, meta, decTmp, record, step, file, buf, saves,
          want, edited, clashed, retried>>

Stems == {Stem[f] : f \in Files}

Init ==
    /\ plain = [f \in Files |-> None]
    /\ age = [f \in Files |-> None]
    /\ ageTmp = [f \in Files |-> None]
    /\ meta = [f \in Files |-> None]
    /\ decTmp = [d \in Stems |-> None]
    /\ record = {}
    /\ step = [t \in Tasks |-> "idle"]
    /\ file = [t \in Tasks |-> None]
    /\ buf = [t \in Tasks |-> None]
    /\ saves = 0
    /\ want = [f \in Files |-> None]
    /\ edited = {}
    /\ clashed = {}
    /\ retried = {}

\* The user stores the file.
Save(f, c) ==
    /\ saves < MaxSaves
    /\ saves' = saves + 1
    /\ plain' = [plain EXCEPT ![f] = c]
    /\ want' = [want EXCEPT ![f] = c]
    /\ edited' = IF \E t \in Tasks : file[t] = f THEN edited \cup {f}
                                                ELSE edited
    /\ UNCHANGED <<age, ageTmp, meta, decTmp, record, work, clashed, retried>>

-----------------------------------------------------------------------------
Goto(t, s) == step' = [step EXCEPT ![t] = s]

Load(t, c) == buf' = [buf EXCEPT ![t] = c]

\* The call returns, with a result or an error.
Return(t) ==
    /\ step' = [step EXCEPT ![t] = "idle"]
    /\ file' = [file EXCEPT ![t] = None]
    /\ buf' = [buf EXCEPT ![t] = None]

Fails(t, fault) ==
    /\ fault \in Faults
    /\ Return(t)

Begin(t, f, s) ==
    /\ step[t] = "idle"
    /\ file' = [file EXCEPT ![t] = f]
    /\ Goto(t, s)
    /\ clashed' = IF \E u \in Tasks : file[u] = f THEN clashed \cup {f}
                                              ELSE clashed

-----------------------------------------------------------------------------
(* encrypt_in_place.                                                       *)

\* The size of the file, which must be there.
Encrypt(t, f) ==
    /\ plain[f] # None
    /\ Begin(t, f, "read")
    /\ retried' = IF plain[f] = Torn THEN retried \cup {f} ELSE retried
    /\ UNCHANGED <<disk, record, buf, saves, want, edited>>

\* read(input_path) and the encryption in memory.
ReadPlain(t) ==
    /\ step[t] = "read"
    /\ \/ /\ plain[file[t]] = None
          /\ Return(t)
       \/ /\ plain[file[t]] # None
          /\ Load(t, plain[file[t]])
          /\ Goto(t, "tmp")
          /\ UNCHANGED file
    /\ UNCHANGED <<disk, record, saves, ghosts>>

WriteTmp(t) ==
    /\ step[t] = "tmp"
    /\ \/ /\ ageTmp' = [ageTmp EXCEPT ![file[t]] = buf[t]]
          /\ Goto(t, "age")
          /\ UNCHANGED <<file, buf>>
       \/ /\ Fails(t, "write")
          /\ ageTmp' = [ageTmp EXCEPT ![file[t]] = Torn]
    /\ UNCHANGED <<plain, age, meta, decTmp, record, saves, ghosts>>

RenameTmp(t) ==
    LET f == file[t] IN
    /\ step[t] = "age"
    /\ \/ /\ ageTmp[f] # None
          /\ age' = [age EXCEPT ![f] = ageTmp[f]]
          /\ ageTmp' = [ageTmp EXCEPT ![f] = None]
          /\ Goto(t, "meta")
          /\ UNCHANGED <<file, buf>>
       \/ /\ (ageTmp[f] = None /\ Return(t)) \/ Fails(t, "rename")
          /\ UNCHANGED <<age, ageTmp>>
    /\ UNCHANGED <<plain, meta, decTmp, record, saves, ghosts>>

\* Mutant: a sidecar that cannot be written is not an error.
WriteMeta_Lax(t) ==
    /\ step[t] = "meta"
    /\ \/ meta' = [meta EXCEPT ![file[t]] = buf[t]]
       \/ /\ "write" \in Faults
          /\ meta' = [meta EXCEPT ![file[t]] = Torn]
    /\ Goto(t, "wipe")
    /\ UNCHANGED <<plain, age, ageTmp, decTmp, record, file, buf, saves,
                   ghosts>>

WriteMeta(t) ==
    /\ step[t] = "meta"
    /\ \/ /\ meta' = [meta EXCEPT ![file[t]] = buf[t]]
          /\ Goto(t, "wipe")
          /\ UNCHANGED <<file, buf>>
       \/ /\ Fails(t, "write")
          /\ meta' = [meta EXCEPT ![file[t]] = Torn]
    /\ UNCHANGED <<plain, age, ageTmp, decTmp, record, saves, ghosts>>

\* overwrite_then_delete: the zeros.  A file that is too large, or cannot be
\* opened, is only removed.
Overwrite(t) ==
    LET f == file[t] IN
    /\ step[t] = "wipe"
    /\ \/ plain' = [plain EXCEPT ![f] = IF @ = None THEN None ELSE Torn]
       \/ /\ "wipe" \in Faults
          /\ UNCHANGED plain
    /\ Goto(t, "unlink")
    /\ UNCHANGED <<age, ageTmp, meta, decTmp, record, file, buf, saves, ghosts>>

\* remove_file, whose result is dropped.
RemovePlain(t) ==
    /\ step[t] = "unlink"
    /\ \/ plain' = [plain EXCEPT ![file[t]] = None]
       \/ /\ "remove" \in Faults
          /\ UNCHANGED plain
    /\ Goto(t, "mark")
    /\ UNCHANGED <<age, ageTmp, meta, decTmp, record, file, buf, saves, ghosts>>

\* mark_encrypted.
Mark(t) ==
    /\ step[t] = "mark"
    /\ \/ /\ Return(t)
          /\ record' = record \cup {file[t]}
       \/ /\ Fails(t, "table")
          /\ UNCHANGED record
    /\ UNCHANGED <<disk, saves, ghosts>>

-----------------------------------------------------------------------------
(* decrypt_in_place.                                                       *)

\* read(input) and the decryption in memory.
Decrypt(t, f) ==
    /\ age[f] \in Contents
    /\ Begin(t, f, "verify")
    /\ Load(t, age[f])
    /\ retried' = IF plain[f] \in {None, Torn, age[f]} THEN retried
                                                        ELSE retried \cup {f}
    /\ UNCHANGED <<disk, record, saves, want, edited>>

\* The sidecar must be readable and its hash the plaintext's.
Verify(t) ==
    /\ step[t] = "verify"
    /\ \/ /\ meta[file[t]] = buf[t]
          /\ Goto(t, "decTmp")
          /\ UNCHANGED <<file, buf>>
       \/ /\ meta[file[t]] # buf[t]
          /\ Return(t)
    /\ UNCHANGED <<disk, record, saves, ghosts>>

\* output.with_extension("orchid-decrypting") replaces the last extension.
WriteDecTmp(t) ==
    LET d == Stem[file[t]] IN
    /\ step[t] = "decTmp"
    /\ \/ /\ decTmp' = [decTmp EXCEPT ![d] = buf[t]]
          /\ Goto(t, "plain")
          /\ UNCHANGED <<file, buf>>
       \/ /\ Fails(t, "write")
          /\ decTmp' = [decTmp EXCEPT ![d] = Torn]
    /\ UNCHANGED <<plain, age, ageTmp, meta, record, saves, ghosts>>

\* Mutant: a rename that fails is not noticed.
RenameDecTmp_Lax(t) ==
    LET d == Stem[file[t]] IN
    /\ step[t] = "plain"
    /\ \/ /\ decTmp[d] # None
          /\ plain' = [plain EXCEPT ![file[t]] = decTmp[d]]
          /\ decTmp' = [decTmp EXCEPT ![d] = None]
       \/ /\ "rename" \in Faults
          /\ UNCHANGED <<plain, decTmp>>
    /\ Goto(t, "rmAge")
    /\ UNCHANGED <<age, ageTmp, meta, record, file, buf, saves, ghosts>>

RenameDecTmp(t) ==
    LET d == Stem[file[t]] IN
    /\ step[t] = "plain"
    /\ \/ /\ decTmp[d] # None
          /\ plain' = [plain EXCEPT ![file[t]] = decTmp[d]]
          /\ decTmp' = [decTmp EXCEPT ![d] = None]
          /\ Goto(t, "rmAge")
          /\ UNCHANGED <<file, buf>>
       \/ /\ (decTmp[d] = None /\ Return(t)) \/ Fails(t, "rename")
          /\ UNCHANGED <<plain, decTmp>>
    /\ UNCHANGED <<age, ageTmp, meta, record, saves, ghosts>>

RemoveAge(t) ==
    /\ step[t] = "rmAge"
    /\ \/ /\ age' = [age EXCEPT ![file[t]] = None]
          /\ Goto(t, "rmMeta")
          /\ UNCHANGED <<file, buf>>
       \/ /\ Fails(t, "remove")
          /\ UNCHANGED age
    /\ UNCHANGED <<plain, ageTmp, meta, decTmp, record, saves, ghosts>>

RemoveMeta(t) ==
    /\ step[t] = "rmMeta"
    /\ \/ /\ meta' = [meta EXCEPT ![file[t]] = None]
          /\ Goto(t, "unmark")
          /\ UNCHANGED <<file, buf>>
       \/ /\ Fails(t, "remove")
          /\ UNCHANGED meta
    /\ UNCHANGED <<plain, age, ageTmp, decTmp, record, saves, ghosts>>

\* unmark; a path that was not marked is an error, and nothing more.
Unmark(t) ==
    /\ step[t] = "unmark"
    /\ \/ /\ Return(t)
          /\ record' = record \ {file[t]}
       \/ /\ Fails(t, "table")
          /\ UNCHANGED record
    /\ UNCHANGED <<disk, saves, ghosts>>

\* The process dies in the middle of its calls and starts again.
Restart ==
    /\ Crashes
    /\ \E t \in Tasks : step[t] # "idle"
    /\ step' = [t \in Tasks |-> "idle"]
    /\ file' = [t \in Tasks |-> None]
    /\ buf' = [t \in Tasks |-> None]
    /\ UNCHANGED <<disk, record, saves, ghosts>>

-----------------------------------------------------------------------------
Next ==
    \/ \E f \in Files, c \in Contents : Save(f, c)
    \/ \E t \in Tasks, f \in Files : Encrypt(t, f) \/ Decrypt(t, f)
    \/ \E t \in Tasks :
        \/ ReadPlain(t) \/ WriteTmp(t) \/ RenameTmp(t) \/ WriteMeta(t)
        \/ Overwrite(t) \/ RemovePlain(t) \/ Mark(t)
        \/ Verify(t) \/ WriteDecTmp(t) \/ RenameDecTmp(t)
        \/ RemoveAge(t) \/ RemoveMeta(t) \/ Unmark(t)
    \/ Restart

Spec == Init /\ [][Next]_vars

-----------------------------------------------------------------------------
(* Properties.                                                             *)

Bytes == Contents \cup {None, Torn}

TypeOK ==
    /\ plain \in [Files -> Bytes]
    /\ age \in [Files -> Bytes]
    /\ ageTmp \in [Files -> Bytes]
    /\ meta \in [Files -> Bytes]
    /\ decTmp \in [Stems -> Bytes]
    /\ record \subseteq Files
    /\ step \in [Tasks -> {"idle", "read", "tmp", "age", "meta", "wipe",
                           "unlink", "mark", "verify", "decTmp", "plain",
                           "rmAge", "rmMeta", "unmark"}]
    /\ file \in [Tasks -> Files \cup {None}]
    /\ buf \in [Tasks -> Contents \cup {None, Torn}]
    /\ saves \in 0 .. MaxSaves
    /\ want \in [Files -> Contents \cup {None}]
    /\ edited \cup clashed \cup retried \subseteq Files

\* What the user stored can be had back at any moment, whatever call fails
\* and wherever the process dies: the file itself is whole, or its ciphertext
\* is and has the sidecar that decrypt_file demands.  Exempt are files the
\* user changes during a call, files two calls are at, a second attempt after
\* an interrupted wipe and a decryption over a newer file.
NothingLost ==
    \A f \in Files \ (edited \cup clashed \cup retried) :
        want[f] # None =>
            plain[f] = want[f] \/ (age[f] = want[f] /\ meta[f] = want[f])

\* "writes plaintext to the original path, removes the `.age` payload"
\* (engine.rs:256): when a decryption goes on to remove the ciphertext, the
\* file holds the plaintext that was in it.  Nobody else is at the file.
PlaintextWritten ==
    \A t \in Tasks :
        step[t] = "rmAge" /\ file[t] \notin edited \cup clashed =>
            plain[file[t]] = buf[t]
=============================================================================
