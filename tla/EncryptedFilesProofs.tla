------------------------- MODULE EncryptedFilesProofs -------------------------
(***************************************************************************)
(* Proofs about EncryptedFiles, for any files, contents, file managers,    *)
(* faults, crashes and number of saves.                                    *)
(***************************************************************************)
EXTENDS EncryptedFiles, TLAPS

-----------------------------------------------------------------------------
(* Type correctness.  A task is at a file from its first to its last step. *)

AtFile == \A t \in Tasks : file[t] = None <=> step[t] = "idle"

Types == TypeOK /\ AtFile

LEMMA TypeInit == Init => Types
BY EncryptedConstants DEF Init, Types, TypeOK, AtFile, Bytes

LEMMA TypeSave ==
    ASSUME Types, NEW f \in Files, NEW c \in Contents, Save(f, c)
    PROVE  Types'
BY EncryptedConstants DEF Types, TypeOK, AtFile, Save, Bytes, work

LEMMA TypeBegin ==
    ASSUME Types, NEW t \in Tasks, NEW f \in Files,
           Encrypt(t, f) \/ Decrypt(t, f)
    PROVE  Types'
<1> USE EncryptedConstants DEF Types, TypeOK, AtFile, Begin, Goto, Load, Bytes,
        disk
<1>1. CASE Encrypt(t, f)
  BY <1>1 DEF Encrypt
<1>2. CASE Decrypt(t, f)
  BY <1>2 DEF Decrypt
<1> QED
  BY <1>1, <1>2

LEMMA TypeEncrypt ==
    ASSUME Types, NEW t \in Tasks,
           \/ ReadPlain(t) \/ WriteTmp(t) \/ RenameTmp(t) \/ WriteMeta(t)
           \/ Overwrite(t) \/ RemovePlain(t) \/ Mark(t)
    PROVE  Types'
<1> USE DEF Types, TypeOK, AtFile, Goto, Load, Return, Fails, Bytes, disk, ghosts
<1>1. CASE ReadPlain(t)
  BY <1>1 DEF ReadPlain
<1>2. CASE WriteTmp(t)
  BY <1>2 DEF WriteTmp
<1>3. CASE RenameTmp(t)
  BY <1>3 DEF RenameTmp
<1>4. CASE WriteMeta(t)
  BY <1>4 DEF WriteMeta
<1>5. CASE Overwrite(t)
  BY <1>5 DEF Overwrite
<1>6. CASE RemovePlain(t)
  BY <1>6 DEF RemovePlain
<1>7. CASE Mark(t)
  BY <1>7 DEF Mark
<1> QED
  BY <1>1, <1>2, <1>3, <1>4, <1>5, <1>6, <1>7

LEMMA TypeDecrypt ==
    ASSUME Types, NEW t \in Tasks,
           \/ Verify(t) \/ WriteDecTmp(t) \/ RenameDecTmp(t)
           \/ RemoveAge(t) \/ RemoveMeta(t) \/ Unmark(t)
    PROVE  Types'
<1> USE DEF Types, TypeOK, AtFile, Goto, Return, Fails, Bytes, disk, ghosts
<1>1. CASE Verify(t)
  BY <1>1 DEF Verify
<1>2. CASE WriteDecTmp(t)
  BY <1>2 DEF WriteDecTmp
<1>3. CASE RenameDecTmp(t)
  BY <1>3 DEF RenameDecTmp, Stems
<1>4. CASE RemoveAge(t)
  BY <1>4 DEF RemoveAge
<1>5. CASE RemoveMeta(t)
  BY <1>5 DEF RemoveMeta
<1>6. CASE Unmark(t)
  BY <1>6 DEF Unmark
<1> QED
  BY <1>1, <1>2, <1>3, <1>4, <1>5, <1>6

LEMMA TypeStep == Types /\ [Next]_vars => Types'
<1> SUFFICES ASSUME Types, [Next]_vars PROVE Types'
  OBVIOUS
<1>1. CASE UNCHANGED vars
  BY <1>1 DEF vars, Types, TypeOK, AtFile
<1>2. CASE Restart
  BY <1>2 DEF Restart, Types, TypeOK, AtFile, Bytes, disk, ghosts
<1>3. CASE Next
  BY <1>2, <1>3, TypeSave, TypeBegin, TypeEncrypt, TypeDecrypt DEF Next
<1> QED
  BY <1>1, <1>3

\* Every step of a call, of the user and of a restart keeps the types, and a
\* call is at a file exactly while it runs.
THEOREM Typed == Spec => []TypeOK
<1>1. Types => TypeOK
  BY DEF Types
<1> QED
  BY TypeInit, TypeStep, <1>1, PTL DEF Spec

-----------------------------------------------------------------------------
(* The invariant behind NothingLost and PlaintextWritten.                  *)

\* Two files whose names differ in the extension alone share a temporary file:
\* one task is at work, or no two files do.
Separate ==
    \/ \A t, u \in Tasks : t = u
    \/ \A f, g \in Files : Stem[f] = Stem[g] => f = g

\* Two tasks at one file are known.
Clashes ==
    \A t, u \in Tasks :
        t # u /\ file[t] = file[u] /\ file[t] # None => file[t] \in clashed

\* Between the two steps of decrypt_file that write the plaintext, and after
\* them, nobody else has written it.
Written ==
    \A t \in Tasks : file[t] \notin edited \cup clashed =>
        /\ step[t] = "plain" => decTmp[Stem[file[t]]] = buf[t]
        /\ step[t] = "rmAge" => plain[file[t]] = buf[t]

\* The files NothingLost is about.
Tended(f) == f \notin edited \cup clashed \cup retried /\ want[f] # None

\* The file is what the user stored, or is not whole.
Current == \A f \in Files : Tended(f) => plain[f] \in {want[f], None, Torn}

\* The user's bytes at every step of encrypt_in_place: the plaintext is
\* touched only after the ciphertext and its sidecar are there.
EncryptKeeps ==
    \A t \in Tasks : LET f == file[t] IN f \in Files /\ Tended(f) =>
        /\ step[t] \in {"read", "tmp", "age", "meta"} => plain[f] = want[f]
        /\ step[t] \in {"tmp", "age", "meta", "wipe"} => buf[t] = want[f]
        /\ step[t] = "age" => ageTmp[f] = want[f]
        /\ step[t] \in {"meta", "wipe", "unlink"} => age[f] = want[f]
        /\ step[t] \in {"wipe", "unlink"} => meta[f] = want[f]

\* And of decrypt_in_place: the ciphertext is touched only after the plaintext
\* is there.
DecryptKeeps ==
    \A t \in Tasks : LET f == file[t] IN f \in Files /\ Tended(f) =>
        /\ step[t] \in {"verify", "decTmp", "plain", "rmAge"} => buf[t] = want[f]
        /\ step[t] \in {"verify", "decTmp", "plain"} => age[f] = want[f]
        /\ step[t] \in {"decTmp", "plain"} => meta[f] = want[f]
        /\ step[t] \in {"rmAge", "rmMeta"} => plain[f] = want[f]

Keeps == NothingLost /\ Current /\ EncryptKeeps /\ DecryptKeeps

FileInv == Clashes /\ Written /\ Keeps

LEMMA FileInit == Init => FileInv
BY EncryptedConstants
DEF Init, FileInv, Clashes, Written, Keeps, NothingLost, Current, EncryptKeeps,
    DecryptKeeps, Tended

\* A task is alone at a file that is not known to be clashed, and alone with
\* its temporary file.
LEMMA Alone ==
    ASSUME Types, Clashes, NEW t \in Tasks, NEW u \in Tasks, t # u,
           step[t] # "idle", file[t] \notin clashed
    PROVE  /\ file[t] \in Files
           /\ file[u] # file[t]
           /\ Separate /\ file[u] \in Files => Stem[file[u]] # Stem[file[t]]
BY DEF Types, TypeOK, AtFile, Clashes, Separate

\* A call that goes on or returns brings no task to a file.
LEMMA NoNewClash ==
    ASSUME Types, Clashes, clashed' = clashed,
           \A t \in Tasks : file'[t] \in {file[t], None}
    PROVE  Clashes'
BY DEF Clashes

LEMMA InvSave ==
    ASSUME Types, FileInv, NEW f \in Files, NEW c \in Contents, Save(f, c)
    PROVE  FileInv'
<1> USE EncryptedConstants DEF Types, TypeOK, AtFile, FileInv, Save, work
<1>1. Clashes'
  BY DEF Clashes
<1>2. Written'
  BY DEF Written
<1>3. Keeps'
  BY DEF Keeps, NothingLost, Current, EncryptKeeps, DecryptKeeps, Tended
<1> QED
  BY <1>1, <1>2, <1>3

LEMMA InvBegin ==
    ASSUME Types, FileInv, NEW t \in Tasks, NEW f \in Files,
           Encrypt(t, f) \/ Decrypt(t, f)
    PROVE  FileInv'
<1> USE EncryptedConstants DEF Types, TypeOK, AtFile, FileInv, Begin, Goto,
        Load, Bytes, disk
<1>1. CASE Encrypt(t, f)
  <2>1. Clashes'
    BY <1>1 DEF Encrypt, Clashes
  <2>2. Written'
    BY <1>1 DEF Encrypt, Written
  <2>3. Keeps'
    BY <1>1
    DEF Encrypt, Keeps, NothingLost, Current, EncryptKeeps, DecryptKeeps, Tended
  <2> QED
    BY <2>1, <2>2, <2>3
<1>2. CASE Decrypt(t, f)
  <2>1. Clashes'
    BY <1>2 DEF Decrypt, Clashes
  <2>2. Written'
    BY <1>2 DEF Decrypt, Written
  <2>3. Keeps'
    BY <1>2
    DEF Decrypt, Keeps, NothingLost, Current, EncryptKeeps, DecryptKeeps, Tended
  <2> QED
    BY <2>1, <2>2, <2>3
<1> QED
  BY <1>1, <1>2

LEMMA InvEncrypt ==
    ASSUME Types, FileInv, NEW t \in Tasks,
           \/ ReadPlain(t) \/ WriteTmp(t) \/ RenameTmp(t) \/ WriteMeta(t)
           \/ Overwrite(t) \/ RemovePlain(t) \/ Mark(t)
    PROVE  FileInv'
<1> USE EncryptedConstants DEF Types, TypeOK, AtFile, FileInv, Goto, Load,
        Return, Fails, Bytes, disk, ghosts
<1>c. Clashes'
  BY NoNewClash
  DEF ReadPlain, WriteTmp, RenameTmp, WriteMeta, Overwrite, RemovePlain, Mark
<1>a. \A u \in Tasks : u # t /\ step[t] # "idle" /\ file[t] \notin clashed =>
        file[u] # file[t]
  BY Alone
<1>1. CASE ReadPlain(t)
  <2>2. Written'
    BY <1>1 DEF ReadPlain, Written
  <2>3. Keeps'
    BY <1>1, <1>a
    DEF ReadPlain, Keeps, NothingLost, Current, EncryptKeeps, DecryptKeeps, Tended
  <2> QED
    BY <1>c, <2>2, <2>3
<1>2. CASE WriteTmp(t)
  <2>2. Written'
    BY <1>2 DEF WriteTmp, Written
  <2>3. Keeps'
    BY <1>2, <1>a
    DEF WriteTmp, Keeps, NothingLost, Current, EncryptKeeps, DecryptKeeps, Tended
  <2> QED
    BY <1>c, <2>2, <2>3
<1>3. CASE RenameTmp(t)
  <2>2. Written'
    BY <1>3 DEF RenameTmp, Written
  <2>3. Keeps'
    BY <1>3, <1>a
    DEF RenameTmp, Keeps, NothingLost, Current, EncryptKeeps, DecryptKeeps, Tended
  <2> QED
    BY <1>c, <2>2, <2>3
<1>4. CASE WriteMeta(t)
  <2>2. Written'
    BY <1>4 DEF WriteMeta, Written
  <2>3. Keeps'
    BY <1>4, <1>a
    DEF WriteMeta, Keeps, NothingLost, Current, EncryptKeeps, DecryptKeeps, Tended
  <2> QED
    BY <1>c, <2>2, <2>3
<1>5. CASE Overwrite(t)
  <2>2. Written'
    BY <1>5, <1>a DEF Overwrite, Written
  <2>3. Keeps'
    BY <1>5, <1>a
    DEF Overwrite, Keeps, NothingLost, Current, EncryptKeeps, DecryptKeeps, Tended
  <2> QED
    BY <1>c, <2>2, <2>3
<1>6. CASE RemovePlain(t)
  <2>2. Written'
    BY <1>6, <1>a DEF RemovePlain, Written
  <2>3. Keeps'
    BY <1>6, <1>a
    DEF RemovePlain, Keeps, NothingLost, Current, EncryptKeeps, DecryptKeeps, Tended
  <2> QED
    BY <1>c, <2>2, <2>3
<1>7. CASE Mark(t)
  <2>2. Written'
    BY <1>7 DEF Mark, Written
  <2>3. Keeps'
    BY <1>7
    DEF Mark, Keeps, NothingLost, Current, EncryptKeeps, DecryptKeeps, Tended
  <2> QED
    BY <1>c, <2>2, <2>3
<1> QED
  BY <1>1, <1>2, <1>3, <1>4, <1>5, <1>6, <1>7

LEMMA InvDecrypt ==
    ASSUME Separate, Types, FileInv, NEW t \in Tasks,
           \/ Verify(t) \/ WriteDecTmp(t) \/ RenameDecTmp(t)
           \/ RemoveAge(t) \/ RemoveMeta(t) \/ Unmark(t)
    PROVE  FileInv'
<1> USE EncryptedConstants DEF Types, TypeOK, AtFile, FileInv, Goto,
        Return, Fails, Bytes, disk, ghosts
<1>c. Clashes'
  BY NoNewClash
  DEF Verify, WriteDecTmp, RenameDecTmp, RemoveAge, RemoveMeta, Unmark
<1>a. \A u \in Tasks : u # t /\ step[t] # "idle" /\ file[t] \notin clashed =>
        file[u] # file[t]
  BY Alone
<1>b. \A u \in Tasks : u # t /\ step[t] # "idle" /\ step[u] # "idle"
                       /\ file[u] \notin clashed =>
        Stem[file[u]] # Stem[file[t]]
  BY Alone
<1>e. \A u \in Tasks : u # t /\ step[u] # "idle" /\ file[u] \notin clashed =>
        file[u] # file[t]
  BY Alone
<1>d. \A u \in Tasks : step[u] # "idle" => Stem[file[u]] \in Stems
  BY DEF Stems
<1>1. CASE Verify(t)
  <2>2. Written'
    BY <1>1 DEF Verify, Written
  <2>3. Keeps'
    BY <1>1
    DEF Verify, Keeps, NothingLost, Current, EncryptKeeps, DecryptKeeps, Tended
  <2> QED
    BY <1>c, <2>2, <2>3
<1>2. CASE WriteDecTmp(t)
  <2>1. Stem[file[t]] \in Stems
    BY <1>2, <1>d DEF WriteDecTmp
  <2>2. Written'
    <3> SUFFICES ASSUME NEW u \in Tasks, file'[u] \notin edited \cup clashed
                 PROVE  /\ step'[u] = "plain" => decTmp'[Stem[file'[u]]] = buf'[u]
                        /\ step'[u] = "rmAge" => plain'[file'[u]] = buf'[u]
      BY <1>2 DEF WriteDecTmp, Written
    <3>1. CASE u = t
      BY <1>2, <2>1, <3>1 DEF WriteDecTmp
    <3>2. CASE u # t
      <4>1. step'[u] = step[u] /\ file'[u] = file[u] /\ buf'[u] = buf[u]
        BY <1>2, <3>2 DEF WriteDecTmp
      <4>2. step[u] # "idle" => decTmp'[Stem[file[u]]] = decTmp[Stem[file[u]]]
        BY <1>2, <1>b, <1>d, <2>1, <3>2, <4>1 DEF WriteDecTmp
      <4> QED
        BY <1>2, <4>1, <4>2 DEF WriteDecTmp, Written
    <3> QED
      BY <3>1, <3>2
  <2>3. Keeps'
    BY <1>2
    DEF WriteDecTmp, Keeps, NothingLost, Current, EncryptKeeps, DecryptKeeps,
        Tended
  <2> QED
    BY <1>c, <2>2, <2>3
<1>3. CASE RenameDecTmp(t)
  <2>1. Stem[file[t]] \in Stems
    BY <1>3, <1>d DEF RenameDecTmp
  <2>2. Written'
    <3> SUFFICES ASSUME NEW u \in Tasks, file'[u] \notin edited \cup clashed
                 PROVE  /\ step'[u] = "plain" => decTmp'[Stem[file'[u]]] = buf'[u]
                        /\ step'[u] = "rmAge" => plain'[file'[u]] = buf'[u]
      BY <1>3 DEF RenameDecTmp, Written
    <3>1. CASE u = t
      BY <1>3, <2>1, <3>1 DEF RenameDecTmp, Written
    <3>2. CASE u # t
      <4>1. step'[u] = step[u] /\ file'[u] = file[u] /\ buf'[u] = buf[u]
        BY <1>3, <3>2 DEF RenameDecTmp
      <4>2. step[u] # "idle" => decTmp'[Stem[file[u]]] = decTmp[Stem[file[u]]]
        BY <1>3, <1>b, <1>d, <2>1, <3>2, <4>1 DEF RenameDecTmp
      <4>3. step[u] # "idle" => plain'[file[u]] = plain[file[u]]
        BY <1>3, <1>e, <3>2, <4>1 DEF RenameDecTmp
      <4> QED
        BY <1>3, <4>1, <4>2, <4>3 DEF RenameDecTmp, Written
    <3> QED
      BY <3>1, <3>2
  <2>3. Keeps'
    BY <1>3, <1>a
    DEF RenameDecTmp, Written, Keeps, NothingLost, Current, EncryptKeeps,
        DecryptKeeps, Tended
  <2> QED
    BY <1>c, <2>2, <2>3
<1>4. CASE RemoveAge(t)
  <2>2. Written'
    BY <1>4 DEF RemoveAge, Written
  <2>3. Keeps'
    BY <1>4, <1>a
    DEF RemoveAge, Keeps, NothingLost, Current, EncryptKeeps, DecryptKeeps, Tended
  <2> QED
    BY <1>c, <2>2, <2>3
<1>5. CASE RemoveMeta(t)
  <2>2. Written'
    BY <1>5 DEF RemoveMeta, Written
  <2>3. Keeps'
    BY <1>5, <1>a
    DEF RemoveMeta, Keeps, NothingLost, Current, EncryptKeeps, DecryptKeeps, Tended
  <2> QED
    BY <1>c, <2>2, <2>3
<1>6. CASE Unmark(t)
  <2>2. Written'
    BY <1>6 DEF Unmark, Written
  <2>3. Keeps'
    BY <1>6
    DEF Unmark, Keeps, NothingLost, Current, EncryptKeeps, DecryptKeeps, Tended
  <2> QED
    BY <1>c, <2>2, <2>3
<1> QED
  BY <1>1, <1>2, <1>3, <1>4, <1>5, <1>6

\* A crash leaves no call, and the disk as it is.
LEMMA InvRestart ==
    ASSUME Types, FileInv, Restart
    PROVE  FileInv'
BY EncryptedConstants
DEF Types, TypeOK, FileInv, Restart, Clashes, Written, Keeps, NothingLost,
    Current, EncryptKeeps, DecryptKeeps, Tended, disk, ghosts

LEMMA InvStep ==
    ASSUME Separate
    PROVE  Types /\ FileInv /\ [Next]_vars => FileInv'
<1> SUFFICES ASSUME Types, FileInv, [Next]_vars PROVE FileInv'
  OBVIOUS
<1>1. CASE UNCHANGED vars
  BY <1>1
  DEF vars, FileInv, Clashes, Written, Keeps, NothingLost, Current,
      EncryptKeeps, DecryptKeeps, Tended
<1>2. CASE Next
  BY <1>2, InvSave, InvBegin, InvEncrypt, InvDecrypt, InvRestart DEF Next
<1> QED
  BY <1>1, <1>2

\* The user's bytes survive every failing call and every crash of
\* encrypt_in_place and decrypt_in_place: the file is whole, or its ciphertext
\* is and has its sidecar.  Two file managers must not decrypt two files of
\* one stem at once: they would write one temporary file.
THEOREM BytesKept == ASSUME Separate PROVE Spec => []NothingLost
<1>1. FileInv => NothingLost
  BY DEF FileInv, Keeps
<1>2. Types /\ FileInv /\ [Next]_vars => FileInv'
  BY InvStep
<1> QED
  BY TypeInit, TypeStep, FileInit, <1>1, <1>2, PTL DEF Spec

\* decrypt_in_place removes the ciphertext only after the plaintext it had is
\* in the file.
THEOREM DecryptedFirst == ASSUME Separate PROVE Spec => []PlaintextWritten
<1>1. Types /\ FileInv => PlaintextWritten
  BY DEF FileInv, Written, PlaintextWritten
<1>2. Types /\ FileInv /\ [Next]_vars => FileInv'
  BY InvStep
<1> QED
  BY TypeInit, TypeStep, FileInit, <1>1, <1>2, PTL DEF Spec

=============================================================================
