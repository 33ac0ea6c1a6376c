------------------------------- MODULE Vault -------------------------------
(***************************************************************************)
(* Envelope encryption (vault.py over kdf.py, aead.py and fileformat.py)   *)
(* with symbolic cryptography: a key is what it was derived from, a        *)
(* ciphertext is a record of what was sealed, and decrypting succeeds for  *)
(* the same key and associated data only.  A nonce and the blob sealed     *)
(* under it are kept together; one without the other is Garbled.           *)
(* Files come back from storage as they were written, or with their parts  *)
(* mixed up or damaged.                                                    *)
(***************************************************************************)
EXTENDS SealedBox, FiniteSets

CONSTANTS
  Passwords, Plaintexts,
  Salts, Deks,      \* what os.urandom may draw: each value at most once
  Params,           \* Argon2Parameters, some of them out of range
  Garbled,          \* a ciphertext that no key opens
  Malformed,        \* a file that fails one of parse's structural checks
  Zeroed,           \* the content of a wiped buffer
  Nothing,
  SessionsContinue, \* does a caller go on after KeyboardInterrupt in an operation?
  MaxFiles          \* bound on the files written

\* What the operators below build: the plaintext headers, the two kinds of
\* ciphertext, a VaultFile and an UnlockedVault.
KdfHeaders == [params : Params, salt : Salts]
Wraps == [key : [password : Passwords, salt : Salts, params : Params], plaintext : Deks,
          aad : KdfHeaders]
Bodies == [key : Deks, plaintext : Plaintexts,
           aad : [kdf_header : KdfHeaders, counter : 0 .. MaxCounter]]
VaultFiles == [params : Params, salt : Salts, counter : 0 .. MaxCounter, dek : Wraps, body : Bodies]
Sessions ==
  [params : Params, salt : Salts, counter : 0 .. MaxCounter, kdf_header : KdfHeaders,
   wrapped : Wraps \cup {Garbled}, dek : Deks, plaintext : Plaintexts \cup {Zeroed},
   interrupted : BOOLEAN]

ASSUME VaultAssumption ==
  /\ MaxFiles \in Nat /\ SessionsContinue \in BOOLEAN
  /\ Garbled \notin Deks \cup Wraps \cup Bodies /\ Zeroed \notin Plaintexts
  /\ Malformed \notin VaultFiles
  /\ Nothing \notin Sessions
  /\ Nothing \notin [password : Passwords, counter : 0 .. MaxCounter, plaintext : Plaintexts]

VARIABLES
  files,     \* the vault files returned to callers so far
  session,   \* the UnlockedVault, Nothing when there is none
  unwiped,   \* how many bytearrays of the latest open_vault hold a DEK or a plaintext
  ended      \* how it ended, see Ends

vars == <<files, session, unwiped, ended>>

\* open      not yet
\* closed    by a close that ran to its end
\* cut       by a close that KeyboardInterrupt cut short
\* raised    open_vault had the DEK and raised on the body
Ends == {"open", "closed", "cut", "raised"}

Init == files = {} /\ session = Nothing /\ unwiped = 0 /\ ended = "closed"

-----------------------------------------------------------------------------
\* kdf.py

validate(params) ==
  /\ params.memory_kib \in 19456 .. 1048576
  /\ params.time_cost \in 1 .. 16
  /\ params.parallelism \in 1 .. 8

\* Argon2id: another password, salt or cost gives another key.
derive_key(password, salt, params) ==
  [password |-> password, salt |-> salt, params |-> params]

\* aead.py

encrypt(key, plaintext, aad) == [key |-> key, plaintext |-> plaintext, aad |-> aad]

\* May decrypt return?  It raises VaultAuthenticationError otherwise.
decrypts(key, sealed, aad) ==
  /\ sealed # Garbled
  /\ sealed.key = key
  /\ sealed.aad = aad

\* fileformat.py

build_kdf_header(params, salt) == [params |-> params, salt |-> salt]

\* Mutant: the body is bound to the counter only.
fullHeaderCounterOnly(params, salt, counter) == [counter |-> counter]

build_full_header(params, salt, counter) ==
  [kdf_header |-> build_kdf_header(params, salt), counter |-> counter]

serialize(kdf_header, counter, dek, body) ==
  [params |-> kdf_header.params, salt |-> kdf_header.salt, counter |-> counter,
   dek |-> dek, body |-> body]

\* Does parse return?  It raises VaultFormatError otherwise.
parses(file) == file # Malformed /\ validate(file.params)

-----------------------------------------------------------------------------
\* vault.py

\* The body for a plaintext under a DEK.
Body(params, salt, counter, dek, plaintext) ==
  encrypt(dek, plaintext, build_full_header(params, salt, counter))

Wrap(password, params, salt, dek) ==
  encrypt(derive_key(password, salt, params), dek, build_kdf_header(params, salt))

\* os.urandom never repeats a salt or a DEK.
FreshSalt(salt) ==
  /\ \A f \in files : f.salt # salt
  /\ session # Nothing => session.salt # salt
FreshDek(dek) == \A f \in files : f.body.key # dek

RoomForFile == Cardinality(files) < MaxFiles

\* create: the DEK's bytearray is wiped on the way out.
create(password, plaintext, params) ==
  /\ RoomForFile
  /\ validate(params)
  /\ \E salt \in Salts, dek \in Deks :
       /\ FreshSalt(salt) /\ FreshDek(dek)
       /\ files' = files \cup
            {serialize(build_kdf_header(params, salt), 0, Wrap(password, params, salt, dek),
                       Body(params, salt, 0, dek, plaintext))}
  /\ UNCHANGED <<session, unwiped, ended>>

Unwraps(password, f) ==
  decrypts(derive_key(password, f.salt, f.params), f.dek, build_kdf_header(f.params, f.salt))

BodyOpens(f) ==
  decrypts(f.dek.plaintext, f.body, build_full_header(f.params, f.salt, f.counter))

\* open_vault on a file that verifies: DEK and plaintext are now in memory.
\* One session at a time: sessions share nothing but the files.
open_vault(password, f) ==
  /\ session = Nothing
  /\ parses(f) /\ Unwraps(password, f) /\ BodyOpens(f)
  /\ session' = [params |-> f.params, salt |-> f.salt, counter |-> f.counter,
                 kdf_header |-> build_kdf_header(f.params, f.salt), wrapped |-> f.dek,
                 dek |-> f.dek.plaintext, plaintext |-> f.body.plaintext,
                 interrupted |-> FALSE]
  /\ unwiped' = 2
  /\ ended' = "open"
  /\ UNCHANGED files

\* open_vault on a file whose DEK unwraps and whose body does not open: it
\* raises, and nobody wipes the DEK's bytearray.  (On a file that does not
\* parse or unwrap it raises before there is one.)
open_vault_raises(password, f) ==
  /\ session = Nothing
  /\ parses(f) /\ Unwraps(password, f) /\ ~BodyOpens(f)
  /\ unwiped' = 1
  /\ ended' = "raised"
  /\ UNCHANGED <<files, session>>

\* _check_open
check_open == session # Nothing

\* The callers' with-blocks close a session that KeyboardInterrupt has left.
Usable == check_open /\ (session.interrupted => SessionsContinue)

\* The buffers that hold a plaintext, if this is what is in them.
Buffers(plaintext) == IF plaintext = Zeroed THEN 0 ELSE 1

\* Mutant: the old plaintext is dropped, not wiped.
replaceUnwiped(plaintext) == unwiped' = unwiped + 1

\* wipe(self._plaintext), then a new buffer takes its place.
ReplacePlaintext(plaintext) ==
  unwiped' = unwiped - Buffers(session.plaintext) + Buffers(plaintext)

\* UnlockedVault.save: the wrap is reused, the old plaintext wiped.
save(plaintext) ==
  /\ Usable /\ CanSave(session)
  /\ RoomForFile
  /\ LET new == session.counter + 1 IN
       /\ files' = files \cup {serialize(session.kdf_header, new, session.wrapped,
              Body(session.params, session.salt, new, session.dek, plaintext))}
       /\ session' = [session EXCEPT !.counter = new, !.plaintext = plaintext]
  /\ ReplacePlaintext(plaintext)
  /\ UNCHANGED ended

\* KeyboardInterrupt in save, after n of its last three statements: the wipe
\* and the two assignments.  The file is not returned.
save_interrupted(plaintext) ==
  /\ Usable /\ CanSave(session)
  /\ \E n \in 1 .. 3 :
       LET pt == IF n = 1 THEN Zeroed ELSE plaintext IN
         /\ session' = [session EXCEPT !.plaintext = pt, !.interrupted = TRUE,
                                       !.counter = IF n = 3 THEN @ + 1 ELSE @]
         /\ ReplacePlaintext(pt)
  /\ UNCHANGED <<files, ended>>

\* UnlockedVault.change_password: same DEK under a new salt and password.
change_password(password, params) ==
  /\ Usable /\ CanSave(session)
  /\ RoomForFile
  /\ validate(params)
  /\ \E salt \in Salts :
       LET new == session.counter + 1
           header == build_kdf_header(params, salt)
           wrapped == Wrap(password, params, salt, session.dek)
       IN  /\ FreshSalt(salt)
           /\ files' = files \cup {serialize(header, new, wrapped,
                Body(params, salt, new, session.dek, session.plaintext))}
           /\ session' = [session EXCEPT !.params = params, !.salt = salt,
                               !.kdf_header = header, !.wrapped = wrapped, !.counter = new]
  /\ UNCHANGED <<unwiped, ended>>

\* KeyboardInterrupt in change_password, after n of its six assignments;
\* the wrap's nonce and its blob are two of them.
change_password_interrupted(password, params) ==
  /\ Usable /\ CanSave(session)
  /\ validate(params)
  /\ \E salt \in Salts, n \in 1 .. 6 :
       /\ FreshSalt(salt)
       /\ session' = [session EXCEPT
            !.params = params,
            !.salt = IF n >= 2 THEN salt ELSE @,
            !.kdf_header = IF n >= 3 THEN build_kdf_header(params, salt) ELSE @,
            !.wrapped = IF n >= 5 THEN Wrap(password, params, salt, session.dek)
                        ELSE IF n = 4 THEN Garbled ELSE @,
            !.counter = IF n = 6 THEN @ + 1 ELSE @,
            !.interrupted = TRUE]
  /\ UNCHANGED <<files, unwiped, ended>>

\* UnlockedVault.close
close ==
  /\ session # Nothing
  /\ session' = Nothing
  /\ unwiped' = unwiped - 1 - Buffers(session.plaintext)
  /\ ended' = "closed"
  /\ UNCHANGED files

\* KeyboardInterrupt in close, before, between or after its two wipes: the
\* with-block is left, and nobody has the session any more.
close_interrupted ==
  /\ session # Nothing
  /\ session' = Nothing
  /\ unwiped' \in {unwiped, unwiped - 1, unwiped - 1 - Buffers(session.plaintext)}
  /\ ended' = "cut"
  /\ UNCHANGED files

-----------------------------------------------------------------------------
\* What storage may hand back: a file that was written, or one put together
\* from parts of files that were written, or from damaged parts.

Mixed ==
  [params : Params, salt : Salts, counter : {f.counter : f \in files},
   dek : {f.dek : f \in files} \cup {Garbled},
   body : {f.body : f \in files} \cup {Garbled}] \cup {Malformed}

Readable == files \cup Mixed

Next ==
  \/ \E pw \in Passwords, pt \in Plaintexts, a \in Params : create(pw, pt, a)
  \/ \E pw \in Passwords, f \in Readable : open_vault(pw, f) \/ open_vault_raises(pw, f)
  \/ \E pt \in Plaintexts : save(pt) \/ save_interrupted(pt)
  \/ \E pw \in Passwords, a \in Params :
       change_password(pw, a) \/ change_password_interrupted(pw, a)
  \/ close \/ close_interrupted

Spec == Init /\ [][Next]_vars

-----------------------------------------------------------------------------
\* Properties

(***************************************************************************)
(* The files and the session are well formed, and the parameters of the    *)
(* session are in range.                                                   *)
(***************************************************************************)
TypeOK ==
  /\ files \subseteq VaultFiles
  /\ session \in Sessions \cup {Nothing}
  /\ session # Nothing => validate(session.params)
  /\ unwiped \in 0 .. 2
  /\ ended \in Ends

(***************************************************************************)
(* vault.py implements the sealed box: each file it returns opens with the *)
(* password its owner last chose and no other, to the plaintext last       *)
(* saved; and no mixture of the parts of such files opens as anything that *)
(* was not written.  Sessions that KeyboardInterrupt has left in the       *)
(* middle of an operation write nothing: their callers close them.         *)
(* Behaviour: "Every header byte is therefore covered by at least one      *)
(* authentication tag" (fileformat.py), and save reuses the wrap that the  *)
(* latest change_password left in the session.                             *)
(***************************************************************************)
\* What opening the file with the right password shows.
Shows(f) ==
  LET keys == {pw \in Passwords : parses(f) /\ Unwraps(pw, f) /\ BodyOpens(f)}
  IN  IF Cardinality(keys) = 1
      THEN [password |-> CHOOSE pw \in keys : TRUE, counter |-> f.counter,
            plaintext |-> f.body.plaintext]
      ELSE Garbled

SessionBox ==
  IF session = Nothing \/ session.interrupted THEN Nothing
  ELSE [password |-> session.wrapped.key.password, counter |-> session.counter,
        plaintext |-> session.plaintext]

Abstract == INSTANCE SealedVault WITH
  box <- SessionBox,
  boxes <- {Shows(f) : f \in files}

ImplementsSealedVault == Abstract!SealedSpec

(***************************************************************************)
(* A close that runs to its end leaves no secret behind, however often the *)
(* session saved or changed the password and wherever KeyboardInterrupt    *)
(* left save or change_password: close wipes the DEK and the plaintext,    *)
(* and save has wiped every plaintext it replaced.  (A close that is cut   *)
(* short itself, and an open_vault that raises on the body, do not.)       *)
(***************************************************************************)
SessionWiped == ended = "closed" => unwiped = 0
=============================================================================
