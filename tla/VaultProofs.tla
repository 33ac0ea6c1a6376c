----------------------------- MODULE VaultProofs -----------------------------
(***************************************************************************)
(* For any passwords, plaintexts, salts, DEKs and parameters: vault.py     *)
(* implements the sealed box, and a close that ends leaves no secret, for  *)
(* callers that do not go on after KeyboardInterrupt.                      *)
(*                                                                         *)
(* The inductive invariant says how every file was made (FilesInv), that a *)
(* salt stands for one wrap of one DEK (SaltInv), and that a session       *)
(* carries the wrap of a file (OpenInv).  SaltInv is what makes a mixture  *)
(* of parts that opens a file that was written.                            *)
(***************************************************************************)
EXTENDS Vault, FiniteSetTheorems, TLAPS

\* The file that holds plaintext pt at save n, for a password, costs and a DEK.
FileOf(pw, a, salt, n, dek, pt) ==
  serialize(build_kdf_header(a, salt), n, Wrap(pw, a, salt, dek), Body(a, salt, n, dek, pt))

FilesInv ==
  \A f \in files :
    \E pw \in Passwords, a \in Params, salt \in Salts, n \in 0 .. MaxCounter,
       dek \in Deks, pt \in Plaintexts :
      validate(a) /\ f = FileOf(pw, a, salt, n, dek, pt)

SaltInv ==
  \A f, g \in files : f.salt = g.salt => f.params = g.params /\ f.dek = g.dek

\* A session that was not interrupted has the header and the wrap of a file.
OpenInv ==
  session # Nothing /\ session.interrupted = FALSE =>
    /\ session.plaintext \in Plaintexts
    /\ session.kdf_header = build_kdf_header(session.params, session.salt)
    /\ \E f \in files :
         f.salt = session.salt /\ f.params = session.params /\ f.dek = session.wrapped
    /\ \E pw \in Passwords : session.wrapped = Wrap(pw, session.params, session.salt, session.dek)

\* An open session counts its own buffers, and a close that ran to its end
\* leaves none of them.
BufferInv ==
  /\ session # Nothing => ended = "open" /\ unwiped = 1 + Buffers(session.plaintext)
  /\ ended = "closed" => unwiped = 0

VaultInv == TypeOK /\ FilesInv /\ SaltInv /\ OpenInv /\ BufferInv

-----------------------------------------------------------------------------
\* What opening a file needs and shows

\* The parts of a file.
LEMMA FileOfParts ==
  ASSUME NEW pw \in Passwords, NEW a \in Params, NEW salt \in Salts, NEW n \in 0 .. MaxCounter,
         NEW dek \in Deks, NEW pt \in Plaintexts,
         NEW f, f = FileOf(pw, a, salt, n, dek, pt)
  PROVE  /\ f \in VaultFiles /\ f # Malformed
         /\ f.params = a /\ f.salt = salt /\ f.counter = n
         /\ f.dek = Wrap(pw, a, salt, dek) /\ f.dek \in Wraps
         /\ f.dek.key = derive_key(pw, salt, a) /\ f.dek.plaintext = dek
         /\ f.dek.aad = build_kdf_header(a, salt)
         /\ f.body = Body(a, salt, n, dek, pt) /\ f.body \in Bodies
         /\ f.body.key = dek /\ f.body.plaintext = pt
         /\ f.body.aad = build_full_header(a, salt, n)
<1>1. Wrap(pw, a, salt, dek) \in Wraps
  BY DEF Wrap, encrypt, derive_key, build_kdf_header, Wraps, KdfHeaders
<1>2. Body(a, salt, n, dek, pt) \in Bodies
  BY DEF Body, encrypt, build_kdf_header, build_full_header, Bodies, KdfHeaders
<1>3. /\ f.params = a /\ f.salt = salt /\ f.counter = n
      /\ f.dek = Wrap(pw, a, salt, dek) /\ f.body = Body(a, salt, n, dek, pt)
  BY DEF FileOf, serialize, build_kdf_header
<1>4. f \in VaultFiles
  BY <1>1, <1>2 DEF FileOf, serialize, build_kdf_header, VaultFiles
<1>5. /\ f.dek.key = derive_key(pw, salt, a) /\ f.dek.plaintext = dek
      /\ f.dek.aad = build_kdf_header(a, salt)
  BY <1>3 DEF Wrap, encrypt
<1>6. /\ f.body.key = dek /\ f.body.plaintext = pt
      /\ f.body.aad = build_full_header(a, salt, n)
  BY <1>3 DEF Body, encrypt
<1> QED
  BY <1>1, <1>2, <1>3, <1>4, <1>5, <1>6, VaultAssumption

\* Headers and keys determine what they were built from.
LEMMA Injective ==
  /\ \A a, b, s, t : build_kdf_header(a, s) = build_kdf_header(b, t) => a = b /\ s = t
  /\ \A a, b, s, t, m, n :
       build_full_header(a, s, m) = build_full_header(b, t, n) => a = b /\ s = t /\ m = n
  /\ \A p, q, a, s : derive_key(p, s, a) = derive_key(q, s, a) => p = q
<1>1. \A a, b, s, t : build_kdf_header(a, s) = build_kdf_header(b, t) => a = b /\ s = t
  <2>1. \A a, s : build_kdf_header(a, s).params = a /\ build_kdf_header(a, s).salt = s
    BY DEF build_kdf_header
  <2> QED
    BY <2>1
<1>2. \A a, b, s, t, m, n :
        build_full_header(a, s, m) = build_full_header(b, t, n) => a = b /\ s = t /\ m = n
  <2>1. \A a, s, n : /\ build_full_header(a, s, n).kdf_header = build_kdf_header(a, s)
                     /\ build_full_header(a, s, n).counter = n
    BY DEF build_full_header
  <2> QED
    BY <1>1, <2>1
<1>3. \A p, q, a, s : derive_key(p, s, a) = derive_key(q, s, a) => p = q
  <2>1. \A p, s, a : derive_key(p, s, a).password = p
    BY DEF derive_key
  <2> QED
    BY <2>1
<1> QED
  BY <1>1, <1>2, <1>3

\* A file opens with its password and no other, and shows its plaintext.
LEMMA FileOpens ==
  ASSUME NEW pw \in Passwords, NEW a \in Params, NEW salt \in Salts, NEW n \in 0 .. MaxCounter,
         NEW dek \in Deks, NEW pt \in Plaintexts, validate(a),
         NEW f, f = FileOf(pw, a, salt, n, dek, pt)
  PROVE  /\ parses(f) /\ BodyOpens(f)
         /\ \A q \in Passwords : Unwraps(q, f) <=> q = pw
         /\ Shows(f) = [password |-> pw, counter |-> n, plaintext |-> pt]
<1>0. /\ f \in VaultFiles /\ f # Malformed
      /\ f.params = a /\ f.salt = salt /\ f.counter = n
      /\ f.dek \in Wraps
      /\ f.dek.key = derive_key(pw, salt, a) /\ f.dek.plaintext = dek
      /\ f.dek.aad = build_kdf_header(a, salt)
      /\ f.body \in Bodies /\ f.body.key = dek /\ f.body.plaintext = pt
      /\ f.body.aad = build_full_header(a, salt, n)
  BY FileOfParts
<1>1. f.dek # Garbled /\ f.body # Garbled
  BY <1>0, VaultAssumption
<1>2. parses(f)
  BY <1>0 DEF parses
<1>3. BodyOpens(f)
  BY <1>0, <1>1 DEF BodyOpens, decrypts
<1>4. \A q \in Passwords : Unwraps(q, f) <=> q = pw
  BY <1>0, <1>1, Injective DEF Unwraps, decrypts
<1>5. Shows(f) = [password |-> pw, counter |-> n, plaintext |-> pt]
  <2> DEFINE keys == {q \in Passwords : parses(f) /\ Unwraps(q, f) /\ BodyOpens(f)}
  <2>1. keys = {pw}
    BY <1>2, <1>3, <1>4
  <2>2. Cardinality(keys) = 1
    BY <2>1, FS_Singleton
  <2>3. (CHOOSE q \in keys : TRUE) = pw
    BY <2>1
  <2>4. Shows(f) = IF Cardinality(keys) = 1
                   THEN [password |-> CHOOSE q \in keys : TRUE, counter |-> f.counter,
                         plaintext |-> f.body.plaintext]
                   ELSE Garbled
    BY DEF Shows
  <2> HIDE DEF keys
  <2> QED
    BY <1>0, <2>2, <2>3, <2>4
<1> QED
  BY <1>2, <1>3, <1>4, <1>5

\* Whatever storage hands back, a file that opens is one that was written: the
\* wrap fixes the salt, the salt fixes the wrap, and the body fixes the header.
LEMMA OnlyWrittenOpens ==
  ASSUME FilesInv, SaltInv, NEW pw \in Passwords, NEW f \in Readable,
         parses(f), Unwraps(pw, f), BodyOpens(f)
  PROVE  f \in files
<1> SUFFICES ASSUME f \in Mixed PROVE f \in files
  BY DEF Readable
<1>0. /\ f.dek # Garbled /\ f.dek.aad = build_kdf_header(f.params, f.salt)
      /\ f.body # Garbled /\ f.body.aad = build_full_header(f.params, f.salt, f.counter)
  BY DEF Unwraps, BodyOpens, decrypts
<1>1. f \in [params : Params, salt : Salts, counter : {g.counter : g \in files},
             dek : {g.dek : g \in files} \cup {Garbled},
             body : {g.body : g \in files} \cup {Garbled}]
  BY DEF Mixed, parses
<1>2. PICK g \in files : f.dek = g.dek
  BY <1>0, <1>1
<1>3. PICK h \in files : f.body = h.body
  BY <1>0, <1>1
<1>4. f.salt = g.salt
  <2>1. g.dek.aad = build_kdf_header(g.params, g.salt)
    BY FileOfParts DEF FilesInv
  <2> QED
    BY <1>0, <1>2, <2>1, Injective
<1>5. /\ f.params = h.params /\ f.salt = h.salt /\ f.counter = h.counter
      /\ h \in VaultFiles
  <2>1. h.body.aad = build_full_header(h.params, h.salt, h.counter) /\ h \in VaultFiles
    BY FileOfParts DEF FilesInv
  <2> QED
    BY <1>0, <1>3, <2>1, Injective
<1>6. f.dek = h.dek
  BY <1>2, <1>4, <1>5 DEF SaltInv
<1>7. f = h
  BY <1>1, <1>3, <1>5, <1>6 DEF VaultFiles
<1> QED
  BY <1>7

-----------------------------------------------------------------------------
\* The invariant

\* At the start there is no file and no session.
LEMMA VaultInit == Init => VaultInv
BY DEF Init, VaultInv, TypeOK, FilesInv, SaltInv, OpenInv, BufferInv, Ends

\* Writing a file keeps what the files know of each other, if its salt is new or
\* stands for the same wrap already.
LEMMA WriteFile ==
  ASSUME files \subseteq VaultFiles, FilesInv, SaltInv,
         NEW pw \in Passwords, NEW a \in Params, NEW salt \in Salts, NEW n \in 0 .. MaxCounter,
         NEW dek \in Deks, NEW pt \in Plaintexts, validate(a),
         \A g \in files : g.salt = salt => g.params = a /\ g.dek = Wrap(pw, a, salt, dek),
         files' = files \cup {FileOf(pw, a, salt, n, dek, pt)}
  PROVE  files' \subseteq VaultFiles /\ FilesInv' /\ SaltInv'
<1> DEFINE f == FileOf(pw, a, salt, n, dek, pt)
<1>1. /\ f \in VaultFiles /\ f.params = a /\ f.salt = salt
      /\ f.dek = Wrap(pw, a, salt, dek)
  BY FileOfParts
<1>2. FilesInv'
  BY DEF FilesInv
<1> HIDE DEF f
<1>3. files' = files \cup {f}
  BY DEF f
<1> QED
  BY <1>1, <1>2, <1>3 DEF SaltInv

\* A session that may write: not interrupted, and made from a file.
LEMMA UsableSession ==
  ASSUME ~SessionsContinue, TypeOK, OpenInv, Usable
  PROVE  /\ session \in Sessions /\ session.interrupted = FALSE /\ validate(session.params)
         /\ session.plaintext \in Plaintexts
         /\ session.kdf_header = build_kdf_header(session.params, session.salt)
         /\ \E f \in files :
              f.salt = session.salt /\ f.params = session.params /\ f.dek = session.wrapped
         /\ \E pw \in Passwords :
              session.wrapped = Wrap(pw, session.params, session.salt, session.dek)
<1>1. session \in Sessions /\ session # Nothing /\ session.interrupted \in BOOLEAN
  BY DEF TypeOK, Usable, check_open, Sessions
<1>2. session.interrupted = FALSE
  BY <1>1 DEF Usable
<1> QED
  BY <1>1, <1>2 DEF OpenInv, TypeOK

\* create: a new salt.
LEMMA CreateStep ==
  ASSUME VaultInv, NEW pw \in Passwords, NEW pt \in Plaintexts, NEW a \in Params,
         create(pw, pt, a)
  PROVE  VaultInv'
<1>1. PICK salt \in Salts, dek \in Deks :
        FreshSalt(salt) /\ files' = files \cup {FileOf(pw, a, salt, 0, dek, pt)}
  BY DEF create, FileOf
<1>2. 0 \in 0 .. MaxCounter /\ validate(a)
  BY MaxCounterAssumption DEF create
<1>3. files' \subseteq VaultFiles /\ FilesInv' /\ SaltInv'
  BY <1>1, <1>2, WriteFile DEF VaultInv, TypeOK, FreshSalt
<1>4. UNCHANGED <<session, unwiped, ended>> /\ files \subseteq files'
  BY <1>1 DEF create
<1> QED
  BY <1>3, <1>4 DEF VaultInv, TypeOK, OpenInv, BufferInv

\* open_vault: the session is the file's, and holds two buffers.
LEMMA OpenStep ==
  ASSUME VaultInv, NEW pw \in Passwords, NEW f \in Readable, open_vault(pw, f)
  PROVE  /\ VaultInv' /\ f \in files /\ session' # Nothing /\ session'.interrupted = FALSE
         /\ session'.wrapped = f.dek /\ session'.counter = f.counter
         /\ session'.plaintext = f.body.plaintext
<1>1. f \in files
  BY OnlyWrittenOpens DEF VaultInv, open_vault
<1>2. PICK q \in Passwords, a \in Params, salt \in Salts, n \in 0 .. MaxCounter, dek \in Deks,
           pt \in Plaintexts : validate(a) /\ f = FileOf(q, a, salt, n, dek, pt)
  BY <1>1 DEF VaultInv, FilesInv
<1>3. /\ f.params = a /\ f.salt = salt /\ f.counter = n
      /\ f.dek = Wrap(q, a, salt, dek) /\ f.dek \in Wraps
      /\ f.dek.plaintext = dek /\ f.body.plaintext = pt
  BY <1>2, FileOfParts
<1>4. session' = [params |-> a, salt |-> salt, counter |-> n,
                  kdf_header |-> build_kdf_header(a, salt), wrapped |-> f.dek,
                  dek |-> dek, plaintext |-> pt, interrupted |-> FALSE]
  BY <1>3 DEF open_vault
<1>5. session' \in Sessions
  BY <1>3, <1>4 DEF Sessions, KdfHeaders, build_kdf_header
<1>6. session' # Nothing /\ unwiped' = 2 /\ ended' = "open" /\ files' = files
  BY <1>5, VaultAssumption DEF open_vault
<1>7. TypeOK'
  BY <1>2, <1>4, <1>5, <1>6 DEF VaultInv, TypeOK, BufferInv, Ends
<1>8. OpenInv'
  BY <1>1, <1>3, <1>4, <1>6 DEF OpenInv
<1>9. BufferInv'
  BY <1>4, <1>6, VaultAssumption DEF VaultInv, BufferInv, Buffers
<1>10. FilesInv' /\ SaltInv'
  BY <1>6 DEF VaultInv, FilesInv, SaltInv
<1> QED
  BY <1>1, <1>3, <1>4, <1>6, <1>7, <1>8, <1>9, <1>10 DEF VaultInv

\* save: the file has the session's header and wrap, and the next counter.
LEMMA SaveStep ==
  ASSUME ~SessionsContinue, VaultInv, NEW pt \in Plaintexts, save(pt)
  PROVE  /\ VaultInv' /\ session' = [session EXCEPT !.counter = session.counter + 1, !.plaintext = pt]
         /\ \E pw \in Passwords :
              /\ session.wrapped = Wrap(pw, session.params, session.salt, session.dek)
              /\ files' = files \cup {FileOf(pw, session.params, session.salt,
                                             session.counter + 1, session.dek, pt)}
<1>1. /\ session \in Sessions /\ session.interrupted = FALSE /\ validate(session.params)
      /\ session.plaintext \in Plaintexts
      /\ session.kdf_header = build_kdf_header(session.params, session.salt)
      /\ \E f \in files :
           f.salt = session.salt /\ f.params = session.params /\ f.dek = session.wrapped
  BY UsableSession DEF VaultInv, save
<1>2. PICK pw \in Passwords :
        session.wrapped = Wrap(pw, session.params, session.salt, session.dek)
  BY UsableSession DEF VaultInv, save
<1>3. session.counter + 1 \in 0 .. MaxCounter
  BY <1>1, MaxCounterAssumption DEF save, CanSave, Sessions
<1>4. files' = files \cup {FileOf(pw, session.params, session.salt, session.counter + 1,
                                  session.dek, pt)}
  BY <1>1, <1>2 DEF save, FileOf
<1>5. files' \subseteq VaultFiles /\ FilesInv' /\ SaltInv'
  <2>1. \A g \in files : g.salt = session.salt =>
          g.params = session.params /\ g.dek = Wrap(pw, session.params, session.salt, session.dek)
    BY <1>1, <1>2 DEF VaultInv, SaltInv
  <2>2. session.params \in Params /\ session.salt \in Salts /\ session.dek \in Deks
    BY <1>1 DEF Sessions
  <2> QED
    BY <1>1, <1>3, <1>4, <2>1, <2>2, WriteFile DEF VaultInv, TypeOK
<1>6. /\ session' = [session EXCEPT !.counter = session.counter + 1, !.plaintext = pt]
      /\ unwiped' = unwiped - Buffers(session.plaintext) + Buffers(pt) /\ ended' = ended
  BY DEF save, ReplacePlaintext
<1>7. /\ session' \in Sessions /\ session'.params = session.params /\ session'.salt = session.salt
      /\ session'.kdf_header = session.kdf_header /\ session'.wrapped = session.wrapped
      /\ session'.dek = session.dek /\ session'.plaintext = pt
  BY <1>1, <1>3, <1>6 DEF Sessions
<1>8. session # Nothing /\ session' # Nothing
  BY <1>1, <1>7, VaultAssumption
<1>9. Buffers(session.plaintext) = 1 /\ Buffers(pt) = 1
  BY <1>1, VaultAssumption DEF Buffers
<1>10. BufferInv' /\ unwiped' = 2 /\ ended' \in Ends
  BY <1>6, <1>7, <1>8, <1>9 DEF VaultInv, BufferInv, Ends
<1>11. OpenInv'
  BY <1>1, <1>2, <1>4, <1>7 DEF OpenInv
<1>12. TypeOK'
  BY <1>1, <1>5, <1>7, <1>10 DEF TypeOK
<1> QED
  BY <1>2, <1>4, <1>5, <1>6, <1>10, <1>11, <1>12 DEF VaultInv

\* KeyboardInterrupt in save: the session is not used again, and its buffers
\* are still counted.
LEMMA SaveInterruptedStep ==
  ASSUME ~SessionsContinue, VaultInv, NEW pt \in Plaintexts, save_interrupted(pt)
  PROVE  VaultInv' /\ session'.interrupted = TRUE /\ files' = files
<1>1. session \in Sessions /\ validate(session.params) /\ session.plaintext \in Plaintexts
  BY UsableSession DEF VaultInv, save_interrupted
<1>2. PICK n \in 1 .. 3, new \in {Zeroed, pt} :
        /\ session' = [session EXCEPT !.plaintext = new, !.interrupted = TRUE,
                                      !.counter = IF n = 3 THEN session.counter + 1
                                                  ELSE session.counter]
        /\ unwiped' = unwiped - Buffers(session.plaintext) + Buffers(new) /\ ended' = ended
  BY DEF save_interrupted, ReplacePlaintext
<1>3. session.counter + 1 \in 0 .. MaxCounter
  BY <1>1, MaxCounterAssumption DEF save_interrupted, CanSave, Sessions
<1>4. /\ session' \in Sessions /\ session'.params = session.params
      /\ session'.plaintext = new /\ session'.interrupted = TRUE
  BY <1>1, <1>2, <1>3 DEF Sessions
<1>5. session # Nothing /\ session' # Nothing /\ files' = files
  BY <1>1, <1>4, VaultAssumption DEF save_interrupted
<1>6. Buffers(session.plaintext) \in 0 .. 1 /\ Buffers(new) \in 0 .. 1
  BY DEF Buffers
<1>7. BufferInv' /\ unwiped' \in 0 .. 2 /\ ended' \in Ends
  BY <1>2, <1>4, <1>5, <1>6 DEF VaultInv, BufferInv, Ends
<1> QED
  BY <1>1, <1>4, <1>5, <1>7 DEF VaultInv, TypeOK, FilesInv, SaltInv, OpenInv

\* change_password: a new salt and wrap for the same DEK and plaintext.
LEMMA ChangePasswordStep ==
  ASSUME ~SessionsContinue, VaultInv, NEW pw \in Passwords, NEW a \in Params,
         change_password(pw, a)
  PROVE  /\ VaultInv'
         /\ session' # Nothing /\ session'.interrupted = FALSE
         /\ session'.wrapped.key.password = pw /\ session'.counter = session.counter + 1
         /\ session'.plaintext = session.plaintext
         /\ \E salt \in Salts :
              files' = files \cup {FileOf(pw, a, salt, session.counter + 1, session.dek,
                                          session.plaintext)}
<1>1. /\ session \in Sessions /\ session.interrupted = FALSE /\ session.plaintext \in Plaintexts
      /\ validate(a)
  BY UsableSession DEF VaultInv, change_password
<1>2. PICK salt \in Salts :
        /\ FreshSalt(salt)
        /\ files' = files \cup {FileOf(pw, a, salt, session.counter + 1, session.dek,
                                       session.plaintext)}
        /\ session' = [session EXCEPT !.params = a, !.salt = salt,
                         !.kdf_header = build_kdf_header(a, salt),
                         !.wrapped = Wrap(pw, a, salt, session.dek),
                         !.counter = session.counter + 1]
  BY DEF change_password, FileOf
<1>3. session.counter + 1 \in 0 .. MaxCounter
  BY <1>1, MaxCounterAssumption DEF change_password, CanSave, Sessions
<1> DEFINE f == FileOf(pw, a, salt, session.counter + 1, session.dek, session.plaintext)
<1>4. /\ f.params = a /\ f.salt = salt /\ f.dek = Wrap(pw, a, salt, session.dek)
      /\ f.dek \in Wraps /\ f.dek.key = derive_key(pw, salt, a)
  <2>1. session.dek \in Deks
    BY <1>1 DEF Sessions
  <2> QED
    BY <1>1, <1>3, <2>1, FileOfParts
<1>5. files' \subseteq VaultFiles /\ FilesInv' /\ SaltInv'
  <2>1. session.dek \in Deks
    BY <1>1 DEF Sessions
  <2> QED
    BY <1>1, <1>2, <1>3, <2>1, WriteFile DEF VaultInv, TypeOK, FreshSalt
<1>6. f \in files'
  BY <1>2
<1> HIDE DEF f
<1>7. build_kdf_header(a, salt) \in KdfHeaders
  BY DEF build_kdf_header, KdfHeaders
<1>8. /\ session' \in Sessions /\ session'.params = a /\ session'.salt = salt
      /\ session'.kdf_header = build_kdf_header(a, salt) /\ session'.wrapped = f.dek
      /\ session'.dek = session.dek /\ session'.plaintext = session.plaintext
      /\ session'.counter = session.counter + 1 /\ session'.interrupted = FALSE
  BY <1>1, <1>2, <1>3, <1>4, <1>7 DEF Sessions
<1>9. session # Nothing /\ session' # Nothing /\ unwiped' = unwiped /\ ended' = ended
  BY <1>1, <1>8, VaultAssumption DEF change_password
<1>10. BufferInv' /\ TypeOK'
  BY <1>1, <1>5, <1>8, <1>9 DEF VaultInv, TypeOK, BufferInv
<1>11. OpenInv'
  BY <1>1, <1>4, <1>6, <1>8 DEF OpenInv
<1>12. session'.wrapped.key.password = pw
  BY <1>4, <1>8 DEF derive_key
<1> QED
  BY <1>2, <1>5, <1>8, <1>9, <1>10, <1>11, <1>12 DEF VaultInv

\* KeyboardInterrupt in change_password: whatever was assigned, the session is
\* not used again.
LEMMA ChangeInterruptedStep ==
  ASSUME ~SessionsContinue, VaultInv, NEW pw \in Passwords, NEW a \in Params,
         change_password_interrupted(pw, a)
  PROVE  VaultInv' /\ session'.interrupted = TRUE /\ files' = files
<1>1. session \in Sessions /\ validate(a)
  BY UsableSession DEF VaultInv, change_password_interrupted
<1>2. PICK salt \in Salts, n \in 1 .. 6 :
        session' = [session EXCEPT
            !.params = a,
            !.salt = IF n >= 2 THEN salt ELSE session.salt,
            !.kdf_header = IF n >= 3 THEN build_kdf_header(a, salt) ELSE session.kdf_header,
            !.wrapped = IF n >= 5 THEN Wrap(pw, a, salt, session.dek)
                        ELSE IF n = 4 THEN Garbled ELSE session.wrapped,
            !.counter = IF n = 6 THEN session.counter + 1 ELSE session.counter,
            !.interrupted = TRUE]
  BY DEF change_password_interrupted
<1>3. session.counter + 1 \in 0 .. MaxCounter
  BY <1>1, MaxCounterAssumption DEF change_password_interrupted, CanSave, Sessions
<1>4. Wrap(pw, a, salt, session.dek) \in Wraps /\ build_kdf_header(a, salt) \in KdfHeaders
  BY <1>1 DEF Wrap, encrypt, derive_key, build_kdf_header, Wraps, KdfHeaders, Sessions
<1>5. /\ session' \in Sessions /\ session'.params = a
      /\ session'.plaintext = session.plaintext /\ session'.interrupted = TRUE
  BY <1>1, <1>2, <1>3, <1>4, ZenonT(60) DEF Sessions
<1>6. /\ session # Nothing /\ session' # Nothing
      /\ files' = files /\ unwiped' = unwiped /\ ended' = ended
  BY <1>1, <1>5, VaultAssumption DEF change_password_interrupted
<1> QED
  BY <1>1, <1>5, <1>6 DEF VaultInv, TypeOK, FilesInv, SaltInv, OpenInv, BufferInv

\* open_vault that raises: there is no session, and what is left is counted.
LEMMA OpenRaisesStep ==
  ASSUME VaultInv, NEW pw \in Passwords, NEW f \in Readable, open_vault_raises(pw, f)
  PROVE  VaultInv' /\ session' = Nothing /\ files' = files
BY DEF open_vault_raises, VaultInv, TypeOK, FilesInv, SaltInv, OpenInv, BufferInv, Ends

\* close: both buffers are wiped, or, when it is cut short, some of them.
LEMMA CloseStep ==
  ASSUME VaultInv, close \/ close_interrupted
  PROVE  VaultInv' /\ session' = Nothing /\ files' = files
<1>1. Buffers(session.plaintext) \in 0 .. 1
  BY DEF Buffers
<1>2. CASE close
  BY <1>1, <1>2 DEF close, VaultInv, TypeOK, FilesInv, SaltInv, OpenInv, BufferInv, Ends
<1>3. CASE close_interrupted
  BY <1>1, <1>3
     DEF close_interrupted, VaultInv, TypeOK, FilesInv, SaltInv, OpenInv, BufferInv, Ends
<1> QED
  BY <1>2, <1>3

\* Every step keeps the invariant.
LEMMA VaultStep == ~SessionsContinue /\ VaultInv /\ [Next]_vars => VaultInv'
<1> SUFFICES ASSUME ~SessionsContinue, VaultInv, [Next]_vars PROVE VaultInv'
  OBVIOUS
<1>1. CASE UNCHANGED vars
  BY <1>1 DEF vars, VaultInv, TypeOK, FilesInv, SaltInv, OpenInv, BufferInv
<1> QED
  BY <1>1, CreateStep, OpenStep, OpenRaisesStep, SaveStep, SaveInterruptedStep, ChangePasswordStep,
     ChangeInterruptedStep, CloseStep DEF Next

\* For callers that close their session when KeyboardInterrupt hits it, the
\* invariant holds always.
LEMMA VaultInvariant == ~SessionsContinue => (Spec => []VaultInv)
<1> SUFFICES ASSUME ~SessionsContinue PROVE Spec => []VaultInv
  OBVIOUS
<1>1. VaultInv /\ [Next]_vars => VaultInv'
  BY VaultStep
<1> QED
  BY <1>1, VaultInit, PTL DEF Spec

\* Files and session keep their types, and the costs in memory are in range.
THEOREM TypeCorrect == ~SessionsContinue => (Spec => []TypeOK)
<1>1. VaultInv => TypeOK
  BY DEF VaultInv
<1> QED
  BY <1>1, VaultInvariant, PTL

\* A close that ran to its end has left no buffer with a DEK or a plaintext
\* behind, whatever the session did and wherever its operations were
\* interrupted.  Nothing is claimed of a close that was cut short.
THEOREM WipedCorrect == ~SessionsContinue => (Spec => []SessionWiped)
<1>1. VaultInv => SessionWiped
  BY DEF VaultInv, BufferInv, SessionWiped
<1> QED
  BY <1>1, VaultInvariant, PTL

-----------------------------------------------------------------------------
\* The refinement of SealedVault

\* The box of a session that was not interrupted.
LEMMA SessionBoxOpen ==
  ASSUME session \in Sessions, session # Nothing, session.interrupted = FALSE
  PROVE  SessionBox = [password |-> session.wrapped.key.password, counter |-> session.counter,
                       plaintext |-> session.plaintext]
BY DEF SessionBox

\* The abstract box after a save, and after a change of the password.
LEMMA BoxChanges ==
  ASSUME NEW pw, NEW n, NEW pt, NEW new,
         NEW box, box = [password |-> pw, counter |-> n, plaintext |-> pt]
  PROVE  /\ Abstract!SaveBox(box, new) = [password |-> pw, counter |-> n + 1, plaintext |-> new]
         /\ Abstract!RekeyBox(box, new) = [password |-> new, counter |-> n + 1, plaintext |-> pt]
<1>1. box \in [password : {pw}, counter : {n}, plaintext : {pt}] /\ box.counter = n
  OBVIOUS
<1>2. Abstract!SaveBox(box, new) \in [password : {pw}, counter : {n + 1}, plaintext : {new}]
  BY <1>1 DEF Abstract!SaveBox
<1>3. Abstract!RekeyBox(box, new) \in [password : {new}, counter : {n + 1}, plaintext : {pt}]
  BY <1>1 DEF Abstract!RekeyBox
<1> QED
  BY <1>2, <1>3

\* Every step of vault.py is a step of the sealed box.
LEMMA SealedStep ==
  ~SessionsContinue /\ VaultInv /\ [Next]_vars
    => [Abstract!SealedNext]_<<SessionBox, {Shows(f) : f \in files}>>
<1> SUFFICES ASSUME ~SessionsContinue, VaultInv, [Next]_vars
             PROVE  [Abstract!SealedNext]_<<SessionBox, {Shows(f) : f \in files}>>
  OBVIOUS
<1> DEFINE boxes == {Shows(f) : f \in files}
<1>0. ASSUME NEW g, files' = files \cup {g} PROVE boxes' = boxes \cup {Shows(g)}
  BY <1>0
<1>1. ASSUME NEW pw \in Passwords, NEW pt \in Plaintexts, NEW a \in Params, create(pw, pt, a)
      PROVE  Abstract!SealedNext
  <2>1. PICK salt \in Salts, dek \in Deks : files' = files \cup {FileOf(pw, a, salt, 0, dek, pt)}
    BY <1>1 DEF create, FileOf
  <2>2. Shows(FileOf(pw, a, salt, 0, dek, pt)) = NewBox(pw, pt)
    <3>1. 0 \in 0 .. MaxCounter /\ validate(a)
      BY <1>1, MaxCounterAssumption DEF create
    <3> QED
      BY <3>1, FileOpens DEF NewBox
  <2>3. boxes' = boxes \cup {NewBox(pw, pt)} /\ SessionBox' = SessionBox
    BY <1>0, <1>1, <2>1, <2>2 DEF create, SessionBox
  <2> QED
    BY <2>3 DEF Abstract!SealedNext, Abstract!Create, Abstract!NewBox, NewBox
<1>2. ASSUME NEW pw \in Passwords, NEW f \in Readable, open_vault(pw, f)
      PROVE  Abstract!SealedNext
  <2>1. /\ VaultInv' /\ f \in files /\ session' # Nothing /\ session'.interrupted = FALSE
        /\ session'.wrapped = f.dek /\ session'.counter = f.counter
        /\ session'.plaintext = f.body.plaintext
    BY <1>2, OpenStep
  <2>2. PICK q \in Passwords, a \in Params, salt \in Salts, n \in 0 .. MaxCounter, dek \in Deks,
             pt \in Plaintexts : validate(a) /\ f = FileOf(q, a, salt, n, dek, pt)
    BY <2>1 DEF VaultInv, FilesInv
  <2>3. f.dek.key.password = q /\ f.counter = n /\ f.body.plaintext = pt
    <3>1. f.dek.key = derive_key(q, salt, a) /\ f.counter = n /\ f.body.plaintext = pt
      BY <2>2, FileOfParts
    <3> QED
      BY <3>1 DEF derive_key
  <2>4. Shows(f) = [password |-> q, counter |-> n, plaintext |-> pt]
    BY <2>2, FileOpens
  <2>5. SessionBox' = Shows(f)
    BY <2>1, <2>3, <2>4 DEF SessionBox
  <2>6. SessionBox = Nothing /\ boxes' = boxes
    BY <1>2 DEF open_vault, SessionBox
  <2> QED
    BY <2>1, <2>5, <2>6 DEF Abstract!SealedNext, Abstract!Open
<1>b. ASSUME session \in Sessions, session # Nothing, session.interrupted = FALSE,
             session.plaintext \in Plaintexts, session.wrapped \in Wraps
      PROVE  /\ SessionBox = [password |-> session.wrapped.key.password,
                              counter |-> session.counter, plaintext |-> session.plaintext]
             /\ SessionBox # Nothing
  <2>1. SessionBox = [password |-> session.wrapped.key.password,
                      counter |-> session.counter, plaintext |-> session.plaintext]
    BY <1>b, SessionBoxOpen
  <2>2. session.wrapped.key.password \in Passwords /\ session.counter \in 0 .. MaxCounter
    BY <1>b DEF Wraps, Sessions
  <2> QED
    BY <1>b, <2>1, <2>2, VaultAssumption
<1>u. ASSUME Usable
      PROVE  /\ session \in Sessions /\ session # Nothing /\ session.interrupted = FALSE
             /\ session.plaintext \in Plaintexts /\ session.wrapped \in Wraps
             /\ validate(session.params)
  <2>1. /\ session \in Sessions /\ session.interrupted = FALSE /\ validate(session.params)
        /\ session.plaintext \in Plaintexts
    BY <1>u, UsableSession DEF VaultInv
  <2>2. PICK f \in files : f.dek = session.wrapped
    BY <1>u, UsableSession DEF VaultInv
  <2> QED
    BY <2>1, <2>2, VaultAssumption DEF VaultInv, TypeOK, VaultFiles
<1>3. ASSUME NEW pt \in Plaintexts, save(pt) PROVE Abstract!SealedNext
  <2>1. PICK pw \in Passwords :
          /\ session.wrapped = Wrap(pw, session.params, session.salt, session.dek)
          /\ files' = files \cup {FileOf(pw, session.params, session.salt,
                                         session.counter + 1, session.dek, pt)}
    BY <1>3, SaveStep
  <2>2. /\ session \in Sessions /\ session # Nothing /\ session.interrupted = FALSE
        /\ session.plaintext \in Plaintexts /\ session.wrapped \in Wraps
        /\ validate(session.params)
    BY <1>3, <1>u DEF save
  <2>3. session.wrapped.key.password = pw
    BY <2>1 DEF Wrap, encrypt, derive_key
  <2>4. session.counter + 1 \in 0 .. MaxCounter /\ session.counter < MaxCounter
    BY <1>3, <2>2, MaxCounterAssumption DEF save, CanSave, Sessions
  <2> DEFINE new == [password |-> pw, counter |-> session.counter + 1, plaintext |-> pt]
  <2>5. boxes' = boxes \cup {new}
    <3>1. session.params \in Params /\ session.salt \in Salts /\ session.dek \in Deks
      BY <2>2 DEF Sessions
    <3>2. Shows(FileOf(pw, session.params, session.salt, session.counter + 1, session.dek, pt)) = new
      BY <2>2, <2>4, <3>1, FileOpens
    <3> QED
      BY <1>0, <2>1, <3>2
  <2>6. SessionBox = [password |-> pw, counter |-> session.counter, plaintext |-> session.plaintext]
        /\ SessionBox # Nothing
    BY <1>b, <2>2, <2>3
  <2>7. SessionBox' = new
    <3>1. /\ VaultInv'
          /\ session' = [session EXCEPT !.counter = session.counter + 1, !.plaintext = pt]
      BY <1>3, SaveStep
    <3>2. /\ session'.wrapped = session.wrapped /\ session'.counter = session.counter + 1
          /\ session'.plaintext = pt /\ session'.interrupted = FALSE /\ session' \in Sessions
      BY <2>2, <2>4, <3>1 DEF Sessions
    <3>3. session' # Nothing
      BY <3>2, VaultAssumption
    <3> QED
      BY <2>3, <3>2, <3>3 DEF SessionBox
  <2>8. Abstract!SaveBox(SessionBox, pt) = new /\ Abstract!CanSave(SessionBox)
    BY <2>4, <2>6, BoxChanges DEF Abstract!CanSave
  <2> QED
    BY <2>5, <2>6, <2>7, <2>8 DEF Abstract!SealedNext, Abstract!Save, Abstract!Write
<1>4. ASSUME NEW pw \in Passwords, NEW a \in Params, change_password(pw, a)
      PROVE  Abstract!SealedNext
  <2>1. PICK salt \in Salts :
          files' = files \cup {FileOf(pw, a, salt, session.counter + 1, session.dek,
                                      session.plaintext)}
    BY <1>4, ChangePasswordStep
  <2>2. /\ session \in Sessions /\ session # Nothing /\ session.interrupted = FALSE
        /\ session.plaintext \in Plaintexts /\ session.wrapped \in Wraps /\ validate(a)
    BY <1>4, <1>u DEF change_password
  <2>4. session.counter + 1 \in 0 .. MaxCounter /\ session.counter < MaxCounter
    BY <1>4, <2>2, MaxCounterAssumption DEF change_password, CanSave, Sessions
  <2> DEFINE new == [password |-> pw, counter |-> session.counter + 1,
                     plaintext |-> session.plaintext]
  <2>5. boxes' = boxes \cup {new}
    <3>1. session.dek \in Deks
      BY <2>2 DEF Sessions
    <3>2. Shows(FileOf(pw, a, salt, session.counter + 1, session.dek, session.plaintext)) = new
      BY <2>2, <2>4, <3>1, FileOpens
    <3> QED
      BY <1>0, <2>1, <3>2
  <2>6. SessionBox = [password |-> session.wrapped.key.password, counter |-> session.counter,
                      plaintext |-> session.plaintext]
        /\ SessionBox # Nothing
    BY <1>b, <2>2
  <2>7. SessionBox' = new
    BY <1>4, ChangePasswordStep DEF SessionBox
  <2>8. Abstract!RekeyBox(SessionBox, pw) = new /\ Abstract!CanSave(SessionBox)
    BY <2>4, <2>6, BoxChanges DEF Abstract!CanSave
  <2> QED
    BY <2>5, <2>6, <2>7, <2>8 DEF Abstract!SealedNext, Abstract!ChangePassword, Abstract!Write
<1>5. ASSUME files' = files, session' = Nothing \/ session'.interrupted = TRUE
      PROVE  Abstract!SealedNext
  <2>1. SessionBox' = Nothing /\ boxes' = boxes
    BY <1>5 DEF SessionBox
  <2> QED
    BY <2>1 DEF Abstract!SealedNext, Abstract!Close
<1>6. ASSUME NEW pt \in Plaintexts, save_interrupted(pt) PROVE Abstract!SealedNext
  BY <1>5, <1>6, SaveInterruptedStep
<1>7. ASSUME NEW pw \in Passwords, NEW a \in Params, change_password_interrupted(pw, a)
      PROVE  Abstract!SealedNext
  BY <1>5, <1>7, ChangeInterruptedStep
<1>8. CASE close \/ close_interrupted
  BY <1>5, <1>8, CloseStep
<1>10. ASSUME NEW pw \in Passwords, NEW f \in Readable, open_vault_raises(pw, f)
       PROVE  Abstract!SealedNext
  BY <1>5, <1>10, OpenRaisesStep
<1>9. CASE UNCHANGED vars
  BY <1>9 DEF vars, SessionBox
<1> HIDE DEF boxes
<1> QED
  BY <1>1, <1>2, <1>3, <1>4, <1>6, <1>7, <1>8, <1>9, <1>10 DEF Next, boxes

\* vault.py implements the sealed box: each file opens with the password its
\* owner last chose and no other, to the plaintext last saved, and no mixture of
\* parts of files opens as anything that was not written.
THEOREM SealedRefinement == ~SessionsContinue => (Spec => ImplementsSealedVault)
<1> SUFFICES ASSUME ~SessionsContinue PROVE Spec => ImplementsSealedVault
  OBVIOUS
<1>1. Init => Abstract!SealedInit
  BY DEF Init, Abstract!SealedInit, SessionBox
<1>2. VaultInv /\ [Next]_vars => [Abstract!SealedNext]_<<SessionBox, {Shows(f) : f \in files}>>
  BY SealedStep
<1> QED
  BY <1>1, <1>2, VaultInvariant, PTL DEF Spec, ImplementsSealedVault, Abstract!SealedSpec
==============================================================================
