----------------------------- MODULE UserFiles -----------------------------
(***************************************************************************)
(* The files of one account under UserDataPath: custom configurations,     *)
(* which POST /v1/users/current/custom/:key writes in place, and images,   *)
(* uploaded or copied from a path (user.go, pkg/utils/file).  A save of    *)
(* the configuration named system is published on the message bus.         *)
(*                                                                         *)
(* A step is one call of the file system or of the bus.  A name refers to  *)
(* a file; a file that is open stays what it is when its name is removed,  *)
(* and is gone when neither a name nor a request refers to it.  A text is  *)
(* written chunk by chunk, at the position of the descriptor.  A request   *)
(* that is refused before its first change is a step that is not taken.    *)
(***************************************************************************)
EXTENDS Naturals, Sequences, FileSystem

CONSTANTS
    Requests,
    Confs,          \* names of configurations
    System,         \* the one whose saves are published
    Images,         \* names of images
    Avatar,         \* the one PUT /v1/users/avatar writes
    Outside,        \* an image elsewhere on the box, ...
    OutsideText,    \* ... and what it holds
    Chunks,
    Contents,       \* what clients save and upload: sequences of chunks
    Hole,           \* a chunk nobody wrote
    Unknown         \* for the properties: no claim

ASSUME NamesAssumption == /\ System \in Confs /\ Avatar \in Images
                          /\ Confs \cap Images = {} /\ Outside \notin Confs \cup Images
ASSUME ContentsAssumption == /\ Contents \subseteq Seq(Chunks) /\ OutsideText \in Contents
                             /\ Unknown \notin Contents

VARIABLES
    names,          \* the names requests use: configurations and images share no file,
                    \* so that a behaviour need have one kind only
    dir,            \* the directory of the account exists
    entry,          \* the file each name refers to
    text,           \* what the files hold
    req,            \* the requests under way
    \* What happened, for the properties:
    expect,         \* per name, what the last request that had it alone answered for
    shared,         \* requests that had a name together with another request or a deletion,
                    \* or could not remove its file
    torn,           \* configurations two requests had open at once, or whose writer was cut off
    heard           \* the configuration the bus was last told of; Unknown if it refused

vars == <<names, dir, entry, text, req, expect, shared, torn, heard>>

Names == Confs \cup Images

Idle == [at |-> "idle", op |-> "none", name |-> Avatar, from |-> Outside, data |-> <<>>,
         fd |-> NoFile, src |-> NoFile, pos |-> 0]

Under(r) == req[r].at # "idle"

\* The names a request depends on.
Touches(r) == IF Under(r) THEN {req[r].name, req[r].from} \ {Outside} ELSE {}

Named(ns) == {entry[n] : n \in ns}

Readable == Named(Names) \cup {req[r].src : r \in Requests}

InUse == Readable \cup {req[r].fd : r \in Requests}

\* The files with texts t, where a file that nobody can read any more counts as empty;
\* half is kept for configurations.
Store(t, half) ==
    \E readable \in {Readable'}, confs \in {Named(Confs)'} :
        /\ text' = [f \in Files |-> IF f \in readable THEN t[f] ELSE <<>>]
        /\ torn' = half \cap confs

\* What a reader gets: nothing if there is no file.
ReadFullFile(n) == IF entry[n] = NoFile THEN <<>> ELSE text[entry[n]]

\* GET /v1/users/current/custom/:key, valid JSON or not.
GetUserCustomConf(n) == ReadFullFile(n)

\* GET /v1/users/image; nothing is a 404.
GetUserImage(n) == ReadFullFile(n)

\* What GetImageExt tells of a file by its first bytes: it is an image.
GetImageExt(content) == content # <<>> /\ content[1] # Hole

-----------------------------------------------------------------------------
(* How requests begin and end.                                             *)

\* The requests that depend on one of these names.
Sharing(ns) == {s \in Requests : Touches(s) \cap ns # {}}

Begin(r, q) ==
    LET others == Sharing({q.name, q.from} \ {Outside}) IN
    /\ req[r].at = "idle" /\ q.name \in names
    /\ req' = [req EXCEPT ![r] = q]
    /\ expect' = [expect EXCEPT ![q.name] = Unknown]
    /\ shared' = IF others = {} THEN shared ELSE shared \cup others \cup {r}

Goto(r, at) == req' = [req EXCEPT ![r].at = at] /\ UNCHANGED <<expect, shared>>

\* The end of a request that answers an error, or none.
Return(r) ==
    /\ req' = [req EXCEPT ![r] = Idle] /\ shared' = shared \ {r}
    /\ UNCHANGED expect

\* The end of a request that answers, having done what it says or not.
Answer(r, done) ==
    /\ req' = [req EXCEPT ![r] = Idle] /\ shared' = shared \ {r}
    /\ expect' = [expect EXCEPT ![req[r].name] =
                     IF r \notin shared /\ done THEN req[r].data ELSE Unknown]

\* What a request has to write: the text it got, or the file it copies.
Source(r) == IF req[r].src = NoFile THEN req[r].data ELSE text[req[r].src]

\* The bound of Files: a file is made only while one of them is free.
Room(n) == entry[n] # NoFile \/ Files \ InUse # {}

FileOf(n) == IF entry[n] = NoFile THEN CHOOSE f \in Files : f \notin InUse ELSE entry[n]

-----------------------------------------------------------------------------
(* Calls that several handlers make.                                       *)

\* A file opened without O_TRUNC.
Bug_Open(r, next) ==
    LET f == FileOf(req[r].name) IN
    /\ dir /\ Room(req[r].name)
    /\ entry' = [entry EXCEPT ![req[r].name] = f]
    /\ req' = [req EXCEPT ![r].at = next, ![r].fd = f, ![r].pos = 0]
    /\ UNCHANGED <<expect, shared>>
    /\ Store(text, IF \E s \in Requests : req[s].fd = f THEN torn \cup {f} ELSE torn \ {f})

\* os.Create, and os.OpenFile with O_TRUNC and O_CREATE: the file is made if there is
\* none, and is empty.
Open(r, next) ==
    LET f == FileOf(req[r].name) IN
    /\ dir /\ Room(req[r].name)
    /\ entry' = [entry EXCEPT ![req[r].name] = f]
    /\ req' = [req EXCEPT ![r].at = next, ![r].fd = f, ![r].pos = 0]
    /\ UNCHANGED <<expect, shared>>
    /\ Store([text EXCEPT ![f] = <<>>],
             IF \E s \in Requests : req[s].fd = f THEN torn \cup {f} ELSE torn \ {f})

\* The text t with c at position k; what was never written below k is a hole.
WriteAt(t, k, c) ==
    [i \in 1..(IF k > Len(t) THEN k ELSE Len(t)) |->
        IF i = k THEN c ELSE IF i <= Len(t) THEN t[i] ELSE Hole]

\* The next chunk is written where the descriptor stands.
WriteChunk(r) ==
    LET f == req[r].fd
        k == req[r].pos + 1
    IN  /\ req[r].at = "write" /\ k <= Len(Source(r))
        /\ req' = [req EXCEPT ![r].pos = k]
        /\ UNCHANGED <<dir, entry, expect, shared, heard>>
        /\ Store([text EXCEPT ![f] = WriteAt(@, k, Source(r)[k])], torn)

\* An error of the disk while a file is open for writing.
CutOff(r) == Store(text, torn \cup {req[r].fd})

Written(r) == req[r].at = "write" /\ req[r].pos >= Len(Source(r))

-----------------------------------------------------------------------------
(* POST /v1/users/current/custom/:key                                      *)

IsNotExistMkDir == dir' = TRUE

\* The directory is made and WriteToPath looks whether the file exists; ...
PostUserCustomConf(r) ==
    /\ \E n \in Confs, d \in Contents :
        Begin(r, [Idle EXCEPT !.at = IF entry[n] = NoFile THEN "touch" ELSE "open",
                              !.op = "save", !.name = n, !.data = d])
    /\ IsNotExistMkDir
    /\ UNCHANGED <<entry, text, torn, heard>>

\* ... if not, IsNotExistCreateFile makes it, whatever it now holds, and closes it;
\* an error is ignored; ...
IsNotExistCreateFile(r) ==
    LET f == FileOf(req[r].name) IN
    /\ req[r].at = "touch"
    /\ Goto(r, "open")
    /\ UNCHANGED <<dir, heard>>
    /\ \/ /\ Room(req[r].name) /\ entry' = [entry EXCEPT ![req[r].name] = f]
          /\ Store([text EXCEPT ![f] = <<>>], torn \cup {f})
       \/ UNCHANGED <<entry, text, torn>>

\* ... it is opened and truncated, or the request ends in an error; ...
OpenFile(r) ==
    /\ req[r].at = "open"
    /\ UNCHANGED <<dir, heard>>
    /\ \/ Open(r, "write")
       \/ Return(r) /\ UNCHANGED <<entry, text, torn>>

\* A save whose error is not looked at.
Bug_WriteError(r) ==
    /\ req[r].at = "write" /\ req[r].op = "save"
    /\ UNCHANGED <<dir, entry, heard>>
    /\ Answer(r, TRUE) /\ CutOff(r)

\* ... it is written chunk by chunk, or the request ends in an error; ...
WriteError(r) ==
    /\ req[r].at = "write" /\ req[r].op = "save"
    /\ UNCHANGED <<dir, entry, heard>>
    /\ Return(r) /\ CutOff(r)

\* No configuration is published.
Bug_Saved(r) ==
    /\ Written(r) /\ req[r].op = "save"
    /\ Answer(r, TRUE)
    /\ UNCHANGED <<dir, entry, heard>>
    /\ Store(text, torn)

\* ... closed, and answered unless it is the system configuration.  What is not JSON, an
\* empty text for one, is stored like any other, and the answer is an error.
Saved(r) ==
    /\ Written(r) /\ req[r].op = "save"
    /\ IF req[r].name = System
       THEN /\ req' = [req EXCEPT ![r].at = "publish", ![r].fd = NoFile]
            /\ UNCHANGED <<expect, shared>>
       ELSE \E json \in BOOLEAN : Answer(r, json)
    /\ UNCHANGED <<dir, entry, heard>>
    /\ Store(text, torn)

\* That one is published, and answered whatever the bus answers.  The bus may be away,
\* or its answer lost: there is no response then, and the code asks a nil one for its
\* status ...
PublishEvent(r) ==
    /\ req[r].at = "publish"
    /\ \/ heard' \in {req[r].data, Unknown} /\ \E json \in BOOLEAN : Answer(r, json)
       \/ heard' \in {req[r].data, heard} /\ Goto(r, "panic")
    /\ UNCHANGED <<dir, entry, text, torn>>

\* ... which ends the request without an answer.  The server goes on.
Panic(r) ==
    /\ req[r].at = "panic"
    /\ Return(r)
    /\ UNCHANGED <<dir, entry, text, torn, heard>>

-----------------------------------------------------------------------------
(* Images.  The errors of a copy or an upload are not looked at: the       *)
(* answer is success.                                                      *)

\* PUT /v1/users/current/image/:key: the source is looked at, and is an image, ...
PutUserImage(r) ==
    /\ \E n \in Images, from \in Images \cup {Outside} :
        LET source == IF from = Outside THEN OutsideText ELSE ReadFullFile(from) IN
        /\ GetImageExt(source)
        /\ Begin(r, [Idle EXCEPT !.at = "stat", !.op = "copy", !.name = n, !.from = from])
    /\ UNCHANGED <<dir, entry, text, torn, heard>>

\* Others may remove an image elsewhere at any time.
SourceExists(r) == req[r].from # Outside => entry[req[r].from] # NoFile

\* ... and looked at again for its size: one that has vanished is a panic, which ends
\* the request.
StatImage(r) ==
    /\ req[r].at = "stat"
    /\ \/ SourceExists(r) /\ Goto(r, "remove")
       \/ (req[r].from = Outside \/ ~SourceExists(r)) /\ Goto(r, "panic")
    /\ UNCHANGED <<dir, entry, text, torn, heard>>

\* CopySingleFile and PutUserAvatar remove what the name refers to, ...
Remove(r) ==
    /\ req[r].at = "remove"
    /\ \E removed \in BOOLEAN :
        /\ entry' = IF removed THEN [entry EXCEPT ![req[r].name] = NoFile] ELSE entry
        /\ req' = [req EXCEPT ![r].at = IF req[r].op = "copy" THEN "source" ELSE "create"]
        /\ shared' = IF removed THEN shared ELSE shared \cup {r}
    /\ UNCHANGED <<dir, expect, heard>>
    /\ Store(text, torn)

\* ... then the source of a copy is opened: there is none if it is the name just
\* removed, ...
OpenSource(r) ==
    /\ req[r].at = "source"
    /\ \/ /\ SourceExists(r)
          /\ req' = [req EXCEPT ![r].at = "create",
                                ![r].src  = IF req[r].from = Outside THEN NoFile ELSE entry[req[r].from],
                                ![r].data = IF req[r].from = Outside THEN OutsideText ELSE ReadFullFile(req[r].from)]
          /\ UNCHANGED <<expect, shared>>
       \/ Answer(r, FALSE)
    /\ UNCHANGED <<dir, entry, text, torn, heard>>

\* A file that could not be made is written to.
Bug_CreateImage(r) ==
    /\ req[r].at = "create"
    /\ UNCHANGED <<dir, heard>>
    /\ \/ Open(r, "write")
       \/ Goto(r, "write") /\ UNCHANGED <<entry, text, torn>>

\* ... the new file is made, which fails if there is no directory, ...
CreateImage(r) ==
    /\ req[r].at = "create"
    /\ UNCHANGED <<dir, heard>>
    /\ \/ Open(r, "write")
       \/ UNCHANGED entry /\ Answer(r, FALSE) /\ Store(text, torn)

\* ... written, all of it or a part, and the request is answered.
ImageWritten(r) ==
    /\ req[r].op # "save" /\ req[r].at = "write"
    /\ UNCHANGED <<dir, entry, heard>>
    /\ \/ Written(r) /\ Answer(r, TRUE) /\ Store(text, torn)
       \/ Answer(r, FALSE) /\ CutOff(r)

\* The directory is made, and then the file as above.
SaveUploadedFile(r, n, d) ==
    /\ Begin(r, [Idle EXCEPT !.at = "create", !.op = "put", !.name = n, !.data = d])
    /\ dir' = TRUE
    /\ UNCHANGED <<entry, text, torn, heard>>

\* POST /v1/users/current/image/:key, for the key or, if it says so, for the avatar.
PostUserUploadImage(r) == \E n \in Images, d \in Contents : SaveUploadedFile(r, n, d)

\* PUT /v1/users/avatar, the part on the file (the row is in module Profile).
PutUserAvatar(r) ==
    /\ \E d \in Contents :
        Begin(r, [Idle EXCEPT !.at = "remove", !.op = "put", !.name = Avatar, !.data = d])
    /\ UNCHANGED <<dir, entry, text, torn, heard>>

-----------------------------------------------------------------------------
(* Deletions, which are one call, and what happens beside the requests.    *)

Removed(n) ==
    /\ n \in names /\ entry[n] # NoFile
    /\ entry' = [entry EXCEPT ![n] = NoFile]
    /\ shared' = shared \cup Sharing({n})
    /\ expect' = [expect EXCEPT ![n] = IF Sharing({n}) = {} THEN <<>> ELSE Unknown]
    /\ UNCHANGED <<dir, req, heard>>
    /\ Store(text, torn)

\* DELETE /v1/users/current/custom/:key; nothing is published.
DeleteUserCustomConf(n) == n \in Confs /\ Removed(n)

\* DELETE /v1/users/current/image, which answers success when the file could not be
\* removed.
DeleteUserImage(n) ==
    /\ n \in Images
    /\ \/ Removed(n)
       \/ /\ n \in names /\ entry[n] # NoFile
          /\ expect' = [expect EXCEPT ![n] = Unknown]
          /\ UNCHANGED <<dir, entry, text, req, shared, torn, heard>>

\* The service ends and starts.
Restart ==
    /\ \E r \in Requests : Under(r)
    /\ req' = [r \in Requests |-> Idle] /\ shared' = {}
    /\ UNCHANGED <<dir, entry, expect, heard>>
    /\ Store(text, torn \cup {req[r].fd : r \in {s \in Requests : req[s].at = "write"}})

Init ==
    /\ names \in {Confs, Images}
    /\ dir \in BOOLEAN
    /\ entry = [n \in Names |-> NoFile]
    /\ text = [f \in Files |-> <<>>]
    /\ req = [r \in Requests |-> Idle]
    /\ expect = [n \in Names |-> <<>>]
    /\ shared = {} /\ torn = {}
    /\ heard = <<>>

Save(r) ==
    \/ PostUserCustomConf(r) \/ IsNotExistCreateFile(r) \/ OpenFile(r)
    \/ WriteError(r) \/ Saved(r) \/ PublishEvent(r) \/ Panic(r)

Image(r) ==
    \/ PutUserImage(r) \/ StatImage(r) \/ Remove(r) \/ OpenSource(r) \/ CreateImage(r)
    \/ ImageWritten(r) \/ PostUserUploadImage(r) \/ PutUserAvatar(r)

Next ==
  /\ UNCHANGED names
  /\ \/ \E r \in Requests : Save(r) \/ Image(r) \/ WriteChunk(r)
     \/ \E n \in Names : DeleteUserCustomConf(n) \/ DeleteUserImage(n)
     \/ Restart

Spec == Init /\ [][Next]_vars

-----------------------------------------------------------------------------
(* Properties.                                                             *)

Texts == Seq(Chunks \cup {Hole})

Stages == {"idle", "touch", "open", "write", "publish", "panic",
           "stat", "remove", "source", "create"}

Request ==
    [ at : Stages, op : {"none", "save", "copy", "put"}, name : Names, from : Names \cup {Outside},
      data : Texts, fd : Files \cup {NoFile}, src : Files \cup {NoFile}, pos : Nat ]

\* The variables have the types the code gives them; a request that writes, and no other,
\* has its file open, and a file that cannot be read any more counts as empty.
TypeOK ==
    /\ names \in {Confs, Images}
    /\ dir \in BOOLEAN
    /\ entry \in [Names -> Files \cup {NoFile}]
    /\ text \in [Files -> Texts]
    /\ \A f \in Files \ Readable : text[f] = <<>>
    /\ req \in [Requests -> Request]
    /\ \A r \in Requests : req[r].at = "write" <=> req[r].fd # NoFile
    /\ expect \in [Names -> {Unknown} \cup Texts]
    /\ shared \subseteq {r \in Requests : Under(r)}
    /\ torn \subseteq Named(Confs) \cap Files
    /\ heard \in {Unknown} \cup Texts

\* What a request answered for is what the file holds: a save, an upload, an avatar, a
\* copy or a deletion that no other request of the name overlapped is what every reader
\* gets until the next one, whatever longer or broken text was there before, and across
\* restarts (file.go:95-168, user.go:531-751).  Excepted are images whose error was not
\* looked at: of the disk, or of a copy onto itself, which removes its source first.
AnsweredIsStored ==
    /\ \A n \in Confs : expect[n] # Unknown => GetUserCustomConf(n) = expect[n]
    /\ \A n \in Images : expect[n] # Unknown => GetUserImage(n) = expect[n]

\* A configuration that nobody is writing is the whole text of one save, however saves
\* and deletions overlapped, unless two saves had the same file open at once or a writer
\* was cut off (file.go:128-147).
SettledConfIsWhole ==
    \A n \in Confs :
        entry[n] \notin torn \cup {NoFile} \cup {req[r].fd : r \in Requests}
            => text[entry[n]] \in Contents

\* Once a save of the system configuration is answered, with no other beside it, the bus
\* was last told of that one, unless it refused it: an older save, cut off at whatever
\* step, is not told of afterwards (user.go:550-566).  An empty text is no such save, but
\* what a deletion leaves.
AnsweredSaveIsAnnounced ==
    expect[System] \notin {<<>>, Unknown} => heard \in {expect[System], Unknown}

-----------------------------------------------------------------------------
(* The inductive invariant behind the properties above: a file belongs to  *)
(* one name, a request that is alone with its names finds them as it left  *)
(* them, and a configuration nobody is late with holds what its writer has *)
(* written so far.                                                         *)

\* The file f is the one of the name n, or was when a request opened it.
Refers(n, f) ==
    \/ entry[n] = f
    \/ \E r \in Requests : \/ req[r].name = n /\ req[r].fd = f
                           \/ req[r].from = n /\ req[r].src = f

\* No file belongs to two names, and only names in use have files.
ApartInv ==
    /\ \A f \in Files : \A n, m \in Names : Refers(n, f) /\ Refers(m, f) => n = m
    /\ \A n \in Names \ names : entry[n] = NoFile /\ expect[n] = <<>>

\* Where a request stands, and what it holds there.
RequestInv(r) ==
    /\ Under(r) => /\ req[r].name \in names /\ expect[req[r].name] = Unknown
                   /\ req[r].op = "save" <=> req[r].name \in Confs
                   /\ req[r].at \notin {"write", "panic"} =>
                        (req[r].op = "save" <=> req[r].at \in {"touch", "open", "publish"})
                   /\ req[r].op = "save" => req[r].data \in Contents
                   /\ req[r].op # "copy" => req[r].from = Outside
    /\ req[r].src # NoFile => req[r].at \in {"create", "write"} /\ req[r].from # Outside
    /\ req[r].at = "publish" => req[r].name = System

\* The file a request writes holds what the request has written.
WrittenSoFar(r) ==
    /\ Len(text[req[r].fd]) = req[r].pos /\ req[r].pos <= Len(req[r].data)
    /\ \A i \in 1..req[r].pos : text[req[r].fd][i] = req[r].data[i]

\* A request that had its names alone so far finds them as it left them.
AloneInv(r) ==
    Under(r) /\ r \notin shared =>
        /\ \A s \in Requests : s # r => Touches(s) \cap Touches(r) = {}
        /\ req[r].at = "source" => entry[req[r].name] = NoFile
        /\ req[r].src # NoFile => req[r].from # req[r].name /\ text[req[r].src] = req[r].data
        /\ req[r].at = "write" => entry[req[r].name] = req[r].fd /\ WrittenSoFar(r)
        /\ req[r].at = "publish" => ReadFullFile(req[r].name) = req[r].data

\* A configuration that is not torn has one writer and what that has written, or none
\* and the whole text of a save.
ConfInv(n) ==
    entry[n] \notin torn \cup {NoFile} =>
        /\ \A r, s \in Requests : req[r].fd = entry[n] /\ req[s].fd = entry[n] => r = s
        /\ \A r \in Requests : req[r].fd = entry[n] => WrittenSoFar(r)
        /\ (\A r \in Requests : req[r].fd # entry[n]) => text[entry[n]] \in Contents

\* What is answered for is stored.
StoredInv(n) == expect[n] # Unknown => ReadFullFile(n) = expect[n]

Inv ==
    /\ TypeOK
    /\ ApartInv
    /\ \A r \in Requests : RequestInv(r) /\ AloneInv(r)
    /\ \A n \in Names : StoredInv(n)
    /\ \A n \in Confs : ConfInv(n)
    /\ AnsweredSaveIsAnnounced

-----------------------------------------------------------------------------
\* What service/service.go:53-56 says of the bus: it is no hard dependency, nothing
\* panics for want of it.
BusIsNoHardDependency == \A r \in Requests : req[r].op = "save" => req[r].at # "panic"

=============================================================================
