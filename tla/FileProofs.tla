----------------------------- MODULE FileProofs -----------------------------
(***************************************************************************)
(* The files of an account (module UserFiles) and the file of the login    *)
(* style (module LoginStyle), for any number of requests, names and files. *)
(***************************************************************************)
EXTENDS UserFiles, LoginStyle, SequenceTheorems, TLAPS

-----------------------------------------------------------------------------
(* What the file system does.                                              *)

\* A text with a chunk more is a text.
LEMMA WriteAtEffect ==
    ASSUME NEW t \in Texts, NEW k \in Nat \ {0}, NEW c \in Chunks \cup {Hole}
    PROVE  /\ WriteAt(t, k, c) \in Texts
           /\ Len(t) \in Nat
           /\ Len(WriteAt(t, k, c)) = IF k > Len(t) THEN k ELSE Len(t)
           /\ WriteAt(t, k, c)[k] = c
<1>1. Len(t) \in Nat /\ \A i \in 1..Len(t) : t[i] \in Chunks \cup {Hole}
  BY ElementOfSeq, LenProperties DEF Texts
<1> DEFINE n == IF k > Len(t) THEN k ELSE Len(t)
<1>2. n \in Nat /\ \A i \in 1..n : i <= Len(t) => i \in 1..Len(t)
  BY <1>1
<1>3. k \in 1..n
  BY <1>1
<1>4. WriteAt(t, k, c) \in [1..n -> Chunks \cup {Hole}]
  BY <1>1, <1>2 DEF WriteAt
<1>5. WriteAt(t, k, c) \in Texts
  BY <1>2, <1>4, SeqDef DEF Texts
<1>6. Len(WriteAt(t, k, c)) = n
  BY <1>2, <1>4, <1>5, LenProperties DEF Texts
<1>7. WriteAt(t, k, c)[k] = c
  BY <1>3 DEF WriteAt
<1> QED BY <1>1, <1>5, <1>6, <1>7

\* The chunks beside the one that is written stay what they are.
LEMMA WriteAtKeeps ==
    ASSUME NEW x \in Texts, NEW k \in Nat \ {0}, NEW c \in Chunks \cup {Hole},
           NEW i \in 1..Len(x), i # k
    PROVE  WriteAt(x, k, c)[i] = x[i]
<1>1. Len(x) \in Nat
  BY LenProperties DEF Texts
<1>2. i \in 1..(IF k > Len(x) THEN k ELSE Len(x)) /\ i <= Len(x)
  BY <1>1
<1> QED BY <1>2 DEF WriteAt

\* What can be read has a name, or is the source of a copy.
LEMMA ReadableFiles ==
    /\ \A f : f \in Readable <=> (\E n \in Names : entry[n] = f) \/ \E r \in Requests : req[r].src = f
    /\ \A f : f \in Readable' <=> (\E n \in Names : entry'[n] = f) \/ \E r \in Requests : req'[r].src = f
BY DEF Readable, Named

\* The file a name gets is its own, or one that nothing refers to.
LEMMA FileOfFree ==
    ASSUME TypeOK, NEW n \in Names, Room(n)
    PROVE  /\ FileOf(n) \in Files
           /\ entry[n] # NoFile => FileOf(n) = entry[n]
           /\ entry[n] = NoFile => FileOf(n) \notin InUse
<1>1. CASE entry[n] = NoFile
  <2>1. \E f : f \in Files /\ f \notin InUse
    BY <1>1 DEF Room
  <2>2. FileOf(n) = CHOOSE f \in Files : f \notin InUse
    BY <1>1 DEF FileOf
  <2> QED BY <1>1, <2>1, <2>2
<1>2. CASE entry[n] # NoFile
  BY <1>2 DEF FileOf, TypeOK
<1> QED BY <1>1, <1>2

\* A file that nothing refers to is the file of no name.
LEMMA FreeFile ==
    ASSUME NEW f, f \notin InUse, NEW n \in Names
    PROVE  ~Refers(n, f)
BY DEF InUse, Readable, Named, Refers

\* What the files hold after a call.
LEMMA StoreEffect ==
    ASSUME TypeOK, NEW t \in [Files -> Texts], NEW half, half \subseteq Files, Store(t, half)
    PROVE  /\ text' \in [Files -> Texts]
           /\ \A f \in Files : text'[f] = IF f \in Readable' THEN t[f] ELSE <<>>
           /\ torn' = half \cap Named(Confs)'
           /\ torn' \subseteq Named(Confs)' \cap Files
<1>1. text' = [f \in Files |-> IF f \in Readable' THEN t[f] ELSE <<>>]
      /\ torn' = half \cap Named(Confs)'
  BY DEF Store
<1>2. <<>> \in Texts
  BY EmptySeq DEF Texts
<1> QED BY <1>1, <1>2

-----------------------------------------------------------------------------
(* A step of one request, and what it leaves alone.                        *)

\* The request r makes a call: its name gets or loses a file, and no other file than g,
\* which is its own or nobody's, changes while it can be read.
Moves(r, g) ==
    LET n == req[r].name IN
    /\ Under(r) /\ g \in Files \cup {NoFile}
    /\ g = NoFile \/ Refers(n, g) \/ (\A m \in Names : ~Refers(m, g))
    /\ \A s \in Requests : s # r => req'[s] = req[s] /\ (s \in shared => s \in shared')
    /\ \/ Under(r)' /\ req'[r].name = n /\ req'[r].from = req[r].from /\ (r \in shared => r \in shared')
       \/ req'[r] = Idle
    /\ req'[r].fd \in {req[r].fd, g, NoFile}
    /\ \/ req'[r].src \in {req[r].src, NoFile}
       \/ req[r].from \in Names /\ req'[r].src = entry[req[r].from]
    /\ \A m \in Names : m # n => entry'[m] = entry[m] /\ expect'[m] = expect[m]
    /\ entry'[n] \in {entry[n], g, NoFile}
    /\ r \in shared => expect'[n] = Unknown
    /\ \A f \in Files : f \in Readable' /\ f # g => text'[f] = text[f]
    /\ (torn \ {g}) \cap Named(Confs)' \subseteq torn'
    /\ UNCHANGED names

\* A request that has a file open or as its source refers to it by name.
LEMMA FilesReferred ==
    ASSUME Inv, NEW r \in Requests
    PROVE  /\ req[r] \in Request /\ req[r].name \in Names
           /\ req[r].fd # NoFile => Refers(req[r].name, req[r].fd) /\ req[r].fd \in Files
           /\ req[r].src # NoFile => /\ Refers(req[r].from, req[r].src) /\ req[r].src \in Files
                                     /\ req[r].from \in Names
<1>1. req[r] \in Request /\ RequestInv(r)
  BY DEF Inv, TypeOK
<1>2. /\ req[r].name \in Names /\ req[r].from \in Names \cup {Outside}
      /\ req[r].fd \in Files \cup {NoFile} /\ req[r].src \in Files \cup {NoFile}
  BY <1>1 DEF Request
<1>3. req[r].src # NoFile => req[r].from # Outside
  BY <1>1 DEF RequestInv
<1>4. Refers(req[r].name, req[r].fd) /\ Refers(req[r].from, req[r].src)
  BY DEF Refers
<1>5. req[r].src # NoFile => req[r].from \in Names /\ req[r].src \in Files
  BY <1>2, <1>3
<1>6. req[r].fd # NoFile => req[r].fd \in Files
  BY <1>2
<1> QED BY <1>1, <1>2, <1>4, <1>5, <1>6

\* A request depends on its name, and on the one it copies from.
LEMMA TouchesNames ==
    ASSUME Inv, NEW r \in Requests, Under(r)
    PROVE  /\ req[r].name \in Touches(r) /\ req[r].name \in names /\ names \subseteq Names
           /\ req[r].from # Outside => req[r].from \in Touches(r)
<1>1. req[r].name \in names /\ req[r].name # Outside /\ names \subseteq Names
  BY NamesAssumption DEF Inv, TypeOK, RequestInv, Names
<1> QED BY <1>1 DEF Touches

\* The names of r are the ones it had.
LEMMA MovesTouches ==
    ASSUME NEW r \in Requests, NEW g, Moves(r, g)
    PROVE  Touches(r)' \subseteq Touches(r)
BY DEF Moves, Touches, Under, Idle

\* The step leaves to each name files of its own.
LEMMA MovesApart ==
    ASSUME Inv, TypeOK', NEW r \in Requests, NEW g, Moves(r, g)
    PROVE  ApartInv'
<1> DEFINE n == req[r].name
<1>1. n \in names /\ n \in Names
  BY TouchesNames, FilesReferred DEF Moves
<1>2. ASSUME NEW m \in Names, NEW f \in Files, Refers(m, f)'
      PROVE  Refers(m, f) \/ (m = n /\ f = g)
  <2>1. CASE entry'[m] = f
    BY <2>1, <1>1, NoFileAssumption DEF Moves, Refers
  <2>2. ASSUME NEW s \in Requests, s # r,
               \/ req'[s].name = m /\ req'[s].fd = f
               \/ req'[s].from = m /\ req'[s].src = f
        PROVE  Refers(m, f)
    BY <2>2 DEF Moves, Refers
  <2>3. CASE req'[r].name = m /\ req'[r].fd = f
    BY <2>3, NoFileAssumption DEF Moves, Refers, Idle
  <2>4. CASE req'[r].from = m /\ req'[r].src = f
    BY <2>4, NoFileAssumption DEF Moves, Refers, Idle
  <2> QED BY <1>2, <2>1, <2>2, <2>3, <2>4 DEF Refers
<1>3. ASSUME NEW f \in Files, NEW m \in Names, NEW k \in Names, Refers(m, f)', Refers(k, f)'
      PROVE  m = k
  <2>1. \A p, q \in Names : Refers(p, f) /\ Refers(q, f) => p = q
    BY DEF Inv, ApartInv
  <2>2. f = g => Refers(n, f) \/ \A p \in Names : ~Refers(p, f)
    BY NoFileAssumption DEF Moves
  <2> QED BY <1>1, <1>2, <1>3, <2>1, <2>2
<1>4. \A m \in Names : m \notin names' => entry'[m] = NoFile /\ expect'[m] = <<>>
  BY <1>1 DEF Inv, ApartInv, Moves
<1> QED BY <1>3, <1>4 DEF ApartInv

\* A file that another name refers to keeps its text.
LEMMA MovesText ==
    ASSUME Inv, NEW r \in Requests, NEW g, Moves(r, g),
           NEW m \in Names, m # req[r].name, NEW f \in Files, Refers(m, f), f \in Readable'
    PROVE  f # g /\ text'[f] = text[f]
<1> DEFINE n == req[r].name
<1>1. n \in Names /\ f # NoFile
  BY FilesReferred, NoFileAssumption
<1>2. ~Refers(n, f)
  BY <1>1 DEF Inv, ApartInv
<1>3. g = NoFile \/ Refers(n, g) \/ (\A k \in Names : ~Refers(k, g))
  BY DEF Moves
<1>4. f # g
  BY <1>1, <1>2, <1>3
<1> QED BY <1>4 DEF Moves

\* What the other requests hold stays right.
LEMMA MovesOthers ==
    ASSUME Inv, NEW r \in Requests, NEW g, Moves(r, g), NEW s \in Requests, s # r
    PROVE  RequestInv(s)' /\ AloneInv(s)'
<1> DEFINE n == req[r].name
<1>0. Under(r) /\ req'[s] = req[s] /\ n \in Touches(r)
  BY TouchesNames DEF Moves
<1>1. RequestInv(s)'
  <2>1. ASSUME Under(s) PROVE expect'[req[s].name] = Unknown
    <3>1. req[s].name \in Names /\ req[s].name \in Touches(s) /\ expect[req[s].name] = Unknown
      BY <2>1, FilesReferred, TouchesNames DEF Inv, RequestInv
    <3>2. CASE req[s].name # n
      BY <3>1, <3>2 DEF Moves
    <3>3. CASE req[s].name = n
      <4>1. r \in shared
        BY <1>0, <3>1, <3>3 DEF Inv, AloneInv
      <4> QED BY <3>3, <4>1 DEF Moves
    <3> QED BY <3>2, <3>3
  <2>2. names' = names
    BY DEF Moves
  <2>3. RequestInv(s)
    BY DEF Inv
  <2> QED BY <1>0, <2>1, <2>2, <2>3 DEF RequestInv, Under
<1>2. AloneInv(s)'
  <2> SUFFICES ASSUME Under(s), s \notin shared'
               PROVE  /\ \A q \in Requests : q # s => Touches(q)' \cap Touches(s)' = {}
                      /\ req[s].at = "source" => entry'[req[s].name] = NoFile
                      /\ req[s].src # NoFile => /\ req[s].from # req[s].name
                                                /\ text'[req[s].src] = req[s].data
                      /\ req[s].at = "write" => entry'[req[s].name] = req[s].fd /\ WrittenSoFar(s)'
                      /\ req[s].at = "publish" => ReadFullFile(req[s].name)' = req[s].data
    BY <1>0 DEF AloneInv, Under, ReadFullFile
  <2>1. s \notin shared
    BY DEF Moves
  <2>2. /\ \A q \in Requests : q # s => Touches(q) \cap Touches(s) = {}
        /\ req[s].at = "source" => entry[req[s].name] = NoFile
        /\ req[s].src # NoFile => /\ req[s].from # req[s].name
                                  /\ text[req[s].src] = req[s].data
        /\ req[s].at = "write" => entry[req[s].name] = req[s].fd /\ WrittenSoFar(s)
        /\ req[s].at = "publish" => ReadFullFile(req[s].name) = req[s].data
    BY <2>1 DEF Inv, AloneInv
  <2>3. \A q \in Requests : q # s => Touches(q)' \cap Touches(s)' = {}
    <3>1. Touches(s)' = Touches(s)
      BY <1>0 DEF Touches, Under
    <3>2. \A q \in Requests : q # r => Touches(q)' = Touches(q)
      BY DEF Touches, Under, Moves
    <3> QED BY <2>2, <3>1, <3>2, MovesTouches
  <2>4. req[s].name \in Names /\ req[s].name # n /\ (req[s].from # Outside => req[s].from # n)
    BY <1>0, <2>2, FilesReferred, TouchesNames
  <2>5. entry'[req[s].name] = entry[req[s].name]
    BY <2>4 DEF Moves
  <2>6. ASSUME req[s].src # NoFile PROVE text'[req[s].src] = text[req[s].src]
    <3>1. req[s].from # Outside /\ req[s].from \in Names
      BY <2>6, FilesReferred DEF Inv, RequestInv
    <3>2. req[s].src \in Readable'
      BY <1>0, ReadableFiles
    <3> QED BY <2>4, <2>6, <3>1, <3>2, FilesReferred, MovesText
  <2>7. ASSUME entry[req[s].name] # NoFile PROVE text'[entry[req[s].name]] = text[entry[req[s].name]]
    <3>1. entry[req[s].name] \in Files
      BY <2>4, <2>7 DEF Inv, TypeOK
    <3>2. entry[req[s].name] \in Readable'
      BY <2>4, <2>5, ReadableFiles
    <3> QED BY <2>4, <3>1, <3>2, MovesText DEF Refers
  <2>8. req[s].at = "write" => entry'[req[s].name] = req[s].fd /\ WrittenSoFar(s)'
    <3> SUFFICES ASSUME req[s].at = "write"
                 PROVE  entry'[req[s].name] = req[s].fd /\ WrittenSoFar(s)'
      OBVIOUS
    <3>1. req[s].fd # NoFile
      BY DEF Inv, TypeOK
    <3> QED BY <1>0, <2>2, <2>5, <2>7, <3>1 DEF WrittenSoFar
  <2>9. req[s].at = "publish" => ReadFullFile(req[s].name)' = req[s].data
    BY <1>0, <2>2, <2>5, <2>7 DEF ReadFullFile
  <2> QED BY <2>2, <2>3, <2>5, <2>6, <2>8, <2>9
<1> QED BY <1>1, <1>2

\* What is said of the other names stays right.
LEMMA MovesNames ==
    ASSUME Inv, TypeOK', NEW r \in Requests, NEW g, Moves(r, g), NEW m \in Names, m # req[r].name
    PROVE  StoredInv(m)' /\ (m \in Confs => ConfInv(m)')
<1>0. entry'[m] = entry[m] /\ expect'[m] = expect[m]
  BY DEF Moves
<1>1. ASSUME entry[m] # NoFile
      PROVE  entry[m] \in Files /\ entry[m] # g /\ text'[entry[m]] = text[entry[m]]
  <2>1. entry[m] \in Files /\ entry[m] \in Readable' /\ Refers(m, entry[m])
    BY <1>0, <1>1, ReadableFiles DEF Inv, TypeOK, Refers
  <2> QED BY <2>1, MovesText
<1>2. StoredInv(m)'
  BY <1>0, <1>1 DEF Inv, StoredInv, ReadFullFile
<1>3. ASSUME m \in Confs PROVE ConfInv(m)'
  <2> SUFFICES ASSUME entry[m] \notin torn' \cup {NoFile}
               PROVE  /\ \A p, q \in Requests : req'[p].fd = entry[m] /\ req'[q].fd = entry[m] => p = q
                      /\ \A q \in Requests : req'[q].fd = entry[m] => WrittenSoFar(q)'
                      /\ (\A q \in Requests : req'[q].fd # entry[m]) => text'[entry[m]] \in Contents
    BY <1>0 DEF ConfInv
  <2>1. entry[m] \notin torn
    <3>1. entry[m] \in Named(Confs)'
      BY <1>0, <1>3 DEF Named
    <3> QED BY <1>1, <3>1 DEF Moves
  <2>2. /\ \A p, q \in Requests : req[p].fd = entry[m] /\ req[q].fd = entry[m] => p = q
        /\ \A q \in Requests : req[q].fd = entry[m] => WrittenSoFar(q)
        /\ (\A q \in Requests : req[q].fd # entry[m]) => text[entry[m]] \in Contents
    BY <1>3, <2>1 DEF Inv, ConfInv
  <2>3. req[r].fd # entry[m] /\ req'[r].fd # entry[m]
    <3>1. req[r].fd # entry[m]
      BY <1>1, FilesReferred DEF Inv, ApartInv, Refers
    <3> QED BY <1>1, <3>1 DEF Moves
  <2>4. \A q \in Requests : q # r => req'[q] = req[q]
    BY DEF Moves
  <2> QED BY <1>1, <2>2, <2>3, <2>4 DEF WrittenSoFar
<1> QED BY <1>2, <1>3

\* A request that is still under way is alone if it was.
LEMMA MovesAlone ==
    ASSUME Inv, NEW r \in Requests, NEW g, Moves(r, g), r \notin shared', Under(r)'
    PROVE  r \notin shared /\ \A s \in Requests : s # r => Touches(s)' \cap Touches(r)' = {}
<1>1. r \notin shared /\ Under(r)
  BY DEF Moves, Under, Idle
<1>2. \A s \in Requests : s # r => Touches(s) \cap Touches(r) = {}
  BY <1>1 DEF Inv, AloneInv
<1>3. \A s \in Requests : s # r => Touches(s)' = Touches(s)
  BY DEF Touches, Under, Moves
<1> QED BY <1>1, <1>2, <1>3, MovesTouches

\* A step of a request keeps the invariant if it keeps what is said of the request, of
\* its name, and of the bus.
LEMMA MovesKeep ==
    ASSUME Inv, TypeOK', NEW r \in Requests, NEW g, Moves(r, g), NEW n, n = req[r].name,
           RequestInv(r)', AloneInv(r)', StoredInv(n)', n \in Confs => ConfInv(n)',
           AnsweredSaveIsAnnounced'
    PROVE  Inv'
<1>1. \A s \in Requests : RequestInv(s)' /\ AloneInv(s)'
  BY MovesOthers
<1>2. \A m \in Names : StoredInv(m)' /\ (m \in Confs => ConfInv(m)')
  BY MovesNames
<1>3. Confs \subseteq Names
  BY DEF Names
<1> QED BY <1>1, <1>2, <1>3, MovesApart DEF Inv

-----------------------------------------------------------------------------
(* Types.                                                                  *)

\* What clients save and upload are texts.
LEMMA ContentsType == Contents \subseteq Texts /\ <<>> \in Texts
<1>1. Contents \subseteq Seq(Chunks)
  BY ContentsAssumption
<1>2. \A t \in Seq(Chunks) : t \in Texts
  BY SeqMonotonic DEF Texts
<1> QED BY <1>1, <1>2, EmptySeq DEF Texts

\* A request that is over is a request.
LEMMA IdleType ==
    Idle \in Request /\ Idle.at = "idle" /\ Idle.fd = NoFile /\ Idle.src = NoFile
<1>1. Avatar \in Names
  BY NamesAssumption DEF Names
<1> QED BY <1>1, ContentsType DEF Idle, Request, Stages

\* The requests after a step of r that leaves it as q.
LEMMA RequestMove ==
    ASSUME TypeOK, NEW r \in Requests, NEW q \in Request, req' = [req EXCEPT ![r] = q],
           q.at = "write" <=> q.fd # NoFile,
           \A s \in shared' : s \in shared \/ s = r,
           q.at = "idle" => r \notin shared'
    PROVE  /\ req' \in [Requests -> Request] /\ req'[r] = q
           /\ \A s \in Requests : s # r => req'[s] = req[s]
           /\ \A s \in Requests : req'[s].at = "write" <=> req'[s].fd # NoFile
           /\ shared' \subseteq {s \in Requests : Under(s)'}
BY DEF TypeOK, Under

\* A call that changes what files hold keeps the types.
LEMMA StoreType ==
    ASSUME TypeOK, NEW t \in [Files -> Texts], NEW half, half \subseteq Files, Store(t, half),
           UNCHANGED names, dir' \in BOOLEAN, entry' \in [Names -> Files \cup {NoFile}],
           req' \in [Requests -> Request],
           \A s \in Requests : req'[s].at = "write" <=> req'[s].fd # NoFile,
           shared' \subseteq {s \in Requests : Under(s)'},
           expect' \in [Names -> {Unknown} \cup Texts], heard' \in {Unknown} \cup Texts
    PROVE  TypeOK'
BY StoreEffect DEF TypeOK

\* So does a call that changes none, and ends no copy.
LEMMA StillType ==
    ASSUME TypeOK, UNCHANGED <<names, entry, text, torn>>, dir' \in BOOLEAN,
           req' \in [Requests -> Request],
           \A s \in Requests : req'[s].at = "write" <=> req'[s].fd # NoFile,
           \A s \in Requests : req[s].src \in {NoFile, req'[s].src},
           shared' \subseteq {s \in Requests : Under(s)'},
           expect' \in [Names -> {Unknown} \cup Texts], heard' \in {Unknown} \cup Texts
    PROVE  TypeOK'
<1>1. \A f \in Files : f \in Readable => f \in Readable'
  BY ReadableFiles, NoFileAssumption
<1>2. Named(Confs)' = Named(Confs)
  BY DEF Named
<1> QED BY <1>1, <1>2 DEF TypeOK

-----------------------------------------------------------------------------
(* How requests begin, and what happens beside them.                       *)

\* A request that has nothing open refers to no file.
LEMMA ClosedFiles ==
    ASSUME Inv, NEW r \in Requests, req[r].at \notin {"write", "create"}
    PROVE  req[r].fd = NoFile /\ req[r].src = NoFile
BY DEF Inv, TypeOK, RequestInv

\* A request begins, and marks those it shares a name with.
LEMMA BeginKeeps ==
    ASSUME Inv, NEW r \in Requests, NEW q \in Request, Begin(r, q), dir' \in BOOLEAN,
           UNCHANGED <<names, entry, text, torn, heard>>,
           q.fd = NoFile, q.src = NoFile,
           q.at \in {"touch", "open", "stat", "remove", "create"},
           q.op = "save" <=> q.name \in Confs,
           q.op = "save" <=> q.at \in {"touch", "open"},
           q.op = "save" => q.data \in Contents,
           q.op # "copy" => q.from = Outside
    PROVE  Inv'
<1> DEFINE touched == {q.name, q.from} \ {Outside}
           others  == Sharing(touched)
<1>1. /\ req[r].at = "idle" /\ q.name \in names /\ req' = [req EXCEPT ![r] = q]
      /\ expect' = [expect EXCEPT ![q.name] = Unknown]
      /\ shared' = IF others = {} THEN shared ELSE shared \cup others \cup {r}
  BY DEF Begin
<1>2. /\ q.name \in Names /\ req[r].fd = NoFile /\ req[r].src = NoFile
      /\ req'[r] = q /\ \A s \in Requests : s # r => req'[s] = req[s]
  BY <1>1, ClosedFiles DEF Inv, TypeOK, Request
<1>3. \A s \in others : s \in Requests /\ Under(s)
  BY DEF Sharing, Touches
<1>4. TypeOK'
  <2>1. req' \in [Requests -> Request]
    BY <1>1 DEF Inv, TypeOK
  <2>2. \A s \in Requests : req'[s].at = "write" <=> req'[s].fd # NoFile
    BY <1>2 DEF Inv, TypeOK
  <2>3. \A s \in Requests : Under(s) \/ s = r => Under(s)'
    BY <1>2 DEF Under
  <2>4. shared' \subseteq {s \in Requests : Under(s)'}
    BY <1>1, <1>3, <2>3 DEF Inv, TypeOK
  <2>5. \A s \in Requests : req[s].src \in {NoFile, req'[s].src}
    BY <1>2
  <2>6. expect' \in [Names -> {Unknown} \cup Texts] /\ heard' \in {Unknown} \cup Texts
    BY <1>1, <1>2 DEF Inv, TypeOK
  <2> QED BY <2>1, <2>2, <2>4, <2>5, <2>6, StillType DEF Inv
<1>5. ApartInv'
  <2>1. \A f \in Files, n \in Names : Refers(n, f)' => Refers(n, f)
    BY <1>2, NoFileAssumption DEF Refers
  <2> QED BY <1>1, <2>1 DEF Inv, ApartInv, TypeOK
<1>6. \A s \in Requests : RequestInv(s)'
  <2>1. ASSUME NEW s \in Requests, s # r PROVE RequestInv(s)'
    <3>1. RequestInv(s) /\ req[s].name \in Names
      BY FilesReferred DEF Inv
    <3>2. expect[req[s].name] = Unknown => expect'[req[s].name] = Unknown
      BY <1>1, <3>1 DEF Inv, TypeOK
    <3> QED BY <1>2, <2>1, <3>1, <3>2 DEF RequestInv, Under
  <2>2. expect'[q.name] = Unknown
    BY <1>1, <1>2 DEF Inv, TypeOK
  <2>3. RequestInv(r)'
    BY <1>1, <1>2, <2>2 DEF RequestInv, Under
  <2> QED BY <2>1, <2>3
<1>7. \A s \in Requests : AloneInv(s)'
  <2>0. Touches(r)' = touched /\ \A s \in Requests : s # r => Touches(s)' = Touches(s)
    BY <1>2 DEF Touches, Under
  <2>1. ASSUME NEW s \in Requests, s # r PROVE AloneInv(s)'
    <3> SUFFICES ASSUME Under(s), s \notin shared' PROVE AloneInv(s)'
      BY <1>2, <2>1 DEF AloneInv, Under
    <3>1. s \notin shared /\ s \notin others
      BY <1>1
    <3>2. Touches(s) \cap touched = {}
      BY <3>1 DEF Sharing
    <3>3. \A p \in Requests : p # s => Touches(p)' \cap Touches(s)' = {}
      BY <2>0, <2>1, <3>1, <3>2 DEF Inv, AloneInv
    <3>4. /\ req[s].at = "source" => entry[req[s].name] = NoFile
          /\ req[s].src # NoFile => req[s].from # req[s].name /\ text[req[s].src] = req[s].data
          /\ req[s].at = "write" => entry[req[s].name] = req[s].fd /\ WrittenSoFar(s)
          /\ req[s].at = "publish" => ReadFullFile(req[s].name) = req[s].data
      BY <3>1 DEF Inv, AloneInv
    <3> QED BY <1>2, <2>1, <3>3, <3>4 DEF AloneInv, WrittenSoFar, ReadFullFile
  <2>2. AloneInv(r)'
    <3> SUFFICES ASSUME r \notin shared' PROVE AloneInv(r)'
      BY DEF AloneInv
    <3>1. \A s \in Requests : Touches(s) \cap touched = {}
      BY <1>1 DEF Sharing
    <3> QED BY <1>2, <2>0, <3>1 DEF AloneInv
  <2> QED BY <2>1, <2>2
<1>8. \A n \in Names : StoredInv(n)'
  BY <1>1, <1>2 DEF Inv, StoredInv, ReadFullFile, TypeOK
<1>9. ASSUME NEW n \in Confs PROVE ConfInv(n)'
  <2> SUFFICES ASSUME entry[n] \notin torn \cup {NoFile} PROVE ConfInv(n)'
    BY DEF ConfInv
  <2>1. \A s \in Requests : req'[s].fd = req[s].fd /\ (req[s].fd # NoFile => req'[s] = req[s])
    BY <1>2
  <2>2. ConfInv(n)
    BY DEF Inv
  <2> QED BY <2>1, <2>2 DEF ConfInv, WrittenSoFar
<1>10. AnsweredSaveIsAnnounced'
  <2>1. expect'[System] = expect[System] \/ expect'[System] = Unknown
    BY <1>1, NamesAssumption DEF Inv, TypeOK, Names
  <2> QED BY <2>1 DEF Inv, AnsweredSaveIsAnnounced
<1> QED BY <1>4, <1>5, <1>6, <1>7, <1>8, <1>9, <1>10 DEF Inv

\* POST /v1/users/current/custom/:key keeps the invariant.
LEMMA PostUserCustomConfKeeps ==
    ASSUME Inv, NEW r \in Requests, PostUserCustomConf(r), UNCHANGED names
    PROVE  Inv'
<1>1. PICK n \in Confs, d \in Contents :
        Begin(r, [Idle EXCEPT !.at = IF entry[n] = NoFile THEN "touch" ELSE "open",
                              !.op = "save", !.name = n, !.data = d])
  BY DEF PostUserCustomConf
<1> DEFINE q == [Idle EXCEPT !.at = IF entry[n] = NoFile THEN "touch" ELSE "open",
                             !.op = "save", !.name = n, !.data = d]
<1>2. /\ q.at \in {"touch", "open"} /\ q.op = "save" /\ q.name = n /\ q.data = d
      /\ q.from = Outside /\ q.fd = NoFile /\ q.src = NoFile /\ q.pos = 0
  BY DEF Idle
<1>3. q \in Request
  BY ContentsType DEF Idle, Request, Stages, Names
<1>4. UNCHANGED <<entry, text, torn, heard>> /\ dir' \in BOOLEAN
  BY DEF PostUserCustomConf, IsNotExistMkDir
<1> HIDE DEF q
<1>5. Begin(r, q)
  BY <1>1 DEF q
<1> QED BY <1>2, <1>3, <1>4, <1>5, BeginKeeps

\* PUT /v1/users/current/image/:key keeps the invariant.
LEMMA PutUserImageKeeps ==
    ASSUME Inv, NEW r \in Requests, PutUserImage(r), UNCHANGED names
    PROVE  Inv'
<1>1. PICK n \in Images, from \in Images \cup {Outside} :
        Begin(r, [Idle EXCEPT !.at = "stat", !.op = "copy", !.name = n, !.from = from])
  BY DEF PutUserImage
<1> DEFINE q == [Idle EXCEPT !.at = "stat", !.op = "copy", !.name = n, !.from = from]
<1>2. /\ q.at = "stat" /\ q.op = "copy" /\ q.name = n /\ q.data = <<>>
      /\ q.from = from /\ q.fd = NoFile /\ q.src = NoFile /\ q.pos = 0
  BY DEF Idle
<1>3. q \in Request
  BY ContentsType DEF Idle, Request, Stages, Names
<1>4. UNCHANGED <<entry, text, torn, heard>> /\ dir' \in BOOLEAN
  BY DEF PutUserImage, Inv, TypeOK
<1> HIDE DEF q
<1>5. Begin(r, q)
  BY <1>1 DEF q
<1> QED BY <1>2, <1>3, <1>4, <1>5, BeginKeeps, NamesAssumption

\* POST /v1/users/current/image/:key keeps the invariant.
LEMMA PostUserUploadImageKeeps ==
    ASSUME Inv, NEW r \in Requests, PostUserUploadImage(r), UNCHANGED names
    PROVE  Inv'
<1>1. PICK n \in Images, d \in Contents : SaveUploadedFile(r, n, d)
  BY DEF PostUserUploadImage
<1> DEFINE q == [Idle EXCEPT !.at = "create", !.op = "put", !.name = n, !.data = d]
<1>2. /\ q.at = "create" /\ q.op = "put" /\ q.name = n /\ q.data = d
      /\ q.from = Outside /\ q.fd = NoFile /\ q.src = NoFile /\ q.pos = 0
  BY DEF Idle
<1>3. q \in Request
  BY ContentsType DEF Idle, Request, Stages, Names
<1>4. UNCHANGED <<entry, text, torn, heard>> /\ dir' \in BOOLEAN
  BY <1>1 DEF SaveUploadedFile
<1> HIDE DEF q
<1>5. Begin(r, q)
  BY <1>1 DEF q, SaveUploadedFile
<1> QED BY <1>2, <1>3, <1>4, <1>5, BeginKeeps, NamesAssumption

\* PUT /v1/users/avatar keeps the invariant.
LEMMA PutUserAvatarKeeps ==
    ASSUME Inv, NEW r \in Requests, PutUserAvatar(r), UNCHANGED names
    PROVE  Inv'
<1>1. PICK d \in Contents :
        Begin(r, [Idle EXCEPT !.at = "remove", !.op = "put", !.name = Avatar, !.data = d])
  BY DEF PutUserAvatar
<1> DEFINE q == [Idle EXCEPT !.at = "remove", !.op = "put", !.name = Avatar, !.data = d]
<1>2. /\ q.at = "remove" /\ q.op = "put" /\ q.name = Avatar /\ q.data = d
      /\ q.from = Outside /\ q.fd = NoFile /\ q.src = NoFile /\ q.pos = 0
  BY DEF Idle
<1>3. q \in Request
  BY ContentsType, NamesAssumption DEF Idle, Request, Stages, Names
<1>4. UNCHANGED <<entry, text, torn, heard>> /\ dir' \in BOOLEAN
  BY DEF PutUserAvatar, Inv, TypeOK
<1> HIDE DEF q
<1>5. Begin(r, q)
  BY <1>1 DEF q
<1> QED BY <1>2, <1>3, <1>4, <1>5, BeginKeeps, NamesAssumption

\* A file is deleted, which what each request holds survives.
LEMMA RemovedKeeps ==
    ASSUME Inv, NEW n \in Names, Removed(n), UNCHANGED names
    PROVE  Inv'
<1> DEFINE others == Sharing({n})
<1>1. /\ n \in names /\ entry[n] # NoFile /\ entry' = [entry EXCEPT ![n] = NoFile]
      /\ shared' = shared \cup others
      /\ expect' = [expect EXCEPT ![n] = IF others = {} THEN <<>> ELSE Unknown]
      /\ UNCHANGED <<dir, req, heard>> /\ Store(text, torn)
  BY DEF Removed
<1>2. /\ entry'[n] = NoFile /\ \A m \in Names : m # n => entry'[m] = entry[m] /\ expect'[m] = expect[m]
      /\ expect'[n] = IF others = {} THEN <<>> ELSE Unknown
      /\ text \in [Files -> Texts] /\ torn \subseteq Files
  BY <1>1 DEF Inv, TypeOK
<1>3. \A s \in others : s \in Requests /\ Under(s)
  BY DEF Sharing, Touches
<1>4. TypeOK'
  <2>1. entry' \in [Names -> Files \cup {NoFile}] /\ dir' \in BOOLEAN
    BY <1>1 DEF Inv, TypeOK
  <2>2. /\ req' \in [Requests -> Request]
        /\ \A s \in Requests : req'[s].at = "write" <=> req'[s].fd # NoFile
        /\ shared' \subseteq {s \in Requests : Under(s)'}
    BY <1>1, <1>3 DEF Inv, TypeOK, Under
  <2>3. expect' \in [Names -> {Unknown} \cup Texts] /\ heard' \in {Unknown} \cup Texts
    BY <1>1, ContentsType DEF Inv, TypeOK
  <2> QED BY <1>1, <1>2, <2>1, <2>2, <2>3, StoreType DEF Inv
<1>5. ApartInv'
  <2>1. \A f \in Files, m \in Names : Refers(m, f)' => Refers(m, f)
    BY <1>1, <1>2, NoFileAssumption DEF Refers
  <2>2. \A m \in Names \ names' : entry'[m] = NoFile /\ expect'[m] = <<>>
    BY <1>1, <1>2 DEF Inv, ApartInv
  <2> QED BY <2>1, <2>2 DEF Inv, ApartInv
<1>6. \A f \in Files : f \in Readable' => text'[f] = text[f]
  BY <1>1, <1>2, StoreEffect DEF Inv
<1>7. \A m \in Names : m # n => ReadFullFile(m)' = ReadFullFile(m)
  <2> SUFFICES ASSUME NEW m \in Names, m # n, entry[m] # NoFile
               PROVE  text'[entry[m]] = text[entry[m]]
    BY <1>2 DEF ReadFullFile
  <2>1. entry[m] \in Files /\ entry[m] \in Readable'
    BY <1>2, ReadableFiles DEF Inv, TypeOK
  <2> QED BY <1>6, <2>1
<1>8. \A s \in Requests : RequestInv(s)'
  <2> TAKE s \in Requests
  <2>1. RequestInv(s)
    BY DEF Inv
  <2>2. ASSUME Under(s) PROVE expect'[req[s].name] = Unknown
    <3>1. req[s].name \in Names /\ req[s].name \in Touches(s)
      BY <2>2, FilesReferred, TouchesNames
    <3>2. req[s].name = n => others # {}
      BY <3>1 DEF Sharing
    <3> QED BY <1>2, <2>1, <2>2, <3>1, <3>2 DEF RequestInv
  <2> QED BY <1>1, <2>1, <2>2 DEF RequestInv, Under
<1>9. \A s \in Requests : AloneInv(s)'
  <2> TAKE s \in Requests
  <2> SUFFICES ASSUME Under(s), s \notin shared' PROVE AloneInv(s)'
    BY <1>1 DEF AloneInv, Under
  <2>1. s \notin shared /\ n \notin Touches(s)
    BY <1>1 DEF Sharing
  <2>2. AloneInv(s)
    BY DEF Inv
  <2>3. req[s].name \in Names /\ req[s].name # n
    BY <2>1, FilesReferred, TouchesNames
  <2>4. \A p \in Requests : Touches(p)' = Touches(p)
    BY <1>1 DEF Touches, Under
  <2>5. entry'[req[s].name] = entry[req[s].name]
    BY <1>2, <2>3
  <2>6. ASSUME req[s].src # NoFile PROVE text'[req[s].src] = text[req[s].src]
    BY <1>1, <1>6, <2>6, FilesReferred, ReadableFiles
  <2>7. ASSUME req[s].at = "write", entry[req[s].name] = req[s].fd
        PROVE  WrittenSoFar(s)' <=> WrittenSoFar(s)
    <3>1. req[s].fd \in Files /\ req[s].fd \in Readable'
      BY <2>3, <2>5, <2>7, FilesReferred, ReadableFiles DEF Inv, TypeOK
    <3> QED BY <1>1, <1>6, <3>1 DEF WrittenSoFar
  <2>8. ReadFullFile(req[s].name)' = ReadFullFile(req[s].name)
    BY <1>1, <1>7, <2>3 DEF ReadFullFile
  <2> QED BY <1>1, <2>1, <2>2, <2>4, <2>5, <2>6, <2>7, <2>8 DEF AloneInv, ReadFullFile, Under
<1>10. \A m \in Names : StoredInv(m)'
  BY <1>2, <1>7 DEF Inv, StoredInv, ReadFullFile
<1>11. ASSUME NEW m \in Confs PROVE ConfInv(m)'
  <2> SUFFICES ASSUME entry'[m] \notin torn' \cup {NoFile} PROVE ConfInv(m)'
    BY DEF ConfInv
  <2>1. m \in Names /\ m # n /\ entry'[m] = entry[m] /\ entry[m] \in Files /\ entry[m] \in Named(Confs)'
    BY <1>2, <1>11 DEF Names, Named, Inv, TypeOK
  <2>2. entry[m] \notin torn \cup {NoFile} /\ text'[entry[m]] = text[entry[m]]
    BY <1>1, <1>2, <1>6, <2>1, StoreEffect, ReadableFiles DEF Inv
  <2>3. ConfInv(m)
    BY DEF Inv
  <2> QED BY <1>1, <2>1, <2>2, <2>3 DEF ConfInv, WrittenSoFar
<1>12. AnsweredSaveIsAnnounced'
  <2>1. expect'[System] \in {expect[System], Unknown, <<>>}
    BY <1>2, NamesAssumption DEF Names
  <2> QED BY <1>1, <2>1 DEF Inv, AnsweredSaveIsAnnounced
<1> QED BY <1>4, <1>5, <1>8, <1>9, <1>10, <1>11, <1>12 DEF Inv

\* DELETE /v1/users/current/custom/:key and DELETE /v1/users/current/image keep the
\* invariant.
LEMMA DeletionsKeep ==
    ASSUME Inv, NEW n \in Names, DeleteUserCustomConf(n) \/ DeleteUserImage(n), UNCHANGED names
    PROVE  Inv'
<1>1. CASE Removed(n)
  BY <1>1, RemovedKeeps
<1>2. CASE ~Removed(n)
  <2>1. /\ n \in Images /\ expect' = [expect EXCEPT ![n] = Unknown]
        /\ UNCHANGED <<dir, entry, text, req, shared, torn, heard>>
    BY <1>2 DEF DeleteUserCustomConf, DeleteUserImage
  <2>2. /\ expect' \in [Names -> {Unknown} \cup Texts]
        /\ \A m \in Names : expect'[m] \in {expect[m], Unknown}
        /\ expect'[System] = expect[System] /\ n \in names
    BY <1>2, <2>1, NamesAssumption DEF Inv, TypeOK, Names, DeleteUserCustomConf, DeleteUserImage
  <2>3. TypeOK'
    BY <2>1, <2>2, StillType DEF Inv, TypeOK, Under
  <2>4. ApartInv'
    BY <2>1, <2>2 DEF Inv, ApartInv, Refers
  <2>5. \A s \in Requests : RequestInv(s)' /\ AloneInv(s)'
    <3> TAKE s \in Requests
    <3>1. RequestInv(s) /\ AloneInv(s) /\ req[s].name \in Names
      BY FilesReferred DEF Inv
    <3>2. RequestInv(s)'
      BY <2>1, <2>2, <3>1 DEF RequestInv, Under
    <3>3. AloneInv(s)'
      BY <2>1, <3>1 DEF AloneInv, Under, Touches, WrittenSoFar, ReadFullFile
    <3> QED BY <3>2, <3>3
  <2>6. \A m \in Names : StoredInv(m)'
    BY <2>1, <2>2 DEF Inv, StoredInv, ReadFullFile
  <2>7. \A m \in Confs : ConfInv(m)'
    BY <2>1 DEF Inv, ConfInv, WrittenSoFar
  <2>8. AnsweredSaveIsAnnounced'
    BY <2>1, <2>2 DEF Inv, AnsweredSaveIsAnnounced
  <2> QED BY <2>3, <2>4, <2>5, <2>6, <2>7, <2>8 DEF Inv
<1> QED BY <1>1, <1>2

\* The service ends in the middle of requests, and what they left torn is known as such.
LEMMA RestartKeeps ==
    ASSUME Inv, Restart, UNCHANGED names
    PROVE  Inv'
<1> DEFINE half == torn \cup {req[r].fd : r \in {s \in Requests : req[s].at = "write"}}
<1>1. /\ req' = [r \in Requests |-> Idle] /\ shared' = {}
      /\ UNCHANGED <<dir, entry, expect, heard>> /\ Store(text, half)
  BY DEF Restart
<1>2. /\ \A r \in Requests : req'[r] = Idle /\ ~Under(r)'
      /\ \A r \in Requests : req[r].fd # NoFile => req[r].fd \in half /\ req[r].fd \in Files
      /\ half \subseteq Files /\ text \in [Files -> Texts]
  <2>1. \A r \in Requests : req'[r] = Idle
    BY <1>1
  <2>2. \A r \in Requests : req[r].at = "write" <=> req[r].fd # NoFile
    BY DEF Inv, TypeOK
  <2>3. \A r \in Requests : req[r].fd # NoFile => req[r].fd \in Files
    BY FilesReferred
  <2>4. torn \subseteq Files /\ text \in [Files -> Texts]
    BY DEF Inv, TypeOK
  <2> QED BY <2>1, <2>2, <2>3, <2>4, IdleType DEF Under
<1>3. TypeOK'
  <2>1. /\ req' \in [Requests -> Request]
        /\ \A s \in Requests : req'[s].at = "write" <=> req'[s].fd # NoFile
    BY <1>1, <1>2, IdleType
  <2> QED BY <1>1, <1>2, <2>1, StoreType DEF Inv, TypeOK
<1>4. ApartInv'
  <2>1. \A f \in Files, m \in Names : Refers(m, f)' => Refers(m, f)
    BY <1>1, <1>2, NoFileAssumption, IdleType DEF Refers
  <2> QED BY <1>1, <2>1 DEF Inv, ApartInv
<1>5. \A f \in Files : f \in Readable' => text'[f] = text[f]
  BY <1>1, <1>2, StoreEffect DEF Inv
<1>6. \A r \in Requests : RequestInv(r)' /\ AloneInv(r)'
  BY <1>2, IdleType DEF RequestInv, AloneInv, Under
<1>7. \A m \in Names : StoredInv(m)'
  <2> TAKE m \in Names
  <2>1. entry[m] # NoFile => text'[entry[m]] = text[entry[m]]
    BY <1>1, <1>5, ReadableFiles DEF Inv, TypeOK
  <2> QED BY <1>1, <2>1 DEF Inv, StoredInv, ReadFullFile
<1>8. ASSUME NEW m \in Confs PROVE ConfInv(m)'
  <2> SUFFICES ASSUME entry[m] \notin torn' \cup {NoFile} PROVE ConfInv(m)'
    BY <1>1 DEF ConfInv
  <2>1. m \in Names /\ entry[m] \in Files /\ entry[m] \in Named(Confs)'
    BY <1>1, <1>8 DEF Names, Named, Inv, TypeOK
  <2>2. entry[m] \notin half /\ text'[entry[m]] = text[entry[m]]
    BY <1>1, <1>2, <1>5, <2>1, StoreEffect, ReadableFiles DEF Inv
  <2>3. \A r \in Requests : req[r].fd # entry[m]
    BY <1>2, <2>1, <2>2, NoFileAssumption
  <2>4. text[entry[m]] \in Contents
    BY <2>2, <2>3 DEF Inv, ConfInv
  <2> QED BY <1>1, <1>2, <2>1, <2>2, <2>4, NoFileAssumption, IdleType DEF ConfInv
<1>9. AnsweredSaveIsAnnounced'
  BY <1>1 DEF Inv, AnsweredSaveIsAnnounced
<1> QED BY <1>3, <1>4, <1>6, <1>7, <1>8, <1>9 DEF Inv

-----------------------------------------------------------------------------
(* The calls that open and close nothing, and the ends of requests.        *)

\* What the bus was told of stays right while it is told of nothing.
LEMMA AnsweredKept ==
    ASSUME Inv, heard' = heard, expect'[System] \in {expect[System], Unknown}
    PROVE  AnsweredSaveIsAnnounced'
BY DEF Inv, AnsweredSaveIsAnnounced

\* A request goes on to its next call, the files staying what they are.
LEMMA GotoKeeps ==
    ASSUME Inv, NEW r \in Requests, NEW n, n = req[r].name, Under(r),
           req[r].at \notin {"write", "create"},
           NEW at \in {"open", "panic", "remove"}, Goto(r, at),
           at # "panic" => (req[r].op = "save" <=> at = "open"),
           UNCHANGED <<names, dir, entry, text, torn>>,
           heard' \in {Unknown} \cup Texts, AnsweredSaveIsAnnounced'
    PROVE  Inv'
<1> DEFINE q == [req[r] EXCEPT !.at = at]
<1>1. /\ req[r] \in Request /\ n \in Names /\ req[r].fd = NoFile /\ req[r].src = NoFile
      /\ req' = [req EXCEPT ![r] = q] /\ UNCHANGED <<expect, shared>>
  BY FilesReferred, ClosedFiles DEF Goto
<1>2. /\ q \in Request /\ q.at = at /\ q.op = req[r].op /\ q.name = n /\ q.from = req[r].from
      /\ q.data = req[r].data /\ q.fd = NoFile /\ q.src = NoFile
  BY <1>1 DEF Request, Stages
<1> HIDE DEF q
<1>3. /\ req' \in [Requests -> Request] /\ req'[r] = q
      /\ \A s \in Requests : s # r => req'[s] = req[s]
      /\ \A s \in Requests : req'[s].at = "write" <=> req'[s].fd # NoFile
      /\ shared' \subseteq {s \in Requests : Under(s)'}
  BY <1>1, <1>2, RequestMove DEF Inv
<1>4. TypeOK'
  BY <1>1, <1>2, <1>3, StillType DEF Inv, TypeOK
<1>5. Moves(r, NoFile)
  BY <1>1, <1>2, <1>3 DEF Moves, Under, Inv, RequestInv
<1>6. RequestInv(r)'
  BY <1>1, <1>2, <1>3 DEF Inv, RequestInv, Under
<1>7. AloneInv(r)'
  BY <1>1, <1>2, <1>3, <1>5, MovesAlone DEF AloneInv
<1>8. StoredInv(n)'
  BY <1>1, <1>2, <1>3 DEF Inv, StoredInv, ReadFullFile
<1>9. ASSUME n \in Confs PROVE ConfInv(n)'
  <2>1. \A s \in Requests : req'[s].fd = req[s].fd /\ (req[s].fd # NoFile => req'[s] = req[s])
    BY <1>1, <1>2, <1>3
  <2>2. ConfInv(n)
    BY <1>9 DEF Inv
  <2> QED BY <2>1, <2>2, <1>1, <1>2, <1>3 DEF ConfInv, WrittenSoFar
<1> QED BY <1>4, <1>5, <1>6, <1>7, <1>8, <1>9, MovesKeep

\* A request ends: what its name holds is what is said of it.
LEMMA EndKeeps ==
    ASSUME Inv, TypeOK', NEW r \in Requests, Under(r), NEW n, n = req[r].name,
           req' = [req EXCEPT ![r] = Idle], shared' = shared \ {r}, UNCHANGED <<names, entry>>,
           \A m \in Names : m # n => expect'[m] = expect[m],
           r \in shared => expect'[n] = Unknown,
           expect'[n] \in {Unknown, ReadFullFile(n)},
           \A f \in Files : f \in Readable' => text'[f] = text[f],
           torn \cap Named(Confs)' \subseteq torn',
           n \in Confs /\ req[r].fd = entry[n] /\ entry[n] \notin torn' \cup {NoFile}
               => text[entry[n]] \in Contents,
           AnsweredSaveIsAnnounced'
    PROVE  Inv'
<1>1. /\ req'[r] = Idle /\ \A s \in Requests : s # r => req'[s] = req[s]
      /\ n \in Names /\ n \in names
  BY TouchesNames, FilesReferred DEF Inv, TypeOK
<1>2. Moves(r, NoFile)
  BY <1>1, IdleType DEF Moves, Under
<1>3. RequestInv(r)' /\ AloneInv(r)'
  BY <1>1, IdleType DEF RequestInv, AloneInv, Under
<1>4. entry[n] # NoFile => text'[entry[n]] = text[entry[n]] /\ entry[n] \in Files
  BY <1>1, ReadableFiles DEF Inv, TypeOK
<1>5. StoredInv(n)'
  BY <1>4 DEF StoredInv, ReadFullFile
<1>6. ASSUME n \in Confs PROVE ConfInv(n)'
  <2> SUFFICES ASSUME entry[n] \notin torn' \cup {NoFile} PROVE ConfInv(n)'
    BY DEF ConfInv
  <2>1. entry[n] \notin torn
    BY <1>6 DEF Named
  <2>2. ConfInv(n)
    BY <1>6 DEF Inv
  <2>3. CASE req[r].fd = entry[n]
    <3>1. \A s \in Requests : req'[s].fd # entry[n]
      BY <1>1, <2>1, <2>2, <2>3, IdleType DEF ConfInv
    <3> QED BY <1>4, <1>6, <2>3, <3>1 DEF ConfInv
  <2>4. CASE req[r].fd # entry[n]
    <3>1. \A s \in Requests : req'[s].fd = entry[n] <=> req[s].fd = entry[n]
      BY <1>1, <2>4, IdleType
    <3>2. \A s \in Requests : req[s].fd = entry[n] => req'[s] = req[s]
      BY <1>1, <2>4
    <3> QED BY <1>4, <2>1, <2>2, <3>1, <3>2 DEF ConfInv, WrittenSoFar
  <2> QED BY <2>3, <2>4
<1> QED BY <1>2, <1>3, <1>5, <1>6, MovesKeep

\* A request that ends is over, and refers to no file.
LEMMA EndType ==
    ASSUME Inv, NEW r \in Requests, req' = [req EXCEPT ![r] = Idle], shared' = shared \ {r}
    PROVE  /\ req' \in [Requests -> Request]
           /\ \A s \in Requests : req'[s].at = "write" <=> req'[s].fd # NoFile
           /\ shared' \subseteq {s \in Requests : Under(s)'}
           /\ \A s \in Requests : req[s].src # NoFile /\ s # r => req'[s] = req[s]
BY IdleType, RequestMove DEF Inv

\* A request that ends with an error claims nothing.
LEMMA ReturnKeeps ==
    ASSUME Inv, NEW r \in Requests, Under(r), Return(r), UNCHANGED <<names, dir, entry, heard>>,
           \/ UNCHANGED <<text, torn>> /\ req[r].at \notin {"write", "create"}
           \/ CutOff(r) /\ req[r].at = "write"
    PROVE  Inv'
<1> DEFINE n == req[r].name
<1>1. /\ req' = [req EXCEPT ![r] = Idle] /\ shared' = shared \ {r} /\ expect' = expect
      /\ expect[n] = Unknown /\ n \in Names
  BY FilesReferred DEF Return, Inv, RequestInv
<1>2. AnsweredSaveIsAnnounced'
  BY <1>1, AnsweredKept
<1>3. CASE UNCHANGED <<text, torn>> /\ req[r].at \notin {"write", "create"}
  <2>1. req[r].src = NoFile /\ req[r].fd = NoFile
    BY <1>3, ClosedFiles
  <2>2. TypeOK'
    BY <1>1, <1>3, <2>1, EndType, StillType DEF Inv, TypeOK
  <2> QED BY <1>1, <1>2, <1>3, <2>1, <2>2, EndKeeps
<1>4. CASE CutOff(r) /\ req[r].at = "write"
  <2> DEFINE half == torn \cup {req[r].fd}
  <2>1. Store(text, half) /\ half \subseteq Files /\ text \in [Files -> Texts]
    BY <1>4, FilesReferred DEF CutOff, Inv, TypeOK
  <2>2. TypeOK'
    BY <1>1, <2>1, EndType, StoreType DEF Inv, TypeOK
  <2>3. /\ \A f \in Files : f \in Readable' => text'[f] = text[f]
        /\ torn' = half \cap Named(Confs)'
    BY <2>1, StoreEffect DEF Inv
  <2>4. n \in Confs => entry[n] \in Named(Confs)'
    BY DEF Named
  <2> QED BY <1>1, <1>2, <2>2, <2>3, <2>4, EndKeeps
<1> QED BY <1>3, <1>4

\* A request answers success: for what its name holds, or for nothing.
LEMMA AnswerKeeps ==
    ASSUME Inv, NEW r \in Requests, Under(r), NEW done \in BOOLEAN, Answer(r, done),
           UNCHANGED <<names, dir, entry>>,
           done /\ r \notin shared => ReadFullFile(req[r].name) = req[r].data,
           \/ UNCHANGED <<text, torn>> /\ req[r].at \notin {"write", "create"}
           \/ Store(text, torn)
           \/ CutOff(r) /\ req[r].at = "write",
           req[r].name \in Confs /\ req[r].fd = entry[req[r].name]
               /\ req[r].fd \notin torn \cup {NoFile} => text[req[r].fd] \in Contents,
           heard' \in {Unknown} \cup Texts, AnsweredSaveIsAnnounced'
    PROVE  Inv'
<1> DEFINE n == req[r].name
<1>1. /\ req' = [req EXCEPT ![r] = Idle] /\ shared' = shared \ {r}
      /\ n \in Names /\ req[r].data \in Texts
      /\ expect' = [expect EXCEPT ![n] = IF r \notin shared /\ done THEN req[r].data ELSE Unknown]
  BY FilesReferred DEF Answer, Request
<1>2. /\ expect' \in [Names -> {Unknown} \cup Texts]
      /\ \A m \in Names : m # n => expect'[m] = expect[m]
      /\ r \in shared => expect'[n] = Unknown
      /\ expect'[n] \in {Unknown, ReadFullFile(n)}
  BY <1>1 DEF Inv, TypeOK
<1>3. CASE UNCHANGED <<text, torn>> /\ req[r].at \notin {"write", "create"}
  <2>1. req[r].src = NoFile /\ req[r].fd = NoFile
    BY <1>3, ClosedFiles
  <2>2. TypeOK'
    BY <1>1, <1>2, <1>3, <2>1, EndType, StillType DEF Inv, TypeOK
  <2> QED BY <1>1, <1>2, <1>3, <2>1, <2>2, EndKeeps
<1>4. ASSUME NEW half, half \subseteq Files, torn \subseteq half, Store(text, half)
      PROVE  Inv'
  <2>1. text \in [Files -> Texts]
    BY DEF Inv, TypeOK
  <2>2. TypeOK'
    BY <1>1, <1>2, <1>4, <2>1, EndType, StoreType DEF Inv, TypeOK
  <2>3. /\ \A f \in Files : f \in Readable' => text'[f] = text[f]
        /\ torn' = half \cap Named(Confs)'
    BY <1>4, <2>1, StoreEffect DEF Inv
  <2>4. ASSUME n \in Confs, req[r].fd = entry[n], entry[n] \notin torn' \cup {NoFile}
        PROVE  text[entry[n]] \in Contents
    BY <1>4, <2>3, <2>4 DEF Named
  <2> QED BY <1>1, <1>2, <1>4, <2>2, <2>3, <2>4, EndKeeps
<1>5. torn \subseteq Files /\ (req[r].at = "write" => req[r].fd \in Files)
  BY FilesReferred DEF Inv, TypeOK
<1> QED BY <1>3, <1>4, <1>5 DEF CutOff

\* Where a request stands tells what kind of request it is.
LEMMA StageOp ==
    ASSUME Inv, NEW r \in Requests
    PROVE  /\ req[r].at \in {"touch", "open", "publish"} => req[r].op = "save"
           /\ req[r].at \in {"stat", "remove", "source", "create"} => req[r].op # "save"
           /\ req[r].at # "idle" => (req[r].op = "save" <=> req[r].name \in Confs)
           /\ req[r].op # "save" /\ req[r].at # "idle" => req[r].name # System
           /\ req[r].op = "save" /\ req[r].at # "idle" => req[r].data \in Contents /\ req[r].src = NoFile
           /\ req[r].at # "idle" => expect[req[r].name] = Unknown
BY NamesAssumption DEF Inv, RequestInv, Under

\* A request that has written all of its text has a file that holds it.
LEMMA WrittenWhole ==
    ASSUME Inv, NEW r \in Requests, Written(r), WrittenSoFar(r), Source(r) = req[r].data
    PROVE  text[req[r].fd] = req[r].data
<1>1. req[r].fd \in Files /\ req[r] \in Request
  BY FilesReferred DEF Written, Inv, TypeOK
<1>2. text[req[r].fd] \in Texts /\ req[r].data \in Texts /\ req[r].pos \in Nat
  BY <1>1 DEF Inv, TypeOK, Request
<1>3. Len(req[r].data) \in Nat
  BY <1>2, LenProperties DEF Texts
<1>4. Len(text[req[r].fd]) = Len(req[r].data)
      /\ \A i \in 1..Len(text[req[r].fd]) : text[req[r].fd][i] = req[r].data[i]
  BY <1>2, <1>3 DEF Written, WrittenSoFar
<1> QED BY <1>2, <1>4, SeqEqual DEF Texts

\* The steps of a save that end in an error keep the invariant.
LEMMA WriteErrorKeeps ==
    ASSUME Inv, NEW r \in Requests, WriteError(r) \/ Panic(r), UNCHANGED names
    PROVE  Inv'
BY ReturnKeeps DEF WriteError, Panic, Under

\* The call to the bus keeps the invariant: what is answered for is what the bus was
\* told, or it was told nothing.
LEMMA PublishEventKeeps ==
    ASSUME Inv, NEW r \in Requests, PublishEvent(r), UNCHANGED names
    PROVE  Inv'
<1> DEFINE d == req[r].data
<1>1. /\ req[r].at = "publish" /\ req[r].name = System /\ Under(r) /\ req[r].fd = NoFile
      /\ d \in Contents /\ d \in Texts /\ expect[System] = Unknown
      /\ System \in Names
  BY StageOp, ContentsType, ClosedFiles, NamesAssumption DEF PublishEvent, Inv, RequestInv, Under, Names
<1>2. UNCHANGED <<dir, entry, text, torn>>
  BY DEF PublishEvent
<1>3. ASSUME heard' \in {d, Unknown}, NEW json \in BOOLEAN, Answer(r, json)
      PROVE  Inv'
  <2>1. expect'[System] \in {d, Unknown}
    BY <1>1, <1>3 DEF Answer, Inv, TypeOK
  <2>2. AnsweredSaveIsAnnounced'
    BY <1>3, <2>1 DEF AnsweredSaveIsAnnounced
  <2>3. r \notin shared => ReadFullFile(System) = d
    BY <1>1 DEF Inv, AloneInv
  <2> QED BY <1>1, <1>2, <1>3, <2>2, <2>3, AnswerKeeps
<1>4. CASE heard' \in {d, heard} /\ Goto(r, "panic")
  <2>1. AnsweredSaveIsAnnounced'
    BY <1>1, <1>4 DEF Goto, AnsweredSaveIsAnnounced
  <2>2. heard' \in {Unknown} \cup Texts
    BY <1>1, <1>4 DEF Inv, TypeOK
  <2> QED BY <1>1, <1>2, <1>4, <2>1, <2>2, GotoKeeps
<1> QED BY <1>3, <1>4 DEF PublishEvent

\* A save that is written whole keeps the invariant.
LEMMA SavedKeeps ==
    ASSUME Inv, NEW r \in Requests, Saved(r), UNCHANGED names
    PROVE  Inv'
<1> PICK n : n = req[r].name
  OBVIOUS
<1> DEFINE d == req[r].data
           f == req[r].fd
<1>1. /\ Written(r) /\ Under(r) /\ req[r].at = "write" /\ req[r].op = "save"
      /\ UNCHANGED <<dir, entry, heard>> /\ Store(text, torn)
      /\ text \in [Files -> Texts] /\ torn \subseteq Files
  BY DEF Saved, Written, Under, Inv, TypeOK
<1>2. /\ n \in Names /\ n \in Confs /\ n \in names /\ d \in Contents /\ d \in Texts
      /\ expect[n] = Unknown /\ f \in Files /\ f # NoFile
      /\ req[r] \in Request /\ req[r].src = NoFile /\ Source(r) = d
  BY <1>1, StageOp, FilesReferred, TouchesNames, ContentsType DEF Inv, TypeOK, Source
<1>3. WrittenSoFar(r) => text[f] = d
  BY <1>1, <1>2, WrittenWhole
<1>4. r \notin shared => entry[n] = f /\ ReadFullFile(n) = d
  BY <1>1, <1>2, <1>3 DEF Inv, AloneInv, ReadFullFile
<1>5. f = entry[n] /\ f \notin torn => text[f] = d
  BY <1>2, <1>3 DEF Inv, ConfInv
<1>6. CASE n # System
  <2>1. PICK json \in BOOLEAN : Answer(r, json)
    BY <1>6 DEF Saved
  <2>2. AnsweredSaveIsAnnounced'
    BY <1>1, <1>6, <2>1, AnsweredKept, NamesAssumption DEF Answer, Inv, TypeOK, Names
  <2>3. heard' \in {Unknown} \cup Texts
    BY <1>1 DEF Inv, TypeOK
  <2> QED BY <1>1, <1>2, <1>4, <1>5, <2>1, <2>2, <2>3, AnswerKeeps
<1>7. CASE n = System
  <2> DEFINE q == [req[r] EXCEPT !.at = "publish", !.fd = NoFile]
  <2>1. req' = [req EXCEPT ![r] = q] /\ UNCHANGED <<expect, shared>>
    BY <1>7 DEF Saved
  <2>2. /\ q \in Request /\ q.at = "publish" /\ q.op = "save" /\ q.name = n
        /\ q.from = req[r].from /\ q.data = d /\ q.fd = NoFile /\ q.src = NoFile
    BY <1>1, <1>2 DEF Request, Stages
  <2> HIDE DEF q
  <2>3. /\ req' \in [Requests -> Request] /\ req'[r] = q
        /\ \A s \in Requests : s # r => req'[s] = req[s]
        /\ \A s \in Requests : req'[s].at = "write" <=> req'[s].fd # NoFile
        /\ shared' \subseteq {s \in Requests : Under(s)'}
    BY <2>1, <2>2, RequestMove DEF Inv
  <2>4. TypeOK'
    BY <1>1, <2>1, <2>3, StoreType DEF Inv, TypeOK
  <2>5. /\ \A g \in Files : g \in Readable' => text'[g] = text[g]
        /\ torn' = torn \cap Named(Confs)'
    BY <1>1, StoreEffect DEF Inv
  <2>6. Moves(r, NoFile)
    BY <1>1, <1>2, <2>1, <2>2, <2>3, <2>5 DEF Moves, Under
  <2>7. entry[n] # NoFile => entry[n] \in Files /\ text'[entry[n]] = text[entry[n]]
    BY <1>1, <1>2, <2>5, ReadableFiles DEF Inv, TypeOK
  <2>8. RequestInv(r)'
    <3>1. req[r].op # "copy" => req[r].from = Outside
      BY <1>1 DEF Inv, RequestInv
    <3> QED BY <1>1, <1>2, <1>7, <2>1, <2>2, <2>3, <3>1 DEF RequestInv, Under
  <2>9. ReadFullFile(n)' = ReadFullFile(n)
    BY <1>1, <2>7 DEF ReadFullFile
  <2>10. AloneInv(r)'
    BY <1>4, <2>1, <2>2, <2>3, <2>6, <2>9, MovesAlone DEF AloneInv
  <2>11. StoredInv(n)'
    BY <1>2, <2>1 DEF StoredInv
  <2>12. ConfInv(n)'
    <3> SUFFICES ASSUME entry[n] \notin torn' \cup {NoFile} PROVE ConfInv(n)'
      BY <1>1 DEF ConfInv
    <3>1. entry[n] \notin torn /\ entry[n] # NoFile
      BY <1>2, <1>1, <2>5 DEF Named
    <3>2. ConfInv(n)
      BY <1>2 DEF Inv
    <3>3. CASE f = entry[n]
      <4>1. \A s \in Requests : req'[s].fd # entry[n]
        BY <2>2, <2>3, <3>1, <3>2, <3>3 DEF ConfInv
      <4> QED BY <1>1, <1>2, <1>5, <2>7, <3>1, <3>3, <4>1 DEF ConfInv
    <3>4. CASE f # entry[n]
      <4>1. \A s \in Requests : req'[s].fd = entry[n] <=> req[s].fd = entry[n]
        BY <2>2, <2>3, <3>1, <3>4
      <4>2. \A s \in Requests : req[s].fd = entry[n] => req'[s] = req[s]
        BY <2>3, <3>4
      <4> QED BY <1>1, <2>7, <3>1, <3>2, <4>1, <4>2 DEF ConfInv, WrittenSoFar
    <3> QED BY <3>3, <3>4
  <2>13. AnsweredSaveIsAnnounced'
    BY <1>1, <2>1, AnsweredKept
  <2> QED BY <2>4, <2>6, <2>8, <2>10, <2>11, <2>12, <2>13, MovesKeep
<1> QED BY <1>6, <1>7

\* The size of the source is looked at.
LEMMA StatImageKeeps ==
    ASSUME Inv, NEW r \in Requests, StatImage(r), UNCHANGED names
    PROVE  Inv'
<1>1. /\ req[r].at = "stat" /\ Under(r) /\ req[r].op # "save"
      /\ UNCHANGED <<dir, entry, text, torn, heard>>
  BY StageOp DEF StatImage, Under
<1>2. heard' \in {Unknown} \cup Texts
  BY <1>1 DEF Inv, TypeOK
<1>3. PICK at \in {"remove", "panic"} : Goto(r, at)
  BY DEF StatImage
<1>4. AnsweredSaveIsAnnounced'
  BY <1>1, <1>3, AnsweredKept DEF Goto
<1> QED BY <1>1, <1>2, <1>3, <1>4, GotoKeeps

\* An image request answers, whatever became of the image.
LEMMA ImageAnswerKeeps ==
    ASSUME Inv, NEW r \in Requests, Under(r), req[r].op # "save", NEW done \in BOOLEAN,
           Answer(r, done), UNCHANGED <<names, dir, entry, heard>>,
           done => Written(r),
           \/ UNCHANGED <<text, torn>> /\ req[r].at \notin {"write", "create"}
           \/ Store(text, torn)
           \/ CutOff(r) /\ req[r].at = "write"
    PROVE  Inv'
<1>1. /\ req[r].name \in Names \ Confs /\ req[r].name # System
      /\ heard' \in {Unknown} \cup Texts
  BY StageOp, FilesReferred DEF Under, Inv, TypeOK
<1>2. AnsweredSaveIsAnnounced'
  BY <1>1, AnsweredKept, NamesAssumption DEF Answer, Inv, TypeOK, Names
<1>3. ASSUME done, r \notin shared PROVE ReadFullFile(req[r].name) = req[r].data
  <2>1. Written(r) /\ AloneInv(r) /\ req[r].at = "write"
    BY <1>3 DEF Inv, Written
  <2>2. WrittenSoFar(r) /\ entry[req[r].name] = req[r].fd /\ Source(r) = req[r].data
    BY <1>3, <2>1 DEF AloneInv, Source
  <2>3. req[r].fd # NoFile
    BY <2>1 DEF Inv, TypeOK
  <2> QED BY <2>1, <2>2, <2>3, WrittenWhole DEF ReadFullFile
<1> QED BY <1>1, <1>2, <1>3, AnswerKeeps

\* The image is written, all of it or a part.
LEMMA ImageWrittenKeeps ==
    ASSUME Inv, NEW r \in Requests, ImageWritten(r), UNCHANGED names
    PROVE  Inv'
BY ImageAnswerKeeps DEF ImageWritten, Under

-----------------------------------------------------------------------------
(* The calls that change what a name refers to, or what its file holds.    *)

\* A name whose file is made or truncated refers to no file of another name.
LEMMA FileOfApart ==
    ASSUME Inv, NEW n \in Names, Room(n), NEW f, f = FileOf(n)
    PROVE  /\ f \in Files
           /\ Refers(n, f) \/ (\A m \in Names : ~Refers(m, f))
           /\ \A m \in Names : m # n => ~Refers(m, f)
<1>1. TypeOK /\ ApartInv
  BY DEF Inv
<1>2. f \in Files /\ (entry[n] # NoFile => f = entry[n]) /\ (entry[n] = NoFile => f \notin InUse)
  BY <1>1, FileOfFree
<1>3. CASE entry[n] = NoFile
  BY <1>2, <1>3, FreeFile
<1>4. CASE entry[n] # NoFile
  BY <1>1, <1>2, <1>4 DEF ApartInv, Refers
<1> QED BY <1>2, <1>3, <1>4

\* Opening a file for writing keeps the invariant: it is empty, the request is at its
\* beginning, and a second writer makes it torn.
LEMMA OpenKeeps ==
    ASSUME Inv, NEW r \in Requests, req[r].at \in {"open", "create"}, Open(r, "write"),
           UNCHANGED <<names, dir, heard>>
    PROVE  Inv'
<1> PICK n : n = req[r].name
  OBVIOUS
<1> PICK f : f = FileOf(n)
  OBVIOUS
<1> DEFINE q == [req[r] EXCEPT !.at = "write", !.fd = f, !.pos = 0]
           t == [text EXCEPT ![f] = <<>>]
           half == IF \E s \in Requests : req[s].fd = f THEN torn \cup {f} ELSE torn \ {f}
<1>1. /\ Room(n) /\ entry' = [entry EXCEPT ![n] = f] /\ req' = [req EXCEPT ![r] = q]
      /\ UNCHANGED <<expect, shared>> /\ Store(t, half)
  BY DEF Open
<1>2. /\ Under(r) /\ req[r] \in Request /\ n \in Names /\ n \in names
      /\ req[r].fd = NoFile /\ expect[n] = Unknown
  BY FilesReferred, TouchesNames, StageOp DEF Under, Inv, TypeOK
<1>3. /\ f \in Files /\ f # NoFile
      /\ Refers(n, f) \/ (\A m \in Names : ~Refers(m, f))
      /\ \A m \in Names : m # n => ~Refers(m, f)
  BY <1>1, <1>2, FileOfApart, NoFileAssumption
<1>4. /\ q \in Request /\ q.at = "write" /\ q.op = req[r].op /\ q.name = n
      /\ q.from = req[r].from /\ q.data = req[r].data /\ q.fd = f /\ q.src = req[r].src /\ q.pos = 0
  BY <1>2, <1>3 DEF Request, Stages
<1>5. t \in [Files -> Texts] /\ half \subseteq Files /\ t[f] = <<>>
      /\ \A h \in Files : h # f => t[h] = text[h]
  BY <1>3, ContentsType DEF Inv, TypeOK
<1> HIDE DEF q, t
<1>6. /\ req' \in [Requests -> Request] /\ req'[r] = q
      /\ \A s \in Requests : s # r => req'[s] = req[s]
      /\ \A s \in Requests : req'[s].at = "write" <=> req'[s].fd # NoFile
      /\ shared' \subseteq {s \in Requests : Under(s)'}
  BY <1>1, <1>3, <1>4, RequestMove DEF Inv
<1>7. /\ entry' \in [Names -> Files \cup {NoFile}] /\ entry'[n] = f
      /\ \A m \in Names : m # n => entry'[m] = entry[m]
  BY <1>1, <1>2, <1>3 DEF Inv, TypeOK
<1>8. TypeOK'
  BY <1>1, <1>5, <1>6, <1>7, StoreType DEF Inv, TypeOK
<1>9. /\ \A h \in Files : h \in Readable' => text'[h] = t[h]
      /\ text'[f] = <<>> /\ torn' = half \cap Named(Confs)'
  <2>1. /\ \A h \in Files : text'[h] = IF h \in Readable' THEN t[h] ELSE <<>>
        /\ torn' = half \cap Named(Confs)'
    BY <1>1, <1>5, StoreEffect DEF Inv
  <2> QED BY <1>3, <1>5, <2>1
<1>10. (torn \ {f}) \cap Named(Confs)' \subseteq torn'
  BY <1>9
<1>11. Moves(r, f)
  BY <1>1, <1>2, <1>3, <1>4, <1>5, <1>6, <1>7, <1>9, <1>10 DEF Moves, Under
<1>12. RequestInv(r)'
  <2>1. RequestInv(r)
    BY DEF Inv
  <2> QED BY <1>1, <1>2, <1>4, <1>6, <2>1 DEF RequestInv, Under
<1>13. WrittenSoFar(r)'
  <2>1. Len(req[r].data) \in Nat
    BY <1>2, LenProperties DEF Request, Texts
  <2>2. Len(<<>>) = 0
    BY EmptySeq
  <2> QED BY <1>4, <1>6, <1>9, <2>1, <2>2 DEF WrittenSoFar
<1>14. AloneInv(r)'
  <2> SUFFICES ASSUME r \notin shared' PROVE AloneInv(r)'
    BY DEF AloneInv
  <2>1. AloneInv(r) /\ r \notin shared
    BY <1>1 DEF Inv
  <2>2. Under(r)' => \A s \in Requests : s # r => Touches(s)' \cap Touches(r)' = {}
    BY <1>11, MovesAlone
  <2>3. ASSUME req[r].src # NoFile
        PROVE  req[r].from # n /\ text'[req[r].src] = req[r].data
    <3>1. req[r].from # n /\ text[req[r].src] = req[r].data
      BY <1>2, <2>1, <2>3 DEF AloneInv
    <3>2. req[r].src \in Files /\ req[r].from \in Names /\ Refers(req[r].from, req[r].src)
      BY <2>3, FilesReferred
    <3>3. req[r].src # f /\ req[r].src \in Readable'
      BY <1>3, <1>4, <1>6, <3>1, <3>2, ReadableFiles
    <3> QED BY <1>5, <1>9, <3>1, <3>2, <3>3
  <2> QED BY <1>4, <1>6, <1>7, <1>13, <2>2, <2>3 DEF AloneInv
<1>15. StoredInv(n)'
  BY <1>1, <1>2 DEF StoredInv
<1>16. ASSUME n \in Confs PROVE ConfInv(n)'
  <2> SUFFICES ASSUME f \notin torn' PROVE ConfInv(n)'
    BY <1>7 DEF ConfInv
  <2>1. f \in Named(Confs)'
    BY <1>7, <1>16 DEF Named
  <2>2. \A s \in Requests : req[s].fd # f
    BY <1>9, <2>1
  <2>3. \A s \in Requests : req'[s].fd = f => s = r
    BY <1>6, <2>2
  <2> QED BY <1>4, <1>6, <1>7, <1>13, <2>3 DEF ConfInv
<1>17. AnsweredSaveIsAnnounced'
  BY <1>1, AnsweredKept
<1> QED BY <1>8, <1>11, <1>12, <1>14, <1>15, <1>16, <1>17, MovesKeep

\* The calls that open a file, or fail to.
LEMMA OpenFileKeeps ==
    ASSUME Inv, NEW r \in Requests, OpenFile(r) \/ CreateImage(r), UNCHANGED names
    PROVE  Inv'
<1>1. CASE Open(r, "write")
  BY <1>1, OpenKeeps DEF OpenFile, CreateImage
<1>2. CASE OpenFile(r) /\ ~Open(r, "write")
  BY <1>2, ReturnKeeps DEF OpenFile, Under
<1>3. CASE CreateImage(r) /\ ~Open(r, "write")
  BY <1>3, StageOp, ImageAnswerKeeps DEF CreateImage, Under
<1> QED BY <1>1, <1>2, <1>3

\* IsNotExistCreateFile makes a configuration, empty and torn until it is opened.
LEMMA IsNotExistCreateFileKeeps ==
    ASSUME Inv, NEW r \in Requests, IsNotExistCreateFile(r), UNCHANGED names
    PROVE  Inv'
<1> PICK n : n = req[r].name
  OBVIOUS
<1> PICK f : f = FileOf(n)
  OBVIOUS
<1> DEFINE q == [req[r] EXCEPT !.at = "open"]
           t == [text EXCEPT ![f] = <<>>]
<1>1. /\ req[r].at = "touch" /\ Under(r) /\ Goto(r, "open") /\ UNCHANGED <<dir, heard>>
      /\ req[r].op = "save" /\ n \in Confs /\ req[r].data \in Contents
      /\ heard' \in {Unknown} \cup Texts
  BY StageOp DEF IsNotExistCreateFile, Under, Inv, TypeOK
<1>2. AnsweredSaveIsAnnounced'
  BY <1>1, AnsweredKept DEF Goto
<1>3. CASE UNCHANGED <<entry, text, torn>>
  BY <1>1, <1>2, <1>3, GotoKeeps
<1>4. CASE /\ Room(n) /\ entry' = [entry EXCEPT ![n] = f] /\ Store(t, torn \cup {f})
  <2>1. req' = [req EXCEPT ![r] = q] /\ UNCHANGED <<expect, shared>>
    BY <1>1 DEF Goto
  <2>2. /\ req[r] \in Request /\ n \in Names /\ n \in names
        /\ req[r].fd = NoFile /\ req[r].src = NoFile /\ expect[n] = Unknown
    BY <1>1, FilesReferred, TouchesNames, StageOp, ClosedFiles
  <2>3. /\ f \in Files /\ f # NoFile
        /\ Refers(n, f) \/ (\A m \in Names : ~Refers(m, f))
    BY <1>4, <2>2, FileOfApart, NoFileAssumption
  <2>4. /\ q \in Request /\ q.at = "open" /\ q.op = "save" /\ q.name = n
        /\ q.from = req[r].from /\ q.data = req[r].data /\ q.fd = NoFile /\ q.src = NoFile
    BY <1>1, <2>2 DEF Request, Stages
  <2>5. t \in [Files -> Texts] /\ torn \cup {f} \subseteq Files
        /\ \A h \in Files : h # f => t[h] = text[h]
    BY <2>3, ContentsType DEF Inv, TypeOK
  <2> HIDE DEF q, t
  <2>6. /\ req' \in [Requests -> Request] /\ req'[r] = q
        /\ \A s \in Requests : s # r => req'[s] = req[s]
        /\ \A s \in Requests : req'[s].at = "write" <=> req'[s].fd # NoFile
        /\ shared' \subseteq {s \in Requests : Under(s)'}
    BY <2>1, <2>4, RequestMove DEF Inv
  <2>7. /\ entry' \in [Names -> Files \cup {NoFile}] /\ entry'[n] = f
        /\ \A m \in Names : m # n => entry'[m] = entry[m]
    BY <1>4, <2>2, <2>3 DEF Inv, TypeOK
  <2>8. TypeOK'
    BY <1>1, <1>4, <2>1, <2>5, <2>6, <2>7, StoreType DEF Inv, TypeOK
  <2>9. /\ \A h \in Files : h \in Readable' => text'[h] = t[h]
        /\ torn' = (torn \cup {f}) \cap Named(Confs)'
    BY <1>4, <2>5, StoreEffect DEF Inv
  <2>10. Moves(r, f)
    BY <1>1, <2>1, <2>2, <2>3, <2>4, <2>5, <2>6, <2>7, <2>9 DEF Moves, Under
  <2>11. RequestInv(r)'
    <3>1. RequestInv(r)
      BY DEF Inv
    <3> QED BY <1>1, <2>1, <2>2, <2>4, <2>6, <3>1 DEF RequestInv, Under
  <2>12. AloneInv(r)'
    BY <2>4, <2>6, <2>10, MovesAlone DEF AloneInv
  <2>13. f \in torn'
    BY <1>1, <2>7, <2>9 DEF Named
  <2>14. StoredInv(n)' /\ ConfInv(n)'
    BY <2>1, <2>2, <2>7, <2>13 DEF StoredInv, ConfInv
  <2> QED BY <1>2, <2>8, <2>10, <2>11, <2>12, <2>14, MovesKeep
<1> QED BY <1>3, <1>4 DEF IsNotExistCreateFile

\* A copy or an avatar removes what its name refers to, or fails to.
LEMMA RemoveKeeps ==
    ASSUME Inv, NEW r \in Requests, Remove(r), UNCHANGED names
    PROVE  Inv'
<1> PICK n : n = req[r].name
  OBVIOUS
<1>1. PICK removed \in BOOLEAN :
        /\ entry' = IF removed THEN [entry EXCEPT ![n] = NoFile] ELSE entry
        /\ req' = [req EXCEPT ![r].at = IF req[r].op = "copy" THEN "source" ELSE "create"]
        /\ shared' = IF removed THEN shared ELSE shared \cup {r}
  BY DEF Remove
<1> DEFINE q == [req[r] EXCEPT !.at = IF req[r].op = "copy" THEN "source" ELSE "create"]
<1>2. /\ req[r].at = "remove" /\ Under(r) /\ req[r].op # "save" /\ n \notin Confs
      /\ UNCHANGED <<dir, expect, heard>> /\ Store(text, torn)
      /\ text \in [Files -> Texts] /\ torn \subseteq Files
  BY StageOp DEF Remove, Under, Inv, TypeOK
<1>3. /\ req[r] \in Request /\ n \in Names /\ n \in names
      /\ req[r].fd = NoFile /\ req[r].src = NoFile /\ expect[n] = Unknown
  BY <1>2, FilesReferred, TouchesNames, StageOp, ClosedFiles
<1>4. /\ q \in Request /\ q.at \in {"source", "create"} /\ q.op = req[r].op /\ q.name = n
      /\ q.from = req[r].from /\ q.data = req[r].data /\ q.fd = NoFile /\ q.src = NoFile
      /\ req' = [req EXCEPT ![r] = q]
  BY <1>1, <1>3 DEF Request, Stages
<1> HIDE DEF q
<1>5. /\ req' \in [Requests -> Request] /\ req'[r] = q
      /\ \A s \in Requests : s # r => req'[s] = req[s]
      /\ \A s \in Requests : req'[s].at = "write" <=> req'[s].fd # NoFile
      /\ shared' \subseteq {s \in Requests : Under(s)'}
  BY <1>1, <1>4, RequestMove DEF Inv
<1>6. /\ entry' \in [Names -> Files \cup {NoFile}] /\ entry'[n] \in {entry[n], NoFile}
      /\ \A m \in Names : m # n => entry'[m] = entry[m]
      /\ r \notin shared' => entry'[n] = NoFile
      /\ \A s \in shared : s \in shared'
  BY <1>1, <1>3 DEF Inv, TypeOK
<1>7. TypeOK'
  BY <1>2, <1>5, <1>6, StoreType DEF Inv, TypeOK
<1>8. /\ \A h \in Files : h \in Readable' => text'[h] = text[h]
      /\ torn' = torn \cap Named(Confs)'
  BY <1>2, StoreEffect DEF Inv
<1>9. Moves(r, NoFile)
  BY <1>2, <1>3, <1>4, <1>5, <1>6, <1>8 DEF Moves, Under
<1>10. RequestInv(r)'
  <2>1. RequestInv(r)
    BY DEF Inv
  <2> QED BY <1>2, <1>3, <1>4, <1>5, <2>1 DEF RequestInv, Under
<1>11. AloneInv(r)'
  BY <1>4, <1>5, <1>6, <1>9, MovesAlone DEF AloneInv
<1>12. StoredInv(n)'
  BY <1>2, <1>3 DEF StoredInv
<1>13. AnsweredSaveIsAnnounced'
  BY <1>2, AnsweredKept
<1> QED BY <1>2, <1>7, <1>9, <1>10, <1>11, <1>12, <1>13, MovesKeep

\* The source of a copy is opened: it is not the name just removed.
LEMMA OpenSourceKeeps ==
    ASSUME Inv, NEW r \in Requests, OpenSource(r), UNCHANGED names
    PROVE  Inv'
<1> PICK n : n = req[r].name
  OBVIOUS
<1> PICK from : from = req[r].from
  OBVIOUS
<1> DEFINE src  == IF from = Outside THEN NoFile ELSE entry[from]
           data == IF from = Outside THEN OutsideText ELSE ReadFullFile(from)
           q == [req[r] EXCEPT !.at = "create", !.src = src, !.data = data]
<1>1. /\ req[r].at = "source" /\ Under(r) /\ req[r].op # "save" /\ n \notin Confs
      /\ UNCHANGED <<dir, entry, text, torn, heard>>
  BY StageOp DEF OpenSource, Under
<1>2. CASE Answer(r, FALSE)
  BY <1>1, <1>2, ImageAnswerKeeps
<1>3. CASE SourceExists(r) /\ req' = [req EXCEPT ![r] = q] /\ UNCHANGED <<expect, shared>>
  <2>1. /\ req[r] \in Request /\ n \in Names /\ n \in names
        /\ req[r].fd = NoFile /\ req[r].src = NoFile /\ expect[n] = Unknown
    BY <1>1, FilesReferred, TouchesNames, StageOp, ClosedFiles
  <2>2. /\ from \in Names \cup {Outside} /\ (from # Outside => entry[from] \in Files)
        /\ (from # Outside => data = text[entry[from]] /\ src = entry[from])
        /\ (from = Outside => src = NoFile)
        /\ src \in Files \cup {NoFile} /\ data \in Texts
    <3>1. from \in Names \cup {Outside}
      BY <2>1 DEF Request
    <3>2. from # Outside => entry[from] \in Files
      BY <1>3, <3>1 DEF SourceExists, Inv, TypeOK
    <3>3. from # Outside => data = text[entry[from]] /\ data \in Texts
      BY <1>3, <3>2, NoFileAssumption DEF ReadFullFile, Inv, TypeOK
    <3>4. OutsideText \in Texts
      BY ContentsType, ContentsAssumption
    <3> QED BY <3>1, <3>2, <3>3, <3>4
  <2> HIDE DEF src, data
  <2>3. /\ q \in Request /\ q.at = "create" /\ q.op = req[r].op /\ q.name = n
        /\ q.from = from /\ q.data = data /\ q.fd = NoFile /\ q.src = src
    BY <2>1, <2>2 DEF Request, Stages
  <2> HIDE DEF q
  <2>4. /\ req' \in [Requests -> Request] /\ req'[r] = q
        /\ \A s \in Requests : s # r => req'[s] = req[s]
        /\ \A s \in Requests : req'[s].at = "write" <=> req'[s].fd # NoFile
        /\ shared' \subseteq {s \in Requests : Under(s)'}
    BY <1>3, <2>3, RequestMove DEF Inv
  <2>5. TypeOK'
    BY <1>1, <1>3, <2>1, <2>4, StillType DEF Inv, TypeOK
  <2>6. Moves(r, NoFile)
    BY <1>1, <1>3, <2>1, <2>2, <2>3, <2>4 DEF Moves, Under
  <2>7. RequestInv(r)'
    <3>1. RequestInv(r)
      BY DEF Inv
    <3> QED BY <1>1, <1>3, <2>1, <2>2, <2>3, <2>4, <3>1 DEF RequestInv, Under
  <2>8. AloneInv(r)'
    <3> SUFFICES ASSUME r \notin shared' PROVE AloneInv(r)'
      BY DEF AloneInv
    <3>1. entry[n] = NoFile
      BY <1>1, <1>3 DEF Inv, AloneInv
    <3>2. src # NoFile => from # n /\ text[src] = data
      BY <2>2, <3>1
    <3>3. Under(r)' => \A s \in Requests : s # r => Touches(s)' \cap Touches(r)' = {}
      BY <2>6, MovesAlone
    <3> QED BY <1>1, <2>3, <2>4, <3>2, <3>3 DEF AloneInv
  <2>9. StoredInv(n)'
    BY <1>3, <2>1 DEF StoredInv
  <2>10. AnsweredSaveIsAnnounced'
    BY <1>1, <1>3, AnsweredKept
  <2> QED BY <1>1, <2>5, <2>6, <2>7, <2>8, <2>9, <2>10, MovesKeep
<1> QED BY <1>2, <1>3 DEF OpenSource

\* A chunk more is written, after those the request has written.
LEMMA WriteChunkKeeps ==
    ASSUME Inv, NEW r \in Requests, WriteChunk(r), UNCHANGED names
    PROVE  Inv'
<1> PICK n : n = req[r].name
  OBVIOUS
<1> PICK f : f = req[r].fd
  OBVIOUS
<1> PICK k : k = req[r].pos + 1
  OBVIOUS
<1> PICK c : c = Source(r)[k]
  OBVIOUS
<1> DEFINE q == [req[r] EXCEPT !.pos = k]
           w == WriteAt(text[f], k, c)
           t == [text EXCEPT ![f] = w]
<1>1. /\ req[r].at = "write" /\ Under(r) /\ k <= Len(Source(r))
      /\ req' = [req EXCEPT ![r] = q]
      /\ UNCHANGED <<dir, entry, expect, shared, heard>> /\ Store(t, torn)
  BY DEF WriteChunk, Under
<1>2. /\ req[r] \in Request /\ n \in Names /\ n \in names /\ expect[n] = Unknown
      /\ f \in Files /\ f # NoFile /\ Refers(n, f)
      /\ req[r].src # NoFile => /\ req[r].src \in Files /\ req[r].from \in Names
                                /\ Refers(req[r].from, req[r].src)
  BY <1>1, FilesReferred, TouchesNames, StageOp DEF Inv, TypeOK
<1>3. req[r].pos \in Nat /\ k \in Nat \ {0} /\ k = req[r].pos + 1
  BY <1>2 DEF Request
<1>4. c \in Chunks \cup {Hole} /\ text[f] \in Texts /\ text \in [Files -> Texts]
  <2>1. Source(r) \in Texts /\ text[f] \in Texts /\ text \in [Files -> Texts]
    BY <1>2 DEF Source, Inv, TypeOK, Request
  <2>2. k \in 1..Len(Source(r))
    BY <1>1, <1>3, <2>1, LenProperties DEF Texts
  <2> QED BY <2>1, <2>2, ElementOfSeq DEF Texts
<1>5. /\ w \in Texts /\ Len(text[f]) \in Nat
      /\ Len(w) = IF k > Len(text[f]) THEN k ELSE Len(text[f])
      /\ w[k] = c /\ \A i \in 1..Len(text[f]) : i # k => w[i] = text[f][i]
  <2>1. text[f] \in Texts /\ k \in Nat \ {0} /\ c \in Chunks \cup {Hole}
    BY <1>3, <1>4
  <2> HIDE DEF w
  <2>2. w = WriteAt(text[f], k, c)
    BY DEF w
  <2>3. \A i \in 1..Len(text[f]) : i # k => w[i] = text[f][i]
    BY <2>1, <2>2, WriteAtKeeps
  <2> QED BY <2>1, <2>2, <2>3, WriteAtEffect
<1> HIDE DEF w
<1>6. /\ q \in Request /\ q.at = "write" /\ q.op = req[r].op /\ q.name = n
      /\ q.from = req[r].from /\ q.data = req[r].data /\ q.fd = f /\ q.src = req[r].src /\ q.pos = k
  BY <1>1, <1>2, <1>3 DEF Request
<1>7. t \in [Files -> Texts] /\ torn \subseteq Files /\ t[f] = w
      /\ \A h \in Files : h # f => t[h] = text[h]
  BY <1>2, <1>4, <1>5 DEF Inv, TypeOK
<1> HIDE DEF q, t
<1>8. /\ req' \in [Requests -> Request] /\ req'[r] = q
      /\ \A s \in Requests : s # r => req'[s] = req[s]
      /\ \A s \in Requests : req'[s].at = "write" <=> req'[s].fd # NoFile
      /\ shared' \subseteq {s \in Requests : Under(s)'}
  BY <1>1, <1>2, <1>6, RequestMove DEF Inv
<1>9. TypeOK'
  BY <1>1, <1>7, <1>8, StoreType DEF Inv, TypeOK
<1>10. /\ \A h \in Files : h \in Readable' => text'[h] = t[h]
       /\ torn' = torn \cap Named(Confs)'
  BY <1>1, <1>7, StoreEffect DEF Inv
<1>11. Moves(r, f)
  BY <1>1, <1>2, <1>6, <1>7, <1>8, <1>10 DEF Moves, Under
<1>12. ASSUME WrittenSoFar(r), Source(r) = req[r].data, entry[n] = f
       PROVE  WrittenSoFar(r)'
  <2>1. text'[f] = w
    BY <1>1, <1>2, <1>7, <1>10, <1>12, ReadableFiles
  <2>2. /\ Len(text[f]) = req[r].pos
        /\ \A i \in 1..req[r].pos : text[f][i] = req[r].data[i]
    BY <1>12 DEF WrittenSoFar
  <2>3. Len(w) = k
    BY <1>3, <1>5, <2>2
  <2>4. \A i \in 1..k : w[i] = req[r].data[i]
    BY <1>3, <1>5, <1>12, <2>2
  <2> QED BY <1>1, <1>6, <1>8, <1>12, <2>1, <2>3, <2>4 DEF WrittenSoFar
<1>13. RequestInv(r)'
  <2>1. RequestInv(r)
    BY DEF Inv
  <2> QED BY <1>1, <1>2, <1>6, <1>8, <2>1 DEF RequestInv, Under
<1>14. AloneInv(r)'
  <2> SUFFICES ASSUME r \notin shared' PROVE AloneInv(r)'
    BY DEF AloneInv
  <2>1. AloneInv(r) /\ r \notin shared
    BY <1>1 DEF Inv
  <2>2. Under(r)' => \A s \in Requests : s # r => Touches(s)' \cap Touches(r)' = {}
    BY <1>11, MovesAlone
  <2>3. entry[n] = f /\ WrittenSoFar(r) /\ Source(r) = req[r].data
    BY <1>1, <2>1 DEF AloneInv, Source
  <2>4. ASSUME req[r].src # NoFile
        PROVE  req[r].from # n /\ text'[req[r].src] = req[r].data
    <3>1. req[r].from # n /\ text[req[r].src] = req[r].data
      BY <1>1, <2>1, <2>4 DEF AloneInv
    <3>2. req[r].src # f
      BY <1>2, <2>4, <3>1 DEF Inv, ApartInv
    <3>3. req[r].src \in Readable'
      BY <1>6, <1>8, ReadableFiles
    <3> QED BY <1>2, <1>7, <1>10, <2>4, <3>1, <3>2, <3>3
  <2> QED BY <1>1, <1>6, <1>8, <1>12, <2>2, <2>3, <2>4 DEF AloneInv
<1>15. StoredInv(n)'
  BY <1>1, <1>2 DEF StoredInv
<1>16. ASSUME n \in Confs PROVE ConfInv(n)'
  <2> SUFFICES ASSUME entry[n] \notin torn' \cup {NoFile} PROVE ConfInv(n)'
    BY <1>1 DEF ConfInv
  <2>1. entry[n] \notin torn /\ entry[n] # NoFile
    BY <1>1, <1>10, <1>16 DEF Named
  <2>2. ConfInv(n)
    BY <1>16 DEF Inv
  <2>3. CASE entry[n] = f
    <3>1. WrittenSoFar(r) /\ Source(r) = req[r].data
      BY <1>1, <1>16, <2>1, <2>2, <2>3, StageOp DEF ConfInv, Source
    <3>2. \A s \in Requests : req'[s].fd = f => s = r
      BY <1>8, <2>1, <2>2, <2>3 DEF ConfInv
    <3> QED BY <1>1, <1>6, <1>8, <1>12, <2>3, <3>1, <3>2 DEF ConfInv
  <2>4. CASE entry[n] # f
    <3>1. text'[entry[n]] = text[entry[n]]
      BY <1>1, <1>2, <1>7, <1>10, <2>1, <2>4, ReadableFiles DEF Inv, TypeOK
    <3>2. \A s \in Requests : req'[s].fd = req[s].fd /\ (req[s].fd = entry[n] => req'[s] = req[s])
      BY <1>6, <1>8, <2>4
    <3> QED BY <1>1, <2>1, <2>2, <3>1, <3>2 DEF ConfInv, WrittenSoFar
  <2> QED BY <2>3, <2>4
<1>17. AnsweredSaveIsAnnounced'
  BY <1>1, AnsweredKept
<1> QED BY <1>9, <1>11, <1>13, <1>14, <1>15, <1>16, <1>17, MovesKeep

-----------------------------------------------------------------------------
(* The theorems.                                                           *)

\* An account with no files and no requests satisfies the invariant.
LEMMA InitInv == Init => Inv
<1> SUFFICES ASSUME Init PROVE Inv
  OBVIOUS
<1>1. /\ \A n \in Names : entry[n] = NoFile /\ expect[n] = <<>>
      /\ \A f \in Files : text[f] = <<>>
      /\ \A r \in Requests : req[r] = Idle /\ ~Under(r)
  BY IdleType DEF Init, Under
<1>2. TypeOK
  BY <1>1, IdleType, ContentsType DEF Init, TypeOK
<1>3. ApartInv
  <2>1. \A f \in Files, n \in Names : ~Refers(n, f)
    BY <1>1, IdleType, NoFileAssumption DEF Refers
  <2> QED BY <1>1, <2>1 DEF ApartInv
<1>4. \A r \in Requests : RequestInv(r) /\ AloneInv(r)
  BY <1>1, IdleType DEF RequestInv, AloneInv
<1>5. (\A n \in Names : StoredInv(n)) /\ \A n \in Confs : ConfInv(n)
  BY <1>1 DEF StoredInv, ReadFullFile, ConfInv, Names
<1>6. AnsweredSaveIsAnnounced
  BY <1>1, NamesAssumption DEF AnsweredSaveIsAnnounced, Names
<1> QED BY <1>2, <1>3, <1>4, <1>5, <1>6 DEF Inv

\* Every step keeps it.
LEMMA NextInv == Inv /\ [Next]_vars => Inv'
<1> SUFFICES ASSUME Inv, [Next]_vars PROVE Inv'
  OBVIOUS
<1>1. CASE UNCHANGED vars
  <2>0. UNCHANGED <<names, dir, entry, text, req, expect, shared, torn, heard>>
    BY <1>1 DEF vars
  <2>1. TypeOK'
    BY <2>0 DEF Inv, TypeOK, Readable, Named, Under
  <2>2. ApartInv'
    BY <2>0 DEF Inv, ApartInv, Refers
  <2>3. \A r \in Requests : RequestInv(r)'
    BY <2>0 DEF Inv, RequestInv, Under
  <2>4. \A r \in Requests : AloneInv(r)'
    BY <2>0 DEF Inv, AloneInv, Under, Touches, WrittenSoFar, ReadFullFile
  <2>5. (\A n \in Names : StoredInv(n)') /\ (\A n \in Confs : ConfInv(n)')
    BY <2>0 DEF Inv, StoredInv, ReadFullFile, ConfInv, WrittenSoFar
  <2>6. AnsweredSaveIsAnnounced'
    BY <2>0 DEF Inv, AnsweredSaveIsAnnounced
  <2> QED BY <2>1, <2>2, <2>3, <2>4, <2>5, <2>6 DEF Inv
<1>2. CASE Next
  <2>1. UNCHANGED names
    BY <1>2 DEF Next
  <2>2. ASSUME NEW r \in Requests, Save(r) PROVE Inv'
    BY <2>1, <2>2, PostUserCustomConfKeeps, IsNotExistCreateFileKeeps, OpenFileKeeps,
       WriteErrorKeeps, SavedKeeps, PublishEventKeeps DEF Save
  <2>3. ASSUME NEW r \in Requests, Image(r) PROVE Inv'
    BY <2>1, <2>3, PutUserImageKeeps, StatImageKeeps, RemoveKeeps, OpenSourceKeeps, OpenFileKeeps,
       ImageWrittenKeeps, PostUserUploadImageKeeps, PutUserAvatarKeeps DEF Image
  <2> QED BY <1>2, <2>1, <2>2, <2>3, WriteChunkKeeps, DeletionsKeep, RestartKeeps DEF Next
<1> QED BY <1>1, <1>2

\* The inductive invariant holds in every state of the files of an account.
THEOREM UserFilesInvHolds == Spec => []Inv
BY InitInv, NextInv, PTL DEF Spec

\* The variables keep their types, a request has its file open exactly while it writes,
\* and a file that cannot be read any more counts as empty, for any number of requests,
\* configurations, images and texts.
THEOREM UserFilesTypeCorrect == Spec => []TypeOK
<1>1. Inv => TypeOK
  BY DEF Inv
<1> QED BY <1>1, UserFilesInvHolds, PTL

\* What the last request that had a name to itself answered for, a save, an upload, an
\* avatar, a copy or a deletion, is what every reader gets, whatever other requests,
\* errors of the disk and restarts came between the calls of the handlers and whatever
\* the file held before (file.go:95-168, user.go:531-751).
THEOREM AnsweredIsStoredHolds == Spec => []AnsweredIsStored
<1>1. Inv => AnsweredIsStored
  BY DEF Inv, StoredInv, AnsweredIsStored, GetUserCustomConf, GetUserImage, Names
<1> QED BY <1>1, UserFilesInvHolds, PTL

\* However any number of saves and deletions overlap, a configuration that nobody is
\* writing is one save whole, unless two of them had the same file open at once or a
\* writer was cut off (file.go:128-147).
THEOREM SettledConfIsWholeHolds == Spec => []SettledConfIsWhole
<1>1. Inv => SettledConfIsWhole
  BY DEF Inv, ConfInv, SettledConfIsWhole
<1> QED BY <1>1, UserFilesInvHolds, PTL

\* A save of the system configuration that is answered is the one the bus was last told
\* of, or the bus refused it, however many requests there are (user.go:550-566).
THEOREM AnsweredSaveIsAnnouncedHolds == Spec => []AnsweredSaveIsAnnounced
<1>1. Inv => AnsweredSaveIsAnnounced
  BY DEF Inv
<1> QED BY <1>1, UserFilesInvHolds, PTL

-----------------------------------------------------------------------------
(* The login style: what the requests that write it can be at.             *)

Put == [at : {"idle", "write", "rename"}, fd : Files \cup {NoFile}]

\* There is no file at first.
LEMMA StyleInitInv == StyleInit => StyleInv
<1> SUFFICES ASSUME StyleInit PROVE StyleInv
  OBVIOUS
<1>1. StyleTypeOK
  BY NoFileAssumption DEF StyleInit, StyleTypeOK, NoPut
<1>2. WriterApart
  BY DEF StyleInit, WriterApart, NoPut
<1>3. WholeSoon(path) /\ WholeSoon(tmp)
  BY DEF StyleInit, WholeSoon
<1> QED BY <1>1, <1>2, <1>3 DEF StyleInv

-----------------------------------------------------------------------------
(* The calls of a writer.                                                  *)

\* The temporary file is opened, and is empty.
LEMMA OpenTemporaryKeeps ==
    ASSUME StyleInv, NEW w \in Writers, OpenTemporary(w)
    PROVE  StyleInv'
<1>1. PICK f \in Files :
        /\ IF tmp = NoFile THEN f \notin StyleInUse ELSE f = tmp
        /\ tmp' = f /\ whole' = whole \ {f}
        /\ put' = [put EXCEPT ![w] = [at |-> "write", fd |-> f]]
  BY DEF OpenTemporary
<1>2. put[w].at = "idle" /\ overlap' = (overlap \/ \E v \in Writers : put[v] # NoPut)
      /\ UNCHANGED <<path, get, sawHalf, cutOff>>
  BY DEF OpenTemporary
<1>3. put \in [Writers -> Put] /\ f # NoFile
  BY NoFileAssumption DEF StyleInv, StyleTypeOK, Put
<1>4. put' \in [Writers -> Put] /\ put'[w].at = "write" /\ put'[w].fd = f
      /\ \A v \in Writers : v # w => put'[v] = put[v]
  BY <1>1, <1>3 DEF Put
<1>5. StyleTypeOK'
  <2>1. overlap' \in BOOLEAN
    BY <1>2 DEF StyleInv, StyleTypeOK
  <2>2. \A v \in Writers : put'[v].at = "write" <=> put'[v].fd # NoFile
    BY <1>3, <1>4 DEF StyleInv, StyleTypeOK
  <2>3. put' \in [Writers -> [at : {"idle", "write", "rename"}, fd : Files \cup {NoFile}]]
    BY <1>4 DEF Put
  <2> QED BY <1>1, <1>2, <2>1, <2>2, <2>3 DEF StyleInv, StyleTypeOK
<1>6. ASSUME ~overlap' PROVE WriterApart'
  <2>1. ~overlap /\ \A v \in Writers : put[v] = NoPut
    BY <1>2, <1>6
  <2>2. WriterApart
    BY <2>1 DEF StyleInv
  <2>3. \A v \in Writers : v # w => put'[v].at = "idle"
    BY <1>4, <2>1 DEF NoPut
  <2>4. path # NoFile => path \in whole /\ path # f
    BY <1>1, <2>2 DEF WriterApart, StyleInUse
  <2>5. \A r \in Readers : get[r] # NoFile => get[r] \in whole /\ get[r] # f
    BY <1>1, <2>2 DEF WriterApart, StyleInUse
  <2>6. ~sawHalf
    BY <2>2 DEF WriterApart
  <2>7. \A v \in Writers : put'[v].at # "rename" /\ (put'[v].at = "write" => put'[v].fd = tmp')
    BY <1>1, <1>4, <2>3
  <2> QED BY <1>1, <1>2, <1>4, <2>3, <2>4, <2>5, <2>6, <2>7 DEF WriterApart
<1>7. ASSUME ~cutOff PROVE WholeSoon(path)' /\ WholeSoon(tmp)'
  <2>1. WholeSoon(path)
    BY <1>7 DEF StyleInv
  <2>2. WholeSoon(tmp)'
    BY <1>1, <1>4 DEF WholeSoon
  <2>3. \A v \in Writers : put[v].fd # NoFile => v # w
    BY <1>2 DEF StyleInv, StyleTypeOK
  <2>4. WholeSoon(path)'
    <3>1. CASE path = NoFile \/ path = f
      BY <1>1, <1>2, <1>4, <3>1 DEF WholeSoon
    <3>2. CASE path \in whole /\ path # f
      BY <1>1, <1>2, <3>2 DEF WholeSoon
    <3>3. ASSUME path # NoFile, NEW v \in Writers, put[v].fd = path PROVE WholeSoon(path)'
      BY <1>2, <1>4, <2>3, <3>3 DEF WholeSoon
    <3> QED BY <2>1, <3>1, <3>2, <3>3 DEF WholeSoon
  <2> QED BY <2>2, <2>4
<1> QED BY <1>2, <1>5, <1>6, <1>7 DEF StyleInv

\* The text is written.
LEMMA WriteTemporaryKeeps ==
    ASSUME StyleInv, NEW w \in Writers, put[w].at = "write", whole' = whole \cup {put[w].fd},
           put' = [put EXCEPT ![w] = [at |-> "rename", fd |-> NoFile]],
           UNCHANGED <<path, tmp, get, sawHalf, overlap, cutOff>>
    PROVE  StyleInv'
<1>1. put \in [Writers -> Put] /\ put[w].fd \in Files
  BY DEF StyleInv, StyleTypeOK, Put
<1>2. put' \in [Writers -> Put] /\ put'[w].at = "rename" /\ put'[w].fd = NoFile
      /\ \A v \in Writers : v # w => put'[v] = put[v]
  BY <1>1 DEF Put
<1>3. StyleTypeOK'
  <2>1. \A v \in Writers : put'[v].at = "write" <=> put'[v].fd # NoFile
    BY <1>2 DEF StyleInv, StyleTypeOK
  <2>2. put' \in [Writers -> [at : {"idle", "write", "rename"}, fd : Files \cup {NoFile}]]
    BY <1>2 DEF Put
  <2> QED BY <1>1, <2>1, <2>2 DEF StyleInv, StyleTypeOK
<1>4. ASSUME ~overlap PROVE WriterApart'
  <2>1. WriterApart
    BY <1>4 DEF StyleInv
  <2>2. tmp = put[w].fd /\ \A v \in Writers : v # w => put[v].at = "idle"
    BY <2>1 DEF WriterApart
  <2>3. tmp' \in whole' /\ \A v \in Writers : v # w => put'[v].at = "idle"
    BY <1>2, <2>2
  <2>4. /\ ~sawHalf /\ (path # NoFile => path \in whole /\ path # tmp)
        /\ \A r \in Readers : get[r] # NoFile => get[r] \in whole /\ get[r] # tmp
    BY <2>1 DEF WriterApart
  <2> QED BY <1>2, <2>3, <2>4 DEF WriterApart
<1>5. ASSUME NEW f, WholeSoon(f) PROVE f = NoFile \/ f \in whole' \/ \E v \in Writers : put'[v].fd = f
  <2>1. ASSUME NEW v \in Writers, put[v].fd = f PROVE f \in whole' \/ put'[v].fd = f
    BY <1>2, <2>1
  <2> QED BY <1>5, <2>1 DEF WholeSoon
<1>6. ASSUME ~cutOff PROVE WholeSoon(path)' /\ WholeSoon(tmp)'
  <2>1. WholeSoon(path) /\ WholeSoon(tmp)
    BY <1>6 DEF StyleInv
  <2> QED BY <1>5, <2>1 DEF WholeSoon
<1> QED BY <1>3, <1>4, <1>6 DEF StyleInv

\* The text could not be written: the file stays under the temporary name.
LEMMA WriteFailedKeeps ==
    ASSUME StyleInv, NEW w \in Writers, put' = [put EXCEPT ![w] = NoPut], cutOff' = TRUE,
           UNCHANGED <<path, tmp, whole, get, sawHalf, overlap>>
    PROVE  StyleInv'
<1>1. put \in [Writers -> Put] /\ NoPut \in Put
  BY DEF StyleInv, StyleTypeOK, Put, NoPut
<1>2. put' \in [Writers -> Put] /\ put'[w].at = "idle" /\ put'[w].fd = NoFile
      /\ \A v \in Writers : v # w => put'[v] = put[v]
  BY <1>1 DEF Put, NoPut
<1>3. StyleTypeOK'
  <2>1. \A v \in Writers : put'[v].at = "write" <=> put'[v].fd # NoFile
    BY <1>2 DEF StyleInv, StyleTypeOK
  <2>2. put' \in [Writers -> [at : {"idle", "write", "rename"}, fd : Files \cup {NoFile}]]
    BY <1>2 DEF Put
  <2> QED BY <2>1, <2>2 DEF StyleInv, StyleTypeOK
<1>4. ASSUME ~overlap PROVE WriterApart'
  BY <1>2, <1>4 DEF StyleInv, WriterApart
<1> QED BY <1>3, <1>4 DEF StyleInv

\* What is under the temporary name is shown, or is removed.
LEMMA RenameTemporaryKeeps ==
    ASSUME StyleInv, NEW w \in Writers, RenameTemporary(w)
    PROVE  StyleInv'
<1>1. /\ put[w].at = "rename" /\ tmp' = NoFile /\ put' = [put EXCEPT ![w] = NoPut]
      /\ UNCHANGED <<whole, get, sawHalf, overlap, cutOff>>
      /\ path' = path \/ (tmp # NoFile /\ path' = tmp)
  BY DEF RenameTemporary
<1>2. put \in [Writers -> Put] /\ NoPut \in Put
  BY DEF StyleInv, StyleTypeOK, Put, NoPut
<1>3. put' \in [Writers -> Put] /\ put'[w].at = "idle" /\ put'[w].fd = NoFile
      /\ \A v \in Writers : v # w => put'[v] = put[v]
  BY <1>1, <1>2 DEF Put, NoPut
<1>4. StyleTypeOK'
  <2>1. \A v \in Writers : put'[v].at = "write" <=> put'[v].fd # NoFile
    BY <1>3 DEF StyleInv, StyleTypeOK
  <2>2. put' \in [Writers -> [at : {"idle", "write", "rename"}, fd : Files \cup {NoFile}]]
    BY <1>3 DEF Put
  <2> QED BY <1>1, <2>1, <2>2 DEF StyleInv, StyleTypeOK
<1>5. ASSUME ~overlap PROVE WriterApart'
  <2>1. WriterApart
    BY <1>1, <1>5 DEF StyleInv
  <2>2. tmp \in whole /\ whole \subseteq Files /\ \A v \in Writers : v # w => put[v].at = "idle"
    BY <1>1, <2>1 DEF WriterApart, StyleInv, StyleTypeOK
  <2>3. \A v \in Writers : put'[v].at = "idle"
    BY <1>3, <2>2
  <2>4. path' # NoFile => path' \in whole' /\ path' # tmp'
    BY <1>1, <2>1, <2>2 DEF WriterApart
  <2>5. ~sawHalf' /\ \A r \in Readers : get'[r] # NoFile => get'[r] \in whole' /\ get'[r] # tmp'
    BY <1>1, <2>1 DEF WriterApart
  <2> QED BY <2>3, <2>4, <2>5 DEF WriterApart
<1>6. \A v \in Writers : put'[v].fd = put[v].fd
  BY <1>1, <1>3 DEF StyleInv, StyleTypeOK
<1>7. ASSUME ~cutOff PROVE WholeSoon(path)' /\ WholeSoon(tmp)'
  <2>1. WholeSoon(path) /\ WholeSoon(tmp)
    BY <1>7 DEF StyleInv
  <2> QED BY <1>1, <1>6, <2>1 DEF WholeSoon
<1> QED BY <1>1, <1>4, <1>5, <1>7 DEF StyleInv

-----------------------------------------------------------------------------
(* The other steps.                                                        *)

\* The file is removed.
LEMMA RemoveStyleKeeps ==
    ASSUME StyleInv, RemoveStyle
    PROVE  StyleInv'
<1>1. path' = NoFile /\ UNCHANGED <<tmp, whole, put, get, sawHalf, overlap, cutOff>>
  BY DEF RemoveStyle
<1>2. StyleTypeOK'
  BY <1>1 DEF StyleInv, StyleTypeOK
<1>3. ASSUME ~overlap PROVE WriterApart'
  BY <1>1, <1>3 DEF StyleInv, WriterApart
<1>4. ASSUME ~cutOff PROVE WholeSoon(path)' /\ WholeSoon(tmp)'
  BY <1>1, <1>4 DEF StyleInv, WholeSoon
<1> QED BY <1>1, <1>2, <1>3, <1>4 DEF StyleInv

\* A reader opens what is shown, or reads what it has opened.
LEMMA ReaderKeeps ==
    ASSUME StyleInv, NEW r \in Readers, OpenStyle(r) \/ ReadStyle(r)
    PROVE  StyleInv'
<1>1. UNCHANGED <<path, tmp, whole, put, overlap, cutOff>>
  BY DEF OpenStyle, ReadStyle
<1>2. StyleTypeOK'
  <2>1. sawHalf' \in BOOLEAN
    BY DEF OpenStyle, ReadStyle, StyleInv, StyleTypeOK
  <2>2. get' \in [Readers -> Files \cup {NoFile}]
    BY DEF OpenStyle, ReadStyle, StyleInv, StyleTypeOK
  <2> QED BY <1>1, <2>1, <2>2 DEF StyleInv, StyleTypeOK
<1>3. ASSUME ~overlap PROVE WriterApart'
  <2>1. WriterApart
    BY <1>3 DEF StyleInv
  <2>2. ~sawHalf'
    BY <2>1 DEF WriterApart, OpenStyle, ReadStyle
  <2>3. \A q \in Readers : get'[q] # NoFile => get'[q] \in whole /\ get'[q] # tmp
    BY <2>1 DEF WriterApart, OpenStyle, ReadStyle, StyleInv, StyleTypeOK
  <2> QED BY <1>1, <2>1, <2>2, <2>3 DEF WriterApart
<1>4. ASSUME ~cutOff PROVE WholeSoon(path)' /\ WholeSoon(tmp)'
  BY <1>1, <1>4 DEF StyleInv, WholeSoon
<1> QED BY <1>1, <1>2, <1>3, <1>4 DEF StyleInv

\* The service ends: a writer that has the file open is cut off.
LEMMA StyleRestartKeeps ==
    ASSUME StyleInv, StyleRestart
    PROVE  StyleInv'
<1>1. /\ put' = [w \in Writers |-> NoPut] /\ get' = [r \in Readers |-> NoFile]
      /\ cutOff' = (cutOff \/ \E w \in Writers : put[w].at = "write")
      /\ UNCHANGED <<path, tmp, whole, sawHalf, overlap>>
  BY DEF StyleRestart
<1>2. StyleTypeOK'
  <2>1. cutOff' \in BOOLEAN
    BY <1>1 DEF StyleInv, StyleTypeOK
  <2>2. \A w \in Writers : put'[w].at = "write" <=> put'[w].fd # NoFile
    BY <1>1 DEF NoPut
  <2>3. put' \in [Writers -> [at : {"idle", "write", "rename"}, fd : Files \cup {NoFile}]]
    BY <1>1 DEF NoPut
  <2>4. get' \in [Readers -> Files \cup {NoFile}]
    BY <1>1
  <2> QED BY <1>1, <2>1, <2>2, <2>3, <2>4 DEF StyleInv, StyleTypeOK
<1>3. ASSUME ~overlap PROVE WriterApart'
  <2>1. WriterApart
    BY <1>3 DEF StyleInv
  <2> QED BY <1>1, <2>1 DEF WriterApart, NoPut
<1>4. ASSUME ~cutOff' PROVE WholeSoon(path)' /\ WholeSoon(tmp)'
  <2>1. ~cutOff /\ \A w \in Writers : put[w].fd = NoFile
    BY <1>1, <1>4 DEF StyleInv, StyleTypeOK
  <2>2. WholeSoon(path) /\ WholeSoon(tmp)
    BY <2>1 DEF StyleInv
  <2> QED BY <1>1, <2>1, <2>2 DEF WholeSoon
<1> QED BY <1>1, <1>2, <1>3, <1>4 DEF StyleInv

\* Every step keeps the invariant.
LEMMA StyleNextInv == StyleInv /\ [StyleNext]_styleVars => StyleInv'
<1> SUFFICES ASSUME StyleInv, [StyleNext]_styleVars PROVE StyleInv'
  OBVIOUS
<1>1. CASE UNCHANGED styleVars
  BY <1>1 DEF styleVars, StyleInv, StyleTypeOK, WriterApart, WholeSoon
<1>2. ASSUME NEW w \in Writers, OpenTemporary(w) PROVE StyleInv'
  BY <1>2, OpenTemporaryKeeps
<1>3. ASSUME NEW w \in Writers, WriteTemporary(w) PROVE StyleInv'
  BY <1>3, WriteTemporaryKeeps, WriteFailedKeeps DEF WriteTemporary
<1>4. ASSUME NEW w \in Writers, RenameTemporary(w) PROVE StyleInv'
  BY <1>4, RenameTemporaryKeeps
<1>5. CASE RemoveStyle
  BY <1>5, RemoveStyleKeeps
<1>6. ASSUME NEW r \in Readers, OpenStyle(r) \/ ReadStyle(r) PROVE StyleInv'
  BY <1>6, ReaderKeeps
<1>7. CASE StyleRestart
  BY <1>7, StyleRestartKeeps
<1> QED BY <1>1, <1>2, <1>3, <1>4, <1>5, <1>6, <1>7 DEF StyleNext, PutBeta

-----------------------------------------------------------------------------
\* The variables keep their types, and a writer that writes has the file open.
THEOREM LoginStyleTypeCorrect == StyleSpec => []StyleTypeOK
<1>1. StyleInv => StyleTypeOK
  BY DEF StyleInv
<1> QED BY <1>1, StyleInitInv, StyleNextInv, PTL DEF StyleSpec

\* However many requests there are, a reader sees half a file only after two that chose
\* beta overlapped (login_style.go:49-57).
THEOREM HalfOnlyInOverlapHolds == StyleSpec => []HalfOnlyInOverlap
<1>1. StyleInv => HalfOnlyInOverlap
  BY DEF StyleInv, WriterApart, HalfOnlyInOverlap
<1> QED BY <1>1, StyleInitInv, StyleNextInv, PTL DEF StyleSpec

\* However they overlapped, the file is whole or absent once they have answered, if each
\* could write its text (login_style.go:49-57).
THEOREM SettledFileIsWholeHolds == StyleSpec => []SettledFileIsWhole
<1>1. StyleInv => SettledFileIsWhole
  BY DEF StyleInv, StyleTypeOK, WholeSoon, SettledFileIsWhole
<1> QED BY <1>1, StyleInitInv, StyleNextInv, PTL DEF StyleSpec

=============================================================================
