----------------------------- MODULE LoginStyle -----------------------------
(***************************************************************************)
(* The file that says which login page the box shows (login_style.go):     *)
(* PUT /v1/users/login-style replaces or removes it, GET /v1/users/status  *)
(* reads it.  Beta is written to a file beside and renamed; all requests   *)
(* use the same name for that file.                                        *)
(*                                                                         *)
(* A step is one call of the file system.  A name refers to a file; a file *)
(* that is open stays what it is when its name goes to another.            *)
(***************************************************************************)
EXTENDS FileSystem

CONSTANTS
    Writers,        \* PUT requests that choose beta
    Removers,       \* PUT requests that choose classic
    Readers         \* status requests

VARIABLES
    path,           \* the file named login-style
    tmp,            \* the file named login-style.new
    whole,          \* the files that hold the whole text "beta"; the others are empty
    put,            \* where a writer is, and the file it has open
    get,            \* the file a reader has open
    \* What happened, for the properties:
    sawHalf,        \* a reader read a file that was not whole
    overlap,        \* two writers were under way at once
    cutOff          \* a writer was stopped, or could not write its text

styleVars == <<path, tmp, whole, put, get, sawHalf, overlap, cutOff>>

NoPut == [at |-> "idle", fd |-> NoFile]

StyleInUse == {path, tmp} \cup {put[w].fd : w \in Writers} \cup {get[r] : r \in Readers}

-----------------------------------------------------------------------------
(* setLoginStyle("beta"): os.WriteFile opens the temporary file ...        *)

\* A write to the file itself.
Bug_OpenTemporary(w) ==
    /\ put[w].at = "idle"
    /\ \E f \in Files :
        /\ IF path = NoFile THEN f \notin StyleInUse ELSE f = path
        /\ path' = f /\ tmp' = f /\ whole' = whole \ {f}
        /\ put' = [put EXCEPT ![w] = [at |-> "write", fd |-> f]]
    /\ overlap' = (overlap \/ \E v \in Writers : put[v] # NoPut)
    /\ UNCHANGED <<get, sawHalf, cutOff>>

OpenTemporary(w) ==
    /\ put[w].at = "idle"
    /\ \E f \in Files :
        /\ IF tmp = NoFile THEN f \notin StyleInUse ELSE f = tmp
        /\ tmp' = f /\ whole' = whole \ {f}
        /\ put' = [put EXCEPT ![w] = [at |-> "write", fd |-> f]]
    /\ overlap' = (overlap \/ \E v \in Writers : put[v] # NoPut)
    /\ UNCHANGED <<path, get, sawHalf, cutOff>>

\* A file that stays open after it is written.
Bug_WriteTemporary(w) ==
    /\ put[w].at = "write"
    /\ whole' = whole \cup {put[w].fd}
    /\ put' = [put EXCEPT ![w].at = "rename"]
    /\ UNCHANGED <<path, tmp, get, sawHalf, overlap, cutOff>>

\* ... and writes it; after an error the file stays as it is ...
WriteTemporary(w) ==
    /\ put[w].at = "write"
    /\ \/ /\ whole' = whole \cup {put[w].fd}
          /\ put' = [put EXCEPT ![w] = [at |-> "rename", fd |-> NoFile]]
          /\ UNCHANGED cutOff
       \/ /\ put' = [put EXCEPT ![w] = NoPut]
          /\ cutOff' = TRUE
          /\ UNCHANGED whole
    /\ UNCHANGED <<path, tmp, get, sawHalf, overlap>>

\* ... and os.Rename moves what is under that name now.  When it fails, with
\* nothing under the name for one, the name is removed.
RenameTemporary(w) ==
    /\ put[w].at = "rename"
    /\ path' \in (IF tmp = NoFile THEN {path} ELSE {path, tmp})
    /\ tmp' = NoFile
    /\ put' = [put EXCEPT ![w] = NoPut]
    /\ UNCHANGED <<whole, get, sawHalf, overlap, cutOff>>

\* A classic that empties the file.
Bug_RemoveStyle ==
    /\ path # NoFile /\ whole' = whole \ {path}
    /\ UNCHANGED <<path, tmp, put, get, sawHalf, overlap, cutOff>>

\* setLoginStyle("classic").
RemoveStyle ==
    /\ path' = NoFile
    /\ UNCHANGED <<tmp, whole, put, get, sawHalf, overlap, cutOff>>

\* LoginStyle: the file is opened ...
OpenStyle(r) ==
    /\ get[r] = NoFile /\ path # NoFile
    /\ get' = [get EXCEPT ![r] = path]
    /\ UNCHANGED <<path, tmp, whole, put, sawHalf, overlap, cutOff>>

\* ... and read: beta if it is whole, else classic.
ReadStyle(r) ==
    /\ get[r] # NoFile
    /\ get' = [get EXCEPT ![r] = NoFile]
    /\ sawHalf' = (sawHalf \/ get[r] \notin whole)
    /\ UNCHANGED <<path, tmp, whole, put, overlap, cutOff>>

\* The service ends and starts.
StyleRestart ==
    /\ put' = [w \in Writers |-> NoPut]
    /\ get' = [r \in Readers |-> NoFile]
    /\ cutOff' = (cutOff \/ \E w \in Writers : put[w].at = "write")
    /\ UNCHANGED <<path, tmp, whole, sawHalf, overlap>>

StyleInit ==
    /\ path = NoFile /\ tmp = NoFile /\ whole = {}
    /\ put = [w \in Writers |-> NoPut]
    /\ get = [r \in Readers |-> NoFile]
    /\ sawHalf = FALSE /\ overlap = FALSE /\ cutOff = FALSE

PutBeta(w) == OpenTemporary(w) \/ WriteTemporary(w) \/ RenameTemporary(w)

StyleNext ==
    \/ \E w \in Writers : PutBeta(w)
    \/ \E r \in Removers : RemoveStyle
    \/ \E r \in Readers : OpenStyle(r) \/ ReadStyle(r)
    \/ StyleRestart

StyleSpec == StyleInit /\ [][StyleNext]_styleVars

-----------------------------------------------------------------------------
(* Properties.                                                             *)

\* The variables have the types the code gives them; a writer that writes has the
\* file open.
StyleTypeOK ==
    /\ path \in Files \cup {NoFile}
    /\ tmp \in Files \cup {NoFile}
    /\ whole \subseteq Files
    /\ put \in [Writers -> [at : {"idle", "write", "rename"}, fd : Files \cup {NoFile}]]
    /\ \A w \in Writers : put[w].at = "write" <=> put[w].fd # NoFile
    /\ get \in [Readers -> Files \cup {NoFile}]
    /\ sawHalf \in BOOLEAN
    /\ overlap \in BOOLEAN
    /\ cutOff \in BOOLEAN

\* A reader sees half a file only after two requests that chose beta overlapped:
\* one after the other keeps it whole for every reader, whatever restart, error of
\* the disk or removal comes between the calls (login_style.go:49-57).
HalfOnlyInOverlap == sawHalf => overlap

\* Once the requests that chose beta have answered, the file is whole or absent,
\* however they overlapped, if each could write its text: an emptied file that one
\* of them renamed is filled by the other (login_style.go:49-57).
SettledFileIsWhole ==
    ~cutOff /\ (\A w \in Writers : put[w].at # "write") => path = NoFile \/ path \in whole

-----------------------------------------------------------------------------
(* The inductive invariant behind the two properties.                      *)

\* As long as no two writers overlapped, one at most is under way, and the file under
\* the temporary name is its own: neither the file shown nor one a reader has open.
WriterApart ==
    /\ ~sawHalf
    /\ \A v, w \in Writers : put[v].at # "idle" /\ put[w].at # "idle" => v = w
    /\ \A w \in Writers : /\ put[w].at = "write" => put[w].fd = tmp
                          /\ put[w].at = "rename" => tmp \in whole
    /\ path # NoFile => path \in whole /\ path # tmp
    /\ \A r \in Readers : get[r] # NoFile => get[r] \in whole /\ get[r] # tmp

\* A file is whole, or somebody is about to write it.
WholeSoon(f) == f = NoFile \/ f \in whole \/ \E w \in Writers : put[w].fd = f

StyleInv ==
    /\ StyleTypeOK
    /\ ~overlap => WriterApart
    /\ ~cutOff => WholeSoon(path) /\ WholeSoon(tmp)

=============================================================================
