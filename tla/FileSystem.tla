---------------------------- MODULE FileSystem ----------------------------
(* The files that LoginStyle and UserFiles speak of: names and open       *)
(* descriptors refer to one, or to none.                                  *)

CONSTANTS
    Files,          \* files that can exist at a time
    NoFile

ASSUME NoFileAssumption == NoFile \notin Files

=============================================================================
