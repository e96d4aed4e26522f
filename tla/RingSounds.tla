------------------------------ MODULE RingSounds ------------------------------
(***************************************************************************)
(* The ring sounds webd keeps (web_server.cpp): the sounds uploaded, the   *)
(* name of the selected one in selected.txt, and ring.wav, the sound the   *)
(* chime daemon plays.  The first two are on /data, ring.wav is part of    *)
(* the root file system, so it goes with the firmware's slot.              *)
(*                                                                         *)
(* webd serves one request at a time; file and selected are what it reads, *)
(* disk and selectedDisk what the cards hold.  A sound gets its name by a  *)
(* rename of a temporary file, which nobody else reads and which the next  *)
(* request that needs it empties first: it is a part of the request.       *)
(***************************************************************************)
EXTENDS Naturals

CONSTANTS Sounds,        \* file names IsSafeSoundName accepts
          UnsafeNames,   \* and others a request may carry
          DefaultSound,  \* kDefaultRingSoundName
          Recordings,    \* contents that begin like a wav file
          Factory,       \* ring.wav of a new firmware
          Missing, Torn, \* no such file; a file cut short by a power cut
          NoName

ASSUME SoundsAssumption ==
  /\ DefaultSound \in Sounds /\ Factory \in Recordings
  /\ Missing \notin Recordings /\ Torn \notin Recordings /\ Missing # Torn
  /\ NoName \notin Sounds \cup UnsafeNames
  /\ Sounds \cap UnsafeNames = {} /\ "ring.wav" \notin Sounds

VARIABLES file, disk, selected, selectedDisk,
          request,   \* the request webd is in the middle of
          excused    \* history: why the selection may differ from ring.wav

soundVars == <<file, disk, selected, selectedDisk, request, excused>>

Files == Sounds \cup {"ring.wav"}

(* A request that writes the given sound, and one that writes none.        *)
Writing(op, name, sound) ==
  [op |-> op, name |-> name, step |-> "write", sound |-> sound, temp |-> Torn]
NotWriting(op, name) ==
  [op |-> op, name |-> name, step |-> "none", sound |-> Missing, temp |-> Missing]
Idle == NotWriting("idle", NoName)

SoundsInit ==
  /\ file = [f \in Files |-> IF f = "ring.wav" THEN Factory ELSE Missing]
  /\ disk = file
  /\ selected = NoName /\ selectedDisk = NoName
  /\ request = Idle
  /\ excused = FALSE

IsSafeSoundName(n) == n \in Sounds

-----------------------------------------------------------------------------
(* GET: a default sound that is missing is made from ring.wav ...          *)
TrySeedDefaultRingSound ==
  /\ request = Idle
  /\ request' = IF file["ring.wav"] # Missing /\ file[DefaultSound] = Missing
                THEN Writing("seed", DefaultSound, file["ring.wav"])
                ELSE NotWriting("list", NoName)
  /\ UNCHANGED <<file, disk, selected, selectedDisk, excused>>

(* ... then a selection that is not among the sounds found is cleared, if  *)
(* possible. When the directory cannot be gone through, none is found.     *)
HandleGetRingSounds ==
  /\ request.op = "list"
  /\ \E found \in SUBSET {f \in Sounds : file[f] # Missing} :
       selected' \in IF selected \in found THEN {selected} ELSE {selected, NoName}
  /\ request' = Idle
  /\ UNCHANGED <<file, disk, selectedDisk, excused>>

HandleUploadRingSound(n, c) ==
  /\ request = Idle
  /\ IsSafeSoundName(n) /\ c \in Recordings
  /\ request' = Writing("upload", n, c)
  /\ UNCHANGED <<file, disk, selected, selectedDisk, excused>>

(* Select: first ring.wav is replaced by a copy ...                        *)
HandleSelectRingSound(n) ==
  /\ request = Idle
  /\ IsSafeSoundName(n) /\ file[n] # Missing
  /\ request' = Writing("select", n, file[n])
  /\ UNCHANGED <<file, disk, selected, selectedDisk, excused>>

(* An error answer; the seeding is not worth one.                          *)
Failed == IF request.op = "seed" THEN NotWriting("list", NoName) ELSE Idle

(* mutant: nobody looks whether an upload could be written                 *)
WriteUnchecked ==
  /\ request.step = "write"
  /\ \/ request' = [request EXCEPT !.step = "rename", !.temp = request.sound]
     \/ request.op = "upload" /\ request' = [request EXCEPT !.step = "rename"]
     \/ request.op # "upload" /\ request' = Failed
  /\ UNCHANGED <<file, disk, selected, selectedDisk, excused>>

(* The temporary file is written, or cannot be opened or written.          *)
WriteTemp ==
  /\ request.step = "write"
  /\ \/ request' = [request EXCEPT !.step = "rename", !.temp = request.sound]
     \/ request' = Failed
  /\ UNCHANGED <<file, disk, selected, selectedDisk, excused>>

Target == IF request.op = "select" THEN "ring.wav" ELSE request.name

Renamed == IF request.op = "select" THEN NotWriting("persist", request.name) ELSE Failed

(* mutant: a ring.wav that cannot be replaced goes unnoticed               *)
RenameUnchecked ==
  /\ request.step = "rename"
  /\ \/ /\ file' = [file EXCEPT ![Target] = request.temp]
        /\ excused' = (excused \/ (request.op = "upload" /\ request.name = selected))
     \/ UNCHANGED <<file, excused>>
  /\ request' = Renamed
  /\ UNCHANGED <<disk, selected, selectedDisk>>

(* It takes the place of the sound, or cannot.                             *)
RenameTemp ==
  /\ request.step = "rename"
  /\ \/ /\ file' = [file EXCEPT ![Target] = request.temp]
        /\ excused' = (excused \/ (request.op = "upload" /\ request.name = selected))
        /\ request' = Renamed
     \/ request' = Failed /\ UNCHANGED <<file, excused>>
  /\ UNCHANGED <<disk, selected, selectedDisk>>

(* ... then selected.txt; a failure is answered selection_persisted=false. *)
PersistSelection ==
  /\ request.op = "persist"
  /\ \/ selected' = request.name /\ excused' = FALSE
     \/ selected' = selected /\ excused' = TRUE
  /\ request' = Idle
  /\ UNCHANGED <<file, disk, selectedDisk>>

-----------------------------------------------------------------------------
WebdEnds ==
  /\ request # Idle
  /\ request' = Idle
  /\ excused' = (excused \/ request.op = "persist")
  /\ UNCHANGED <<file, disk, selected, selectedDisk>>

(* The kernel writes back in any order.                                    *)
SoundsWriteBack ==
  /\ \/ \E f \in Files : disk' = [disk EXCEPT ![f] = file[f]] /\ UNCHANGED selectedDisk
     \/ selectedDisk' = selected /\ UNCHANGED disk
  /\ UNCHANGED <<file, selected, request, excused>>

(* After a cut a file that was not written back is the old one, the new    *)
(* one or an incomplete one. selected.txt was synced before its rename, so *)
(* it is whole.                                                            *)
SoundsPowerCut ==
  /\ file' \in {g \in [Files -> Recordings \cup {Missing, Torn}] :
        \A f \in Files : \/ g[f] = disk[f]
                         \/ file[f] # disk[f] /\ g[f] \in {file[f], Torn}}
  /\ selected' \in {selected, selectedDisk}
  /\ disk' = file' /\ selectedDisk' = selected'
  /\ request' = Idle
  /\ excused' = (excused \/ request.op = "persist" \/ file # disk \/ selected # selectedDisk)

(* The next boot takes the other slot, whose ring.wav is its own.          *)
FirmwareBoot ==
  /\ request = Idle /\ file = disk /\ selected = selectedDisk
  /\ \E c \in Recordings : file' = [file EXCEPT !["ring.wav"] = c]
  /\ disk' = file'
  /\ excused' = TRUE
  /\ UNCHANGED <<selected, selectedDisk, request>>

SoundsNext ==
  \/ TrySeedDefaultRingSound \/ HandleGetRingSounds
  \/ \E n \in Sounds \cup UnsafeNames, c \in Recordings : HandleUploadRingSound(n, c)
  \/ \E n \in Sounds \cup UnsafeNames : HandleSelectRingSound(n)
  \/ WriteTemp \/ RenameTemp \/ PersistSelection
  \/ WebdEnds \/ SoundsWriteBack \/ SoundsPowerCut \/ FirmwareBoot

SoundsSpec == SoundsInit /\ [][SoundsNext]_soundVars

-----------------------------------------------------------------------------
(* Every file holds a sound or what a cut left of one.                     *)
SoundsTypeOK ==
  /\ file \in [Files -> Recordings \cup {Missing, Torn}]
  /\ disk \in [Files -> Recordings \cup {Missing, Torn}]
  /\ selected \in Sounds \cup {NoName} /\ selectedDisk \in Sounds \cup {NoName}
  /\ request \in [op : {"idle", "list", "seed", "upload", "select", "persist"},
                  name : Sounds \cup {NoName}, step : {"none", "write", "rename"},
                  sound : Recordings \cup {Missing, Torn},
                  temp : Recordings \cup {Missing, Torn}]
  /\ excused \in BOOLEAN

(* Between two requests the sound selected.txt names is the one the chime  *)
(* plays, unless the last selection was answered as not persisted, webd    *)
(* ended inside it, the selected sound was uploaded anew, or the power was *)
(* cut or the firmware changed since (web_server.cpp:1476-1517).           *)
SelectionHonest ==
  request = Idle /\ selected # NoName /\ ~excused => file[selected] = file["ring.wav"]

(* No sound is torn but by a power cut, or from a torn one: a copy or an   *)
(* upload that is cut short, by a full disk or by an end of webd at any    *)
(* point of it, never gets a name the chime or a later copy reads          *)
(* (web_server.cpp:132-177, 1391-1415, 1468-1483).                         *)
TornOnlyByCut ==
  [][ (\E f \in Files : file'[f] = Torn) =>
        SoundsPowerCut \/ \E g \in Files : file[g] = Torn ]_soundVars

=============================================================================
