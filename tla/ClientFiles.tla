----------------------------- MODULE ClientFiles -----------------------------
(***************************************************************************)
(* The files of the configuration directory: the identity (crypto.rs),     *)
(* the remembered hosts (hosts.rs) and the settings (settings.rs), as the  *)
(* workers and the window of the application use them (ui.rs).             *)
(*                                                                         *)
(* Nothing locks a file.  Every test for existence and every read is a     *)
(* step; a write is two, one that creates or empties the file and one that *)
(* fills it, and each may fail.  A file that is filled in parts can be     *)
(* read in between; what is read then is refused like an empty file, but   *)
(* for unique_id: any piece of it is an id.  The process may end between   *)
(* any two steps and be started again.  Workers overlap: a connect that is *)
(* under way can be followed by another once the host field was emptied in *)
(* between.                                                                *)
(***************************************************************************)
EXTENDS Naturals, FiniteSets

CONSTANTS
  Worker, Identity, Host, Setting,
  Default,                \* ClientSettings::default
  None,                   \* no host
  Absent, Empty, Torn     \* a file that is missing, cut to nothing, or unreadable

Damage == {Empty, Torn}

(* client.pem, key.pem and unique_id, in the order they are written.       *)
Part == 1 .. 3
Piece(i) == <<i>>  \* the unique_id of i cut short
Pieces == {Piece(i) : i \in Identity}
Content == Identity \cup Pieces \cup {Absent, Empty, Torn}
Triple == [Part -> Content]

(* What hosts.json says; its order does not matter here.                   *)
Document == [hosts : SUBSET Host, last : Host \cup {None}]
NoHosts == [hosts |-> {}, last |-> None]

ASSUME FilesAssumption ==
  /\ Default \in Setting
  /\ None \notin Host
  /\ Absent \notin Damage
  /\ ({Absent} \cup Damage) \cap (Identity \cup Pieces \cup Setting \cup Document) = {}
  /\ Identity \cap Pieces = {}

VARIABLES
  file,       \* the identity's three files
  hostsFile,  \* hosts.json
  settings,   \* settings.json
  pc,         \* what each worker does
  at,         \* the part it has got to
  seen,       \* what it has found, read or generated
  goal,       \* the host it connects to
  doc,        \* the hosts it will save
  shown,      \* swap_ab and bitrate_mbps as the settings page shows them
  applied,    \* what the controllers use
  trouble,    \* settings_error is not empty
  made,       \* identities generated so far
  used,       \* identities handed to callers so far
  kept,       \* hosts saved so far, and the latest of them
  raced,      \* a worker created or was given an identity while another created one
  crowded     \* two workers have been about to save hosts at once

worker == <<pc, at, seen, goal, doc>>
identity == <<file, made, used>>
history == <<hostsFile, kept>>
preferences == <<settings, shown, applied, trouble>>
vars == <<worker, identity, history, preferences, raced, crowded>>

Creating == {"open", "fill"}
Saving == {"openHosts", "fillHosts"}
Phase == {"off", "check", "read", "connect", "loadHosts"} \cup Creating \cup Saving

IdentityTypes ==
  /\ file \in Triple
  /\ pc \in [Worker -> Phase]
  /\ at \in [Worker -> Part]
  /\ seen \in [Worker -> Triple]
  /\ made \subseteq Identity
  /\ used \subseteq Triple
  /\ raced \in BOOLEAN

HistoryTypes ==
  /\ hostsFile \in Document \cup {Absent, Empty, Torn}
  /\ goal \in [Worker -> Host \cup {None}]
  /\ \A w \in Worker : (goal[w] = None) <=> (pc[w] = "off")
  /\ doc \in [Worker -> Document]
  /\ kept \in Document
  /\ crowded \in BOOLEAN

PreferenceTypes ==
  /\ settings \in Setting \cup {Absent, Torn}
  /\ shown \in Setting
  /\ applied \in Setting
  /\ trouble \in BOOLEAN

TypeOK == IdentityTypes /\ HistoryTypes /\ PreferenceTypes

Nothing == [p \in Part |-> Absent]

Init ==
  /\ file = Nothing
  /\ hostsFile = Absent
  /\ settings = Absent
  /\ pc = [w \in Worker |-> "off"]
  /\ at = [w \in Worker |-> 1]
  /\ seen = [w \in Worker |-> Nothing]
  /\ goal = [w \in Worker |-> None]
  /\ doc = [w \in Worker |-> NoHosts]
  /\ shown = Default /\ applied = Default /\ trouble = FALSE
  /\ made = {} /\ used = {} /\ kept = NoHosts
  /\ raced = FALSE /\ crowded = FALSE

(* A write fills the file that it emptied; when another write has filled   *)
(* it since, what is longer of the two sticks out.                         *)
Written(old, new) == IF old = Empty THEN {new} ELSE {new, Torn}

(* A write that fails leaves the file as it found it, or cut short.        *)
Cut(old) == {old, Torn}

(* The worker returns: its locals are gone.                                *)
Return(w) ==
  /\ pc' = [pc EXCEPT ![w] = "off"]
  /\ at' = [at EXCEPT ![w] = 1]
  /\ seen' = [seen EXCEPT ![w] = Nothing]
  /\ goal' = [goal EXCEPT ![w] = None]
  /\ doc' = [doc EXCEPT ![w] = NoHosts]

-----------------------------------------------------------------------------
(* The identity: ClientIdentity::load_or_create                            *)

(* A worker that connects, from the page or when the application starts.   *)
(* Workers that start or quit an application go no further than a          *)
(* connection that fails.                                                  *)
Begin(w, h) ==
  /\ pc[w] = "off"
  /\ pc' = [pc EXCEPT ![w] = "check"]
  /\ goal' = [goal EXCEPT ![w] = h]
  /\ UNCHANGED <<at, seen, doc, identity, history, preferences>>

Check(w) ==
  /\ pc[w] = "check" /\ at[w] < 3
  /\ seen' = [seen EXCEPT ![w][at[w]] = file[at[w]]]
  /\ at' = [at EXCEPT ![w] = @ + 1]
  /\ UNCHANGED <<pc, goal, doc, identity, history, preferences>>

(* The third test decides: all exist, some do, or none does.               *)
Exist(w) == {p \in 1 .. 2 : seen[w][p] # Absent} \cup {p \in {3} : file[p] # Absent}

AllExist(w) ==
  /\ pc[w] = "check" /\ at[w] = 3
  /\ Exist(w) = Part
  /\ pc' = [pc EXCEPT ![w] = "read"]
  /\ at' = [at EXCEPT ![w] = 1]
  /\ seen' = [seen EXCEPT ![w] = Nothing]
  /\ UNCHANGED <<goal, doc, identity, history, preferences>>

Incomplete(w) ==
  /\ pc[w] = "check" /\ at[w] = 3
  /\ Exist(w) \notin {{}, Part}
  /\ Return(w)
  /\ UNCHANGED <<identity, history, preferences>>

Generate(w) ==
  /\ pc[w] = "check" /\ at[w] = 3
  /\ Exist(w) = {}
  /\ \E i \in Identity \ made :
       /\ made' = made \cup {i}
       /\ seen' = [seen EXCEPT ![w] = [p \in Part |-> i]]
  /\ pc' = [pc EXCEPT ![w] = "open"]
  /\ at' = [at EXCEPT ![w] = 1]
  /\ UNCHANGED <<file, used, goal, doc, history, preferences>>

(* fs::write creates the file or cuts it to nothing ...                    *)
OpenPart(w) ==
  /\ pc[w] = "open"
  /\ file' = [file EXCEPT ![at[w]] = Empty]
  /\ pc' = [pc EXCEPT ![w] = "fill"]
  /\ UNCHANGED <<at, seen, goal, doc, made, used, history, preferences>>

(* The worker alone has written the part, as far as anything is written.   *)
OwnSoFar(w) == file[at[w]] \in {Empty, Piece(seen[w][at[w]])}

(* A write that is not finished: an id cut short, or a mix of two writes.  *)
Unfinished(w) == IF at[w] = 3 /\ OwnSoFar(w) THEN Piece(seen[w][3]) ELSE Torn

(* Some bytes of unique_id are written, but not yet the whole id.          *)
FillSome(w) ==
  /\ pc[w] = "fill" /\ at[w] = 3
  /\ file' = [file EXCEPT ![3] = Unfinished(w)]
  /\ UNCHANGED <<worker, made, used, history, preferences>>

(* ... and fills it.  After the third part the identity is the caller's.   *)
FillPart(w) ==
  /\ pc[w] = "fill"
  /\ \E c \in IF OwnSoFar(w) THEN {seen[w][at[w]]}
                            ELSE Written(file[at[w]], seen[w][at[w]]) :
       file' = [file EXCEPT ![at[w]] = c]
  /\ IF at[w] < 3
     THEN /\ pc' = [pc EXCEPT ![w] = "open"]
          /\ at' = [at EXCEPT ![w] = @ + 1]
          /\ UNCHANGED <<seen, used>>
     ELSE /\ pc' = [pc EXCEPT ![w] = "connect"]
          /\ at' = [at EXCEPT ![w] = 1]
          /\ seen' = [seen EXCEPT ![w] = Nothing]
          /\ used' = used \cup {seen[w]}
  /\ UNCHANGED <<goal, doc, made, history, preferences>>

Read(w) ==
  /\ pc[w] = "read" /\ at[w] < 3
  /\ seen' = [seen EXCEPT ![w][at[w]] = file[at[w]]]
  /\ at' = [at EXCEPT ![w] = @ + 1]
  /\ UNCHANGED <<pc, goal, doc, identity, history, preferences>>

(* Mutant: the key is not compared with that of the certificate.           *)
FromPemAnyKey(t) == t[1] \in Identity /\ t[2] \in Identity /\ t[3] # Empty

(* from_pem: an identity is readable, its key is that of its certificate,  *)
(* and its unique_id is some hexadecimal string that is not empty.  It     *)
(* need not be whole, and a mix of two writes may be one.                  *)
FromPem(t) == t[1] \in Identity /\ t[2] = t[1] /\ t[3] # Empty

ReadLast(w) ==
  /\ pc[w] = "read" /\ at[w] = 3
  /\ LET t == [seen[w] EXCEPT ![3] = file[3]]
     IN  \/ /\ FromPem(t)
            /\ used' = used \cup {t}
            /\ pc' = [pc EXCEPT ![w] = "connect"]
            /\ at' = [at EXCEPT ![w] = 1]
            /\ seen' = [seen EXCEPT ![w] = Nothing]
            /\ UNCHANGED <<goal, doc>>
         \/ /\ ~FromPem(t) \/ t[3] = Torn
            /\ Return(w)
            /\ UNCHANGED used
  /\ UNCHANGED <<file, made, history, preferences>>

(* A write of the identity fails; what it has done so far stays, and that  *)
(* may be all but a newline.                                               *)
CreateFails(w) ==
  /\ pc[w] \in Creating
  /\ \E c \in IF pc[w] = "open" THEN {file[at[w]]}
                                 ELSE {file[at[w]], Unfinished(w), seen[w][at[w]]} :
       file' = [file EXCEPT ![at[w]] = c]
  /\ Return(w)
  /\ UNCHANGED <<made, used, history, preferences>>

-----------------------------------------------------------------------------
(* The hosts: SavedHosts, as remember_connected_host uses it               *)

(* The exchanges with the host; only a connection that succeeded is        *)
(* remembered.                                                             *)
Connected(w) ==
  /\ pc[w] = "connect"
  /\ pc' = [pc EXCEPT ![w] = "loadHosts"]
  /\ UNCHANGED <<at, seen, goal, doc, identity, history, preferences>>

CallEnds(w) ==
  /\ pc[w] = "connect"
  /\ Return(w)
  /\ UNCHANGED <<identity, history, preferences>>

(* Mutant: a file that cannot be read is no file.                          *)
LoadedForgiving == IF hostsFile \in {Absent, Empty, Torn} THEN {NoHosts} ELSE {hostsFile}

(* load_from: no file is no hosts, a file that cannot be read is an error. *)
Loaded ==
  IF hostsFile = Absent THEN {NoHosts}
  ELSE IF hostsFile \in Damage THEN {}
  ELSE {hostsFile}

Remember(d, h) == [hosts |-> d.hosts \cup {h}, last |-> h]

LoadHosts(w) ==
  /\ pc[w] = "loadHosts"
  /\ \E d \in Loaded : doc' = [doc EXCEPT ![w] = Remember(d, goal[w])]
  /\ pc' = [pc EXCEPT ![w] = "openHosts"]
  /\ UNCHANGED <<at, seen, goal, identity, history, preferences>>

LoadHostsFails(w) ==
  /\ pc[w] = "loadHosts"
  /\ Loaded = {}
  /\ Return(w)
  /\ UNCHANGED <<identity, history, preferences>>

OpenHosts(w) ==
  /\ pc[w] = "openHosts"
  /\ hostsFile' = Empty
  /\ pc' = [pc EXCEPT ![w] = "fillHosts"]
  /\ UNCHANGED <<at, seen, goal, doc, kept, identity, preferences>>

FillHosts(w) ==
  /\ pc[w] = "fillHosts"
  /\ hostsFile' \in Written(hostsFile, doc[w])
  /\ kept' = Remember(kept, goal[w])
  /\ Return(w)
  /\ UNCHANGED <<identity, preferences>>

SaveHostsFails(w) ==
  /\ pc[w] \in Saving
  /\ hostsFile' \in IF pc[w] = "openHosts" THEN {hostsFile} ELSE Cut(hostsFile)
  /\ Return(w)
  /\ UNCHANGED <<kept, identity, preferences>>

-----------------------------------------------------------------------------
(* The settings: ClientSettings, toggle_swap_ab and set_bitrate_mbps       *)
(* The window's thread saves them; nobody else reads or writes the file.   *)

SaveSettings(s) ==
  /\ settings' = s
  /\ shown' = s /\ applied' = s /\ trouble' = FALSE
  /\ UNCHANGED <<worker, identity, history>>

(* Refused for its bitrate, or the write failed on the way.                *)
SaveSettingsFails ==
  /\ settings' \in Cut(settings)
  /\ trouble' = TRUE
  /\ UNCHANGED <<shown, applied, worker, identity, history>>

(* Mutant: settings that cannot be read are not worth a message.           *)
LoadSettingsQuietly(stored) ==
  /\ shown' = IF stored \in Setting THEN stored ELSE Default
  /\ applied' = shown'
  /\ trouble' = FALSE

LoadSettings(stored) ==
  /\ shown' = IF stored \in Setting THEN stored ELSE Default
  /\ applied' = shown'
  /\ trouble' = (stored = Torn)

-----------------------------------------------------------------------------
(* The process ends, perhaps while it saves settings, and is started: it   *)
(* reads the settings, and connects to the latest of the hosts that it can *)
(* read: a Begin.                                                          *)
Restart ==
  /\ \E stored \in Cut(settings) : settings' = stored /\ LoadSettings(stored)
  /\ pc' = [w \in Worker |-> "off"]
  /\ at' = [w \in Worker |-> 1]
  /\ seen' = [w \in Worker |-> Nothing]
  /\ goal' = [w \in Worker |-> None]
  /\ doc' = [w \in Worker |-> NoHosts]
  /\ UNCHANGED <<identity, history>>

-----------------------------------------------------------------------------
WorkerStep(w) ==
  \/ \E h \in Host : Begin(w, h)
  \/ Check(w) \/ AllExist(w) \/ Incomplete(w) \/ Generate(w)
  \/ OpenPart(w) \/ FillSome(w) \/ FillPart(w) \/ CreateFails(w)
  \/ Read(w) \/ ReadLast(w)
  \/ Connected(w) \/ CallEnds(w)
  \/ LoadHosts(w) \/ LoadHostsFails(w) \/ OpenHosts(w) \/ FillHosts(w) \/ SaveHostsFails(w)

At(phases) == {w \in Worker : pc[w] \in phases}
Several(S) == \E v, w \in S : v # w

(* A worker is given the identity whose last file another still writes.    *)
GivenEarly == \E w \in At({"read"}) : pc'[w] = "connect" /\ At({"fill"}) # {}

(* Whether workers have ever met where nothing keeps them apart.           *)
Observe ==
  /\ raced' = (raced \/ Several(At(Creating))' \/ GivenEarly)
  /\ crowded' = (crowded \/ Several(At(Saving))')

Next ==
  /\ \/ \E w \in Worker : WorkerStep(w)
     \/ \E s \in Setting : SaveSettings(s)
     \/ SaveSettingsFails
     \/ Restart
  /\ Observe

Spec == Init /\ [][Next]_vars

-----------------------------------------------------------------------------
(***************************************************************************)
(* Every identity that a caller gets has the key of its certificate, and   *)
(* all callers get the same one, over all crashes, failed writes and       *)
(* starts: the host that has paired with the client goes on knowing it.  A *)
(* unique_id that was cut short is that of every caller, the first as well *)
(* as the later ones.  Exempt is a directory in which two workers created  *)
(* an identity at once, or one read unique_id (crypto.rs:51) while another *)
(* had written a part of it (crypto.rs:64).                                *)
(***************************************************************************)
SameIdentity ==
  /\ \A t \in used : t[1] = t[2]
  /\ ~raced => \A t, u \in used : t = u

(***************************************************************************)
(* What was saved is in hosts.json as long as that can be read, the latest *)
(* host as the latest, unless two workers saved at once.                   *)
(***************************************************************************)
HostsKept ==
  ~crowded /\ hostsFile \in Document
    => kept.hosts \subseteq hostsFile.hosts /\ kept.last = hostsFile.last

(***************************************************************************)
(* What the settings page shows is what the controllers use, and unless it *)
(* says that loading or saving failed, it is what the next start will load.*)
(***************************************************************************)
SettingsAgree ==
  /\ shown = applied
  /\ ~trouble => settings = shown \/ (settings = Absent /\ shown = Default)

=============================================================================
