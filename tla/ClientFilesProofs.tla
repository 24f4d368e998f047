-------------------------- MODULE ClientFilesProofs --------------------------
(***************************************************************************)
(* The files of the configuration directory for any number of workers,     *)
(* identities, hosts and settings.                                         *)
(*                                                                         *)
(* unique_id is written last and tested last, and that is why one identity *)
(* is kept: while it is missing nobody can load, and once it exists        *)
(* nobody can generate, so that client.pem and key.pem no longer change.   *)
(* It need not be whole, but nobody has an identity while it is written,   *)
(* and afterwards all have what is then in the files.                      *)
(***************************************************************************)
EXTENDS ClientFiles, TLAPS

(* A worker creates what it generated, one part after the other; until it  *)
(* opens the last, nobody has an identity.                                 *)
Creation ==
  \A w \in At(Creating) :
    /\ seen[w][1] \in Identity
    /\ \A p \in Part : seen[w][p] = seen[w][1]

Alone == ~Several(At(Creating))

Written12 ==
  \A w \in At(Creating) :
    /\ \A p \in Part : p < at[w] => file[p] = seen[w][1]
    /\ pc[w] = "fill" => OwnSoFar(w) /\ file[at[w]] # Absent
    /\ at[w] < 3 \/ pc[w] = "open" => file[3] = Absent
    /\ used = {}

Settled ==
  /\ file[3] # Absent =>
       /\ file[1] \in Identity
       /\ file[2] = file[1]
       /\ file[3] \in {Empty, Piece(file[1]), file[1]}
       /\ \A t \in used : t = file
  /\ file[3] = Absent => used = {}

Reading ==
  \A w \in At({"read"}) :
    /\ file[3] # Absent
    /\ \A p \in Part : p < at[w] => seen[w][p] = file[p]

Matching == \A t \in used : t[1] = t[2]

Identified ==
  /\ Creation
  /\ Matching
  /\ ~raced => Alone /\ Written12 /\ Settled /\ Reading

(* What a worker is about to save is what was kept, and its own host.      *)
Prepared(w) ==
  /\ kept.hosts \cup {goal[w]} \subseteq doc[w].hosts
  /\ doc[w].last = goal[w]

Remembered ==
  ~crowded =>
    /\ ~Several(At(Saving))
    /\ hostsFile = Absent => kept = NoHosts
    /\ \A w \in At(Saving) : Prepared(w)
    /\ \A w \in At({"openHosts"}) : hostsFile \notin Damage
    /\ \A w \in At({"fillHosts"}) : hostsFile = Empty
    /\ HostsKept

LEMMA Contents ==
  /\ Absent \notin Identity /\ Empty \notin Identity /\ Torn \notin Identity
  /\ Absent # Empty /\ Absent # Torn
  /\ \A i \in Identity : Piece(i) \in Content /\ Piece(i) # Absent
BY FilesAssumption DEF Damage, Pieces, Content

LEMMA Basics ==
  /\ 1 \in Part /\ 2 \in Part /\ 3 \in Part
  /\ \A p \in Part : p = 1 \/ p = 2 \/ p = 3
  /\ Nothing \in Triple
  /\ NoHosts \in Document
  /\ "off" \in Phase
BY DEF Part, Nothing, Triple, Content, NoHosts, Document, Phase

LEMMA StartTypes == Init => TypeOK
<1> SUFFICES ASSUME Init PROVE TypeOK
  OBVIOUS
<1>1. IdentityTypes
  BY Basics DEF Init, IdentityTypes
<1>2. HistoryTypes
  BY Basics DEF Init, HistoryTypes
<1>3. PreferenceTypes
  BY FilesAssumption DEF Init, PreferenceTypes
<1> QED
  BY <1>1, <1>2, <1>3 DEF TypeOK

LEMMA StartIdentified == Init => Identified
<1> SUFFICES ASSUME Init PROVE Identified
  OBVIOUS
<1>1. At(Creating) = {} /\ At({"read"}) = {}
  BY DEF Init, At, Creating
<1>2. file[3] = Absent /\ used = {}
  BY DEF Init, Nothing, Part
<1> QED
  BY <1>1, <1>2 DEF Identified, Creation, Matching, Alone, Several, Written12, Settled, Reading

-----------------------------------------------------------------------------
(* Types                                                                   *)

LEMMA WorkerTypes ==
  ASSUME TypeOK, Creation, NEW w \in Worker, WorkerStep(w), Observe
  PROVE  TypeOK'
<1> USE Basics DEF TypeOK
<1>1. raced' \in BOOLEAN /\ crowded' \in BOOLEAN
  BY DEF Observe
<1>2. ASSUME NEW h \in Host, Begin(w, h) PROVE TypeOK'
  BY <1>1, <1>2, FilesAssumption DEF Begin, IdentityTypes, HistoryTypes, PreferenceTypes, identity, history,
     preferences, Phase
<1>3. CASE Check(w) \/ Read(w)
  <2>1. seen' \in [Worker -> Triple]
    <3>1. seen' = [seen EXCEPT ![w][at[w]] = file[at[w]]]
      BY <1>3 DEF Check, Read
    <3>2. [seen[w] EXCEPT ![at[w]] = file[at[w]]] \in Triple
      BY DEF IdentityTypes, Triple
    <3> QED
      BY <3>1, <3>2 DEF IdentityTypes
  <2>2. at' \in [Worker -> Part]
    BY <1>3 DEF Check, Read, IdentityTypes, Part
  <2> QED
    BY <1>1, <1>3, <2>1, <2>2 DEF Check, Read, IdentityTypes, HistoryTypes, PreferenceTypes,
       identity, history, preferences
<1>4. CASE AllExist(w)
  BY <1>1, <1>4 DEF AllExist, IdentityTypes, HistoryTypes, PreferenceTypes, identity, history,
     preferences, Phase
<1>5. ASSUME Return(w) PROVE
        /\ pc' \in [Worker -> Phase]
        /\ at' \in [Worker -> Part]
        /\ seen' \in [Worker -> Triple]
        /\ goal' \in [Worker -> Host \cup {None}]
        /\ doc' \in [Worker -> Document]
        /\ \A v \in Worker : (goal'[v] = None) <=> (pc'[v] = "off")
  BY <1>5 DEF Return, IdentityTypes, HistoryTypes
<1>6. CASE Incomplete(w) \/ CallEnds(w) \/ LoadHostsFails(w)
  BY <1>1, <1>5, <1>6 DEF Incomplete, CallEnds, LoadHostsFails, IdentityTypes, HistoryTypes,
     PreferenceTypes, identity, history, preferences
<1>7. CASE Generate(w)
  <2>1. PICK i \in Identity : /\ made' = made \cup {i}
                              /\ seen' = [seen EXCEPT ![w] = [p \in Part |-> i]]
    BY <1>7 DEF Generate
  <2>2. [p \in Part |-> i] \in Triple
    BY DEF Triple, Content
  <2>3. seen' \in [Worker -> Triple] /\ made' \subseteq Identity
    BY <2>1, <2>2 DEF IdentityTypes
  <2> QED
    BY <1>1, <1>7, <2>3 DEF Generate, IdentityTypes, HistoryTypes, PreferenceTypes, history,
       preferences, Phase, Creating
<1>16. ASSUME pc[w] = "fill" PROVE Unfinished(w) \in Content
  <2>1. seen[w][3] \in Identity
    BY <1>16 DEF Creation, At, Creating
  <2> QED
    BY <2>1, Contents DEF Unfinished, Content
<1>8. CASE OpenPart(w)
  <2>1. file' \in Triple
    BY <1>8 DEF OpenPart, IdentityTypes, Triple, Content
  <2> QED
    BY <1>1, <1>8, <2>1 DEF OpenPart, IdentityTypes, HistoryTypes, PreferenceTypes, history,
       preferences, Phase, Creating
<1>9. CASE FillPart(w)
  <2>1. file' \in Triple
    <3>1. PICK c \in {seen[w][at[w]], Torn} : file' = [file EXCEPT ![at[w]] = c]
      BY <1>9 DEF FillPart, Written
    <3>2. c \in Content
      BY DEF IdentityTypes, Triple, Content
    <3> QED
      BY <3>1, <3>2 DEF IdentityTypes, Triple
  <2>2. pc' \in [Worker -> Phase] /\ at' \in [Worker -> Part]
    BY <1>9 DEF FillPart, IdentityTypes, Phase, Creating, Part
  <2>3. seen' \in [Worker -> Triple] /\ used' \subseteq Triple
    BY <1>9 DEF FillPart, IdentityTypes
  <2>4. \A v \in Worker : (goal'[v] = None) <=> (pc'[v] = "off")
    BY <1>9 DEF FillPart, IdentityTypes, HistoryTypes
  <2> QED
    BY <1>1, <1>9, <2>1, <2>2, <2>3, <2>4 DEF FillPart, IdentityTypes, HistoryTypes,
       PreferenceTypes, history, preferences
<1>10. CASE CreateFails(w)
  <2>1. file' \in Triple
    <3>1. CASE pc[w] = "open"
      BY <1>10, <3>1 DEF CreateFails, IdentityTypes, Triple
    <3>2. CASE pc[w] = "fill"
      <4>1. PICK c \in {file[at[w]], Unfinished(w), seen[w][at[w]]} :
              file' = [file EXCEPT ![at[w]] = c]
        BY <1>10, <3>2 DEF CreateFails
      <4>2. c \in Content
        BY <1>16, <3>2 DEF IdentityTypes, Triple
      <4> QED
        BY <4>1, <4>2 DEF IdentityTypes, Triple
    <3> QED
      BY <1>10, <3>1, <3>2 DEF CreateFails, Creating
  <2> QED
    BY <1>1, <1>5, <1>10, <2>1 DEF CreateFails, IdentityTypes, HistoryTypes, PreferenceTypes,
       history, preferences
<1>11. CASE ReadLast(w)
  <2> DEFINE t == [seen[w] EXCEPT ![3] = file[3]]
  <2>1. t \in Triple
    BY DEF IdentityTypes, Triple
  <2>2. CASE /\ FromPem(t)
             /\ used' = used \cup {t}
             /\ pc' = [pc EXCEPT ![w] = "connect"]
             /\ at' = [at EXCEPT ![w] = 1]
             /\ seen' = [seen EXCEPT ![w] = Nothing]
             /\ UNCHANGED <<goal, doc>>
    BY <1>1, <1>11, <2>1, <2>2 DEF ReadLast, IdentityTypes, HistoryTypes, PreferenceTypes,
       history, preferences, Phase
  <2>3. CASE Return(w) /\ UNCHANGED used
    BY <1>1, <1>5, <1>11, <2>3 DEF ReadLast, IdentityTypes, HistoryTypes, PreferenceTypes,
       history, preferences
  <2> QED
    BY <1>11, <2>2, <2>3 DEF ReadLast
<1>12. CASE Connected(w) \/ OpenHosts(w)
  BY <1>1, <1>12 DEF Connected, OpenHosts, IdentityTypes, HistoryTypes, PreferenceTypes,
     identity, history, preferences, Phase, Saving
<1>13. CASE LoadHosts(w)
  <2>1. PICK d \in Loaded : doc' = [doc EXCEPT ![w] = Remember(d, goal[w])]
    BY <1>13 DEF LoadHosts
  <2>2. d \in Document
    BY <2>1 DEF Loaded, HistoryTypes, Damage
  <2>3. goal[w] \in Host
    BY <1>13 DEF LoadHosts, HistoryTypes
  <2>4. doc' \in [Worker -> Document]
    BY <2>1, <2>2, <2>3 DEF HistoryTypes, Remember, Document
  <2> QED
    BY <1>1, <1>13, <2>4 DEF LoadHosts, IdentityTypes, HistoryTypes, PreferenceTypes, identity,
       history, preferences, Phase, Saving
<1>14. CASE FillHosts(w)
  <2>1. goal[w] \in Host
    BY <1>14 DEF FillHosts, HistoryTypes
  <2>2. kept' \in Document
    BY <1>14, <2>1 DEF FillHosts, HistoryTypes, Remember, Document
  <2>3. hostsFile' \in Document \cup {Absent, Empty, Torn}
    BY <1>14 DEF FillHosts, HistoryTypes, Written
  <2> QED
    BY <1>1, <1>5, <1>14, <2>2, <2>3 DEF FillHosts, IdentityTypes, HistoryTypes,
       PreferenceTypes, identity, preferences
<1>15. CASE SaveHostsFails(w)
  BY <1>1, <1>5, <1>15 DEF SaveHostsFails, Cut, IdentityTypes, HistoryTypes, PreferenceTypes,
     identity, preferences
<1>17. CASE FillSome(w)
  <2>1. file' \in Triple
    BY <1>16, <1>17 DEF FillSome, IdentityTypes, Triple
  <2> QED
    BY <1>1, <1>17, <2>1 DEF FillSome, worker, IdentityTypes, HistoryTypes, PreferenceTypes,
       history, preferences
<1> QED
  BY <1>2, <1>3, <1>4, <1>6, <1>7, <1>8, <1>9, <1>10, <1>11, <1>12, <1>13, <1>14, <1>15,
     <1>17 DEF WorkerStep

LEMMA WindowTypes ==
  ASSUME TypeOK, Observe, (\E s \in Setting : SaveSettings(s)) \/ SaveSettingsFails \/ Restart
  PROVE  TypeOK'
<1> USE Basics DEF TypeOK
<1>1. raced' \in BOOLEAN /\ crowded' \in BOOLEAN
  BY DEF Observe
<1>2. CASE (\E s \in Setting : SaveSettings(s)) \/ SaveSettingsFails
  BY <1>1, <1>2 DEF SaveSettings, SaveSettingsFails, Cut, IdentityTypes, HistoryTypes,
     PreferenceTypes, worker, identity, history
<1>3. CASE Restart
  <2>1. PreferenceTypes'
    BY <1>3, FilesAssumption DEF Restart, LoadSettings, Cut, PreferenceTypes
  <2> QED
    BY <1>1, <1>3, <2>1 DEF Restart, IdentityTypes, HistoryTypes, identity, history
<1> QED
  BY <1>2, <1>3

LEMMA Types == TypeOK /\ Creation /\ [Next]_vars => TypeOK'
<1>1. CASE UNCHANGED vars
  BY <1>1 DEF vars, worker, identity, history, preferences, TypeOK, IdentityTypes,
     HistoryTypes, PreferenceTypes
<1> QED
  BY <1>1, WorkerTypes, WindowTypes DEF Next

-----------------------------------------------------------------------------
(* The identity                                                            *)

(* Steps that write no part of it, and that bring no worker to creating or *)
(* reading one.                                                            *)
LEMMA Aside ==
  ASSUME Identified, Observe, UNCHANGED <<file, used>>,
         \A v \in At(Creating \cup {"read"})' :
           pc'[v] = pc[v] /\ at'[v] = at[v] /\ seen'[v] = seen[v]
  PROVE  Identified'
<1>1. /\ At(Creating)' \subseteq At(Creating)
      /\ At({"read"})' \subseteq At({"read"})
      /\ \A v \in At(Creating)' \cup At({"read"})' :
           pc'[v] = pc[v] /\ at'[v] = at[v] /\ seen'[v] = seen[v]
  BY DEF At, Creating
<1>2. ~raced' => ~raced
  BY DEF Observe
<1>3. Creation' /\ Matching'
  BY <1>1 DEF Identified, Creation, Matching
<1>4. ASSUME ~raced' PROVE (Alone /\ Written12 /\ Settled /\ Reading)'
  <2>1. Alone /\ Written12 /\ Settled /\ Reading
    BY <1>2, <1>4 DEF Identified
  <2>2. Alone'
    BY <2>1, <1>1 DEF Alone, Several
  <2>3. Written12'
    BY <2>1, <1>1 DEF Written12, OwnSoFar
  <2>4. Settled'
    BY <2>1 DEF Settled
  <2>5. Reading'
    BY <2>1, <1>1 DEF Reading
  <2> QED
    BY <2>2, <2>3, <2>4, <2>5
<1> QED
  BY <1>3, <1>4 DEF Identified

(* As long as no two workers create an identity, no two ever have; and an  *)
(* identity that is still written is given to nobody.                      *)
LEMMA AloneStays == Observe /\ ~raced' => ~raced /\ Alone' /\ ~GivenEarly
BY DEF Observe, Alone

LEMMA StepsAside ==
  ASSUME Identified, TypeOK, Observe, NEW w \in Worker,
         \/ \E h \in Host : Begin(w, h)
         \/ Check(w) \/ Incomplete(w) \/ Connected(w) \/ CallEnds(w) \/ LoadHosts(w)
         \/ LoadHostsFails(w) \/ OpenHosts(w) \/ FillHosts(w) \/ SaveHostsFails(w)
  PROVE  Identified'
<1>1. UNCHANGED <<file, used>>
  BY DEF Begin, Check, Incomplete, Connected, CallEnds, LoadHosts, LoadHostsFails, OpenHosts,
     FillHosts, SaveHostsFails, identity
<1>2. pc'[w] \notin Creating \cup {"read"}
  BY DEF Begin, Check, Incomplete, Connected, CallEnds, LoadHosts, LoadHostsFails, OpenHosts,
     FillHosts, SaveHostsFails, Return, Creating, Saving, TypeOK, IdentityTypes
<1>3. \A v \in Worker \ {w} : pc'[v] = pc[v] /\ at'[v] = at[v] /\ seen'[v] = seen[v]
  BY DEF Begin, Check, Incomplete, Connected, CallEnds, LoadHosts, LoadHostsFails, OpenHosts,
     FillHosts, SaveHostsFails, Return, TypeOK, IdentityTypes
<1> QED
  BY <1>1, <1>2, <1>3, Aside DEF At

LEMMA WindowAside ==
  ASSUME Identified, Observe,
         (\E s \in Setting : SaveSettings(s)) \/ SaveSettingsFails \/ Restart
  PROVE  Identified'
<1>1. CASE (\E s \in Setting : SaveSettings(s)) \/ SaveSettingsFails
  <2>1. UNCHANGED <<file, used>> /\ UNCHANGED <<pc, at, seen>>
    BY <1>1 DEF SaveSettings, SaveSettingsFails, vars, worker, identity
  <2> QED
    BY <2>1, Aside DEF At
<1>2. CASE Restart
  <2>1. UNCHANGED <<file, used>> /\ \A v \in Worker : pc'[v] = "off"
    BY <1>2 DEF Restart, identity
  <2> QED
    BY <2>1, Aside DEF At, Creating
<1> QED
  BY <1>1, <1>2

(* A reader: unique_id exists, so the other two parts stay.                *)
LEMMA Reader ==
  ASSUME Identified, TypeOK, Observe, NEW w \in Worker, AllExist(w) \/ Read(w)
  PROVE  Identified'
<1>1. /\ UNCHANGED <<file, used>>
      /\ pc[w] \notin Creating
      /\ pc'[w] = "read"
      /\ \A v \in Worker \ {w} : pc'[v] = pc[v] /\ at'[v] = at[v] /\ seen'[v] = seen[v]
  BY DEF AllExist, Read, identity, TypeOK, IdentityTypes, Creating
<1>2. /\ At(Creating)' = At(Creating)
      /\ \A v \in At(Creating) : pc'[v] = pc[v] /\ at'[v] = at[v] /\ seen'[v] = seen[v]
  BY <1>1 DEF At, Creating
<1>3. Creation' /\ Matching'
  BY <1>1, <1>2 DEF Identified, Creation, Matching
<1>4. ASSUME ~raced' PROVE (Alone /\ Written12 /\ Settled /\ Reading)'
  <2>1. Alone' /\ Alone /\ Written12 /\ Settled /\ Reading
    BY <1>4, AloneStays DEF Identified
  <2>2. Written12' /\ Settled'
    BY <2>1, <1>1, <1>2 DEF Written12, OwnSoFar, Settled
  <2>3. \A v \in At({"read"})' \ {w} :
          v \in At({"read"}) /\ at'[v] = at[v] /\ seen'[v] = seen[v]
    BY <1>1 DEF At
  <2>4. file[3] # Absent /\ \A p \in Part : p < at'[w] => seen'[w][p] = file[p]
    <3>1. CASE AllExist(w)
      <4>1. file[3] # Absent
        BY <3>1 DEF AllExist, Exist, Part
      <4>2. at'[w] = 1
        BY <3>1 DEF AllExist, TypeOK, IdentityTypes
      <4> QED
        BY <4>1, <4>2 DEF Part
    <3>2. CASE Read(w)
      <4>1. file[3] # Absent /\ \A p \in Part : p < at[w] => seen[w][p] = file[p]
        BY <2>1, <3>2 DEF Reading, Read, At
      <4>2. at'[w] = at[w] + 1 /\ at[w] \in Part
        BY <3>2 DEF Read, TypeOK, IdentityTypes
      <4>3. seen'[w] = [seen[w] EXCEPT ![at[w]] = file[at[w]]] /\ seen[w] \in Triple
        BY <3>2 DEF Read, TypeOK, IdentityTypes
      <4> QED
        BY <4>1, <4>2, <4>3 DEF Part, Triple
    <3> QED
      BY <3>1, <3>2
  <2>5. Reading'
    BY <2>1, <2>3, <2>4, <1>1 DEF Reading
  <2> QED
    BY <2>1, <2>2, <2>5
<1> QED
  BY <1>3, <1>4 DEF Identified

(* What a reader accepts is the identity that is settled.                  *)
LEMMA LastReader ==
  ASSUME Identified, TypeOK, Observe, NEW w \in Worker, ReadLast(w)
  PROVE  Identified'
<1> DEFINE t == [seen[w] EXCEPT ![3] = file[3]]
<1>1. /\ UNCHANGED file
      /\ pc[w] = "read" /\ at[w] = 3
      /\ pc'[w] \notin Creating \cup {"read"}
      /\ \A v \in Worker \ {w} : pc'[v] = pc[v] /\ at'[v] = at[v] /\ seen'[v] = seen[v]
      /\ \/ used' = used
         \/ used' = used \cup {t} /\ FromPem(t) /\ pc'[w] = "connect"
  BY DEF ReadLast, Return, TypeOK, IdentityTypes, Creating
<1>2. /\ At(Creating)' = At(Creating)
      /\ At({"read"})' \subseteq At({"read"})
      /\ \A v \in At(Creating) \cup At({"read"})' :
           pc'[v] = pc[v] /\ at'[v] = at[v] /\ seen'[v] = seen[v]
  BY <1>1 DEF At, Creating
<1>3. Creation'
  BY <1>2 DEF Identified, Creation
<1>4. Matching'
  <2>1. FromPem(t) => t[1] = t[2]
    BY DEF FromPem
  <2> QED
    BY <1>1, <2>1 DEF Identified, Matching
<1>5. ASSUME ~raced' PROVE (Alone /\ Written12 /\ Settled /\ Reading)'
  <2>1. Alone' /\ Written12 /\ Settled /\ Reading /\ ~GivenEarly
    BY <1>5, AloneStays DEF Identified
  <2>2. Reading'
    BY <2>1, <1>1, <1>2 DEF Reading
  <2>3. file[3] # Absent /\ \A p \in Part : p < 3 => seen[w][p] = file[p]
    BY <2>1, <1>1 DEF Reading, At
  <2>4. t \in Triple /\ t[1] = file[1] /\ t[2] = file[2] /\ t[3] = file[3]
    BY <2>3, Basics DEF TypeOK, IdentityTypes, Triple, Part
  <2>5. t = file
    <3>1. \A p \in Part : t[p] = file[p]
      BY <2>4, Basics
    <3> QED
      BY <3>1, <2>4 DEF TypeOK, IdentityTypes, Triple
  <2>6. Settled'
    BY <2>1, <2>3, <2>5, <1>1 DEF Settled
  <2>7. ASSUME used' = used PROVE Written12'
    BY <2>1, <2>7, <1>1, <1>2 DEF Written12, OwnSoFar
  <2>8. ASSUME pc'[w] = "connect" PROVE Written12'
    <3>1. At({"fill"}) = {}
      BY <2>1, <2>8, <1>1 DEF GivenEarly, At
    <3>2. At({"open"}) = {}
      BY <2>1, <2>3 DEF Written12, At, Creating
    <3>3. At(Creating)' = {}
      BY <3>1, <3>2, <1>2 DEF At, Creating
    <3> QED
      BY <3>3 DEF Written12
  <2>9. Written12'
    BY <2>7, <2>8, <1>1
  <2> QED
    BY <2>1, <2>2, <2>6, <2>9
<1> QED
  BY <1>3, <1>4, <1>5 DEF Identified

(* What is common to the steps of a creator: nobody else moves.            *)
LEMMA OthersStay ==
  ASSUME TypeOK, NEW w \in Worker,
         Generate(w) \/ OpenPart(w) \/ FillSome(w) \/ FillPart(w) \/ CreateFails(w)
  PROVE  /\ \A v \in Worker \ {w} : pc'[v] = pc[v] /\ at'[v] = at[v] /\ seen'[v] = seen[v]
         /\ pc'[w] # "read"
         /\ At({"read"})' \subseteq At({"read"}) \ {w}
         /\ At(Creating)' \subseteq At(Creating) \cup {w}
<1>1. /\ \A v \in Worker \ {w} : pc'[v] = pc[v] /\ at'[v] = at[v] /\ seen'[v] = seen[v]
      /\ pc'[w] # "read"
  BY DEF Generate, OpenPart, FillSome, FillPart, CreateFails, Return, worker, TypeOK,
     IdentityTypes
<1> QED
  BY <1>1 DEF At

LEMMA Generated ==
  ASSUME Identified, TypeOK, Observe, NEW w \in Worker, Generate(w)
  PROVE  Identified'
<1>1. PICK i \in Identity : seen' = [seen EXCEPT ![w] = [p \in Part |-> i]]
  BY DEF Generate
<1>2. /\ UNCHANGED <<file, used>>
      /\ pc'[w] = "open" /\ at'[w] = 1
      /\ seen'[w] = [p \in Part |-> i]
      /\ file[3] = Absent
  BY <1>1 DEF Generate, TypeOK, IdentityTypes, Exist
<1>3. Creation' /\ Matching'
  <2>1. \A v \in At(Creating)' \ {w} : v \in At(Creating) /\ seen'[v] = seen[v]
    BY OthersStay DEF At
  <2>2. seen'[w][1] \in Identity /\ \A p \in Part : seen'[w][p] = seen'[w][1]
    BY <1>2, Basics
  <2> QED
    BY <1>2, <2>1, <2>2 DEF Identified, Creation, Matching
<1>4. ASSUME ~raced' PROVE (Alone /\ Written12 /\ Settled /\ Reading)'
  <2>1. Alone' /\ Settled /\ Reading
    BY <1>4, AloneStays DEF Identified
  <2>2. w \in At(Creating)'
    BY <1>2 DEF At, Creating
  <2>3. At(Creating)' = {w}
    BY <2>1, <2>2 DEF Alone, Several
  <2>4. Written12'
    BY <1>2, <2>1, <2>3 DEF Written12, Settled, Part
  <2>5. Settled'
    BY <1>2, <2>1 DEF Settled
  <2>6. Reading'
    BY <1>2, <2>1, OthersStay DEF Reading, At
  <2> QED
    BY <2>1, <2>4, <2>5, <2>6
<1> QED
  BY <1>3, <1>4 DEF Identified

(* Writing: as the only creator, and before anybody reads.                 *)
LEMMA NobodyReads ==
  ASSUME Identified, ~raced, file[3] = Absent
  PROVE  At({"read"}) = {}
BY DEF Identified, Reading

LEMMA Opened ==
  ASSUME Identified, TypeOK, Observe, NEW w \in Worker, OpenPart(w)
  PROVE  Identified'
<1>1. /\ UNCHANGED used
      /\ pc[w] = "open" /\ pc'[w] = "fill"
      /\ at'[w] = at[w] /\ at[w] \in Part /\ seen'[w] = seen[w]
      /\ file' = [file EXCEPT ![at[w]] = Empty] /\ file \in Triple
      /\ w \in At(Creating) /\ w \in At(Creating)'
  BY DEF OpenPart, TypeOK, IdentityTypes, At, Creating
<1>2. Creation' /\ Matching'
  BY <1>1, OthersStay DEF Identified, Creation, Matching, At
<1>3. ASSUME ~raced' PROVE (Alone /\ Written12 /\ Settled /\ Reading)'
  <2>1. ~raced /\ Alone' /\ Alone /\ Written12 /\ Settled /\ Reading
    BY <1>3, AloneStays DEF Identified
  <2>2. At(Creating)' = {w}
    BY <2>1, <1>1 DEF Alone, Several
  <2>3. file[3] = Absent
    BY <2>1, <1>1 DEF Written12
  <2>4. used = {} /\ At({"read"})' = {}
    BY <2>1, <2>3, NobodyReads, OthersStay DEF Settled
  <2>5. \A p \in Part : file'[p] = IF p = at[w] THEN Empty ELSE file[p]
    BY <1>1 DEF Triple
  <2>6. \A p \in Part : p < at[w] => file[p] = seen[w][1] /\ seen[w][1] \in Identity
    BY <2>1, <1>1 DEF Written12, Identified, Creation
  <2>7. Written12'
    <3>1. \A p \in Part : p < at'[w] => file'[p] = seen'[w][1]
      BY <1>1, <2>5, <2>6 DEF Part
    <3>2. file'[at'[w]] = Empty
      BY <1>1, <2>5
    <3>3. at'[w] < 3 => file'[3] = Absent
      BY <1>1, <2>3, <2>5, Basics
    <3> QED
      BY <3>1, <3>2, <3>3, <2>2, <2>4, <1>1, Contents DEF Written12, OwnSoFar
  <2>8. Settled'
    <3>1. CASE at[w] = 3
      <4>1. file'[1] = seen[w][1] /\ file'[2] = seen[w][1] /\ file'[3] = Empty
        BY <3>1, <2>5, <2>6, Basics
      <4> QED
        BY <3>1, <4>1, <2>4, <2>6, <1>1, Basics, Contents DEF Settled
    <3>2. CASE at[w] # 3
      BY <3>2, <2>3, <2>4, <2>5, <1>1, Basics DEF Settled
    <3> QED
      BY <3>1, <3>2
  <2> QED
    BY <2>1, <2>4, <2>7, <2>8 DEF Reading
<1> QED
  BY <1>2, <1>3 DEF Identified

(* After its last part an identity is settled, and its creator's.          *)
LEMMA Filled ==
  ASSUME Identified, TypeOK, Observe, NEW w \in Worker, FillPart(w)
  PROVE  Identified'
<1>1. /\ pc[w] = "fill" /\ at[w] \in Part /\ file \in Triple /\ seen[w] \in Triple
      /\ w \in At(Creating)
  BY DEF FillPart, TypeOK, IdentityTypes, At, Creating
<1>2. PICK c \in IF OwnSoFar(w) THEN {seen[w][at[w]]}
                                 ELSE Written(file[at[w]], seen[w][at[w]]) :
        file' = [file EXCEPT ![at[w]] = c]
  BY DEF FillPart
<1>3. \A p \in Part : file'[p] = IF p = at[w] THEN c ELSE file[p]
  BY <1>1, <1>2 DEF Triple
<1>4. /\ at[w] < 3 => /\ pc'[w] = "open" /\ at'[w] = at[w] + 1 /\ seen'[w] = seen[w]
                      /\ used' = used
      /\ at[w] = 3 => pc'[w] = "connect" /\ used' = used \cup {seen[w]}
  BY <1>1 DEF FillPart, TypeOK, IdentityTypes, Part
<1>5. seen[w][1] \in Identity /\ \A p \in Part : seen[w][p] = seen[w][1]
  BY <1>1 DEF Identified, Creation
<1>6. Creation'
  <2>1. \A v \in At(Creating)' : v \in At(Creating) /\ seen'[v] = seen[v]
    BY <1>1, <1>4, OthersStay, Basics DEF At, Creating
  <2> QED
    BY <2>1 DEF Identified, Creation
<1>7. Matching'
  BY <1>1, <1>4, <1>5, Basics DEF Identified, Matching
<1>8. ASSUME ~raced' PROVE (Alone /\ Written12 /\ Settled /\ Reading)'
  <2>1. ~raced /\ Alone' /\ Alone /\ Written12 /\ Settled /\ Reading
    BY <1>8, AloneStays DEF Identified
  <2>2. At(Creating)' \subseteq {w}
    BY <2>1, <1>1, OthersStay DEF Alone, Several
  <2>3. c = seen[w][1]
    BY <2>1, <1>1, <1>2, <1>5 DEF Written12
  <2>4. \A p \in Part : p <= at[w] => file'[p] = seen[w][1]
    <3>1. \A p \in Part : p < at[w] => file[p] = seen[w][1]
      BY <2>1, <1>1 DEF Written12
    <3> QED
      BY <3>1, <2>3, <1>3, <1>1 DEF Part
  <2>5. CASE at[w] < 3
    <3>1. file[3] = Absent
      BY <2>1, <2>5, <1>1 DEF Written12
    <3>2. file'[3] = Absent /\ used' = {}
      BY <3>1, <2>1, <2>5, <1>3, <1>4, Basics DEF Settled
    <3>3. At({"read"})' = {}
      BY <3>1, <2>1, NobodyReads, OthersStay
    <3>4. Written12'
      BY <2>2, <2>4, <2>5, <3>2, <1>4, <1>1 DEF Written12, Part
    <3> QED
      BY <2>1, <3>2, <3>3, <3>4 DEF Settled, Reading
  <2>6. CASE at[w] = 3
    <3>1. At(Creating)' = {}
      BY <2>2, <2>6, <1>4 DEF At, Creating
    <3>2. file'[1] = seen[w][1] /\ file'[2] = seen[w][1] /\ file'[3] = seen[w][1]
      BY <2>4, <2>6, Basics
    <3>3. seen[w] = file'
      <4>1. \A p \in Part : seen[w][p] = file'[p]
        BY <3>2, <1>5, Basics
      <4> QED
        BY <4>1, <1>1, <1>2 DEF Triple
    <3>4. file[3] # Absent
      BY <2>1, <2>6, <1>1 DEF Written12
    <3>5. used = {}
      BY <2>1, <1>1 DEF Written12
    <3>6. Settled'
      BY <3>2, <3>3, <3>5, <2>6, <1>4, <1>5, Contents DEF Settled
    <3>7. Reading'
      <4>1. \A v \in At({"read"})' :
              v \in At({"read"}) /\ at'[v] = at[v] /\ seen'[v] = seen[v] /\ at[v] \in Part
        BY OthersStay DEF At, TypeOK, IdentityTypes
      <4>2. \A p \in Part : p < 3 => file'[p] = file[p]
        BY <2>6, <1>3
      <4>3. file'[3] # Absent
        BY <3>2, <1>5, Contents
      <4> QED
        BY <4>1, <4>2, <4>3, <2>1 DEF Reading, Part
    <3> QED
      BY <2>1, <3>1, <3>6, <3>7 DEF Written12
  <2> QED
    BY <2>5, <2>6, <1>1 DEF Part
<1> QED
  BY <1>6, <1>7, <1>8 DEF Identified

LEMMA Abandoned ==
  ASSUME Identified, TypeOK, Observe, NEW w \in Worker, CreateFails(w)
  PROVE  Identified'
<1>1. /\ UNCHANGED used
      /\ pc'[w] = "off"
      /\ at[w] \in Part /\ file \in Triple
      /\ w \in At(Creating)
  BY DEF CreateFails, Return, TypeOK, IdentityTypes, At, Creating
<1>2. PICK c \in IF pc[w] = "open" THEN {file[at[w]]}
                   ELSE {file[at[w]], Unfinished(w), seen[w][at[w]]} :
        file' = [file EXCEPT ![at[w]] = c]
  BY DEF CreateFails
<1>3. \A p \in Part : file'[p] = IF p = at[w] THEN c ELSE file[p]
  BY <1>1, <1>2 DEF Triple
<1>4. Creation' /\ Matching'
  <2>1. \A v \in At(Creating)' : v \in At(Creating) /\ seen'[v] = seen[v]
    BY <1>1, OthersStay DEF At, Creating
  <2> QED
    BY <1>1, <2>1 DEF Identified, Creation, Matching
<1>5. ASSUME ~raced' PROVE (Alone /\ Written12 /\ Settled /\ Reading)'
  <2>1. ~raced /\ Alone' /\ Alone /\ Written12 /\ Settled /\ Reading
    BY <1>5, AloneStays DEF Identified
  <2>2. At(Creating)' = {}
    BY <2>1, <1>1, OthersStay DEF Alone, Several, At, Creating
  <2>3. file' = file \/ pc[w] = "fill"
    BY <1>1, <1>2 DEF Triple, At, Creating
  <2>4. CASE file' = file
    <3>1. Settled'
      BY <2>1, <2>4, <1>1 DEF Settled
    <3>2. Reading'
      BY <2>1, <2>4, OthersStay DEF Reading, At
    <3> QED
      BY <2>1, <2>2, <3>1, <3>2 DEF Written12
  <2>5. CASE pc[w] = "fill" /\ at[w] < 3
    <3>1. file[3] = Absent /\ file'[3] = Absent
      BY <2>1, <2>5, <1>1, <1>3, Basics DEF Written12
    <3>2. At({"read"})' = {} /\ used = {}
      BY <3>1, <2>1, NobodyReads, OthersStay DEF Settled
    <3> QED
      BY <2>1, <2>2, <3>1, <3>2, <1>1 DEF Written12, Settled, Reading
  <2>6. CASE pc[w] = "fill" /\ at[w] = 3
    <3>0. seen[w][1] = file[1] /\ seen[w][3] = file[1] /\ file[1] \in Identity
      BY <2>1, <2>6, <1>1, Basics DEF Written12, Identified, Creation
    <3>1. c \in {Empty, Piece(file[1]), file[1]}
      BY <3>0, <2>1, <2>6, <1>1, <1>2 DEF Written12, OwnSoFar, Unfinished
    <3>4. /\ file[3] # Absent /\ file'[3] = c /\ file'[3] # Absent
          /\ file'[1] = file[1] /\ file'[2] = file[2]
      BY <3>0, <3>1, <2>1, <2>6, <1>1, <1>3, Basics, Contents DEF Written12
    <3>2. Settled'
      <4>1. used' = {}
        BY <2>1, <1>1 DEF Written12
      <4> QED
        BY <3>1, <3>4, <4>1, <2>1 DEF Settled
    <3>3. Reading'
      <4>1. \A v \in At({"read"})' :
              v \in At({"read"}) /\ at'[v] = at[v] /\ seen'[v] = seen[v] /\ at[v] \in Part
        BY OthersStay DEF At, TypeOK, IdentityTypes
      <4> QED
        BY <3>4, <4>1, <2>1, <2>6, <1>3 DEF Reading, Part
    <3> QED
      BY <2>1, <2>2, <3>2, <3>3 DEF Written12
  <2> QED
    BY <2>3, <2>4, <2>5, <2>6, <1>1 DEF Part
<1> QED
  BY <1>4, <1>5 DEF Identified

(* A piece of unique_id is there, and nobody has an identity yet.          *)
LEMMA FilledInPart ==
  ASSUME Identified, TypeOK, Observe, NEW w \in Worker, FillSome(w)
  PROVE  Identified'
<1>1. /\ UNCHANGED <<used, pc, at, seen>>
      /\ pc[w] = "fill" /\ at[w] = 3 /\ file \in Triple
      /\ w \in At(Creating)
      /\ file' = [file EXCEPT ![3] = Unfinished(w)]
  BY DEF FillSome, worker, TypeOK, IdentityTypes, At, Creating
<1>2. Creation' /\ Matching'
  BY <1>1 DEF Identified, Creation, Matching, At
<1>3. ASSUME ~raced' PROVE (Alone /\ Written12 /\ Settled /\ Reading)'
  <2>1. ~raced /\ Alone' /\ Alone /\ Written12 /\ Settled /\ Reading
    BY <1>3, AloneStays DEF Identified
  <2>2. At(Creating)' = {w}
    BY <2>1, <1>1 DEF Alone, Several, At
  <2>3. /\ OwnSoFar(w) /\ file[3] # Absent /\ used = {}
        /\ file[1] = seen[w][1] /\ file[1] \in Identity /\ seen[w][3] = seen[w][1]
    BY <2>1, <1>1, Basics DEF Written12, Identified, Creation
  <2>4. /\ file'[1] = file[1] /\ file'[2] = file[2] /\ file'[3] = Piece(file[1])
        /\ file'[3] # Absent
    BY <2>3, <1>1, Basics, Contents DEF Triple, Unfinished
  <2>5. \A p \in Part : p < 3 => file'[p] = file[p]
    BY <2>4, Basics
  <2>6. Written12'
    BY <2>1, <2>2, <2>3, <2>4, <2>5, <1>1 DEF Written12, OwnSoFar
  <2>7. Settled'
    BY <2>1, <2>3, <2>4, <1>1 DEF Settled
  <2>8. Reading'
    <3>1. \A v \in At({"read"})' : v \in At({"read"}) /\ at[v] \in Part
      BY <1>1 DEF At, TypeOK, IdentityTypes
    <3> QED
      BY <3>1, <2>1, <2>4, <2>5, <1>1 DEF Reading, Part
  <2> QED
    BY <2>1, <2>6, <2>7, <2>8
<1> QED
  BY <1>2, <1>3 DEF Identified

LEMMA IdentifiedStays == TypeOK /\ Identified /\ [Next]_vars => Identified'
<1>1. CASE UNCHANGED vars
  <2>1. UNCHANGED <<pc, at, seen, file, used, raced>>
    BY <1>1 DEF vars, worker, identity
  <2> QED
    BY <2>1 DEF Identified, Creation, Matching, Alone, Several, At, Written12, OwnSoFar,
       Settled, Reading
<1>2. ASSUME TypeOK, Identified, Observe, NEW w \in Worker, WorkerStep(w) PROVE Identified'
  BY <1>2, StepsAside, Reader, LastReader, Generated, Opened, FilledInPart, Filled,
     Abandoned DEF WorkerStep
<1> QED
  BY <1>1, <1>2, WindowAside DEF Next

-----------------------------------------------------------------------------
(* The hosts                                                               *)

LEMMA Readable ==
  /\ Absent \notin Document /\ Empty \notin Document /\ Torn \notin Document
  /\ Absent \notin Damage
BY FilesAssumption DEF Damage

LEMMA StartRemembered == Init => Remembered
<1> SUFFICES ASSUME Init PROVE Remembered
  OBVIOUS
<1>1. At(Saving) = {} /\ At({"openHosts"}) = {} /\ At({"fillHosts"}) = {}
  BY DEF Init, At, Saving
<1>2. hostsFile \notin Document
  BY Readable DEF Init
<1> QED
  BY <1>1, <1>2 DEF Init, Remembered, Several, HostsKept

(* Steps that touch no hosts, and that bring no worker to saving them.     *)
LEMMA HistoryAside ==
  ASSUME Remembered, Observe, UNCHANGED history,
         \A v \in At(Saving)' : pc'[v] = pc[v] /\ goal'[v] = goal[v] /\ doc'[v] = doc[v]
  PROVE  Remembered'
<1>1. /\ At(Saving)' \subseteq At(Saving)
      /\ At({"openHosts"})' \subseteq At({"openHosts"})
      /\ At({"fillHosts"})' \subseteq At({"fillHosts"})
  BY DEF At, Saving
<1>2. ASSUME ~crowded' PROVE ~crowded
  BY <1>2 DEF Observe
<1>3. \A v \in At(Saving)' : Prepared(v) => Prepared(v)'
  BY DEF Prepared, history
<1> QED
  BY <1>1, <1>2, <1>3 DEF Remembered, HostsKept, history, Several

LEMMA WorkersAside ==
  ASSUME Remembered, TypeOK, Observe, NEW w \in Worker,
         \/ \E h \in Host : Begin(w, h)
         \/ Check(w) \/ AllExist(w) \/ Incomplete(w) \/ Generate(w)
         \/ OpenPart(w) \/ FillSome(w) \/ FillPart(w) \/ CreateFails(w)
         \/ Read(w) \/ ReadLast(w)
         \/ Connected(w) \/ CallEnds(w) \/ LoadHostsFails(w)
  PROVE  Remembered'
<1>1. UNCHANGED history
  BY DEF Begin, Check, AllExist, Incomplete, Generate, OpenPart, FillSome, FillPart, CreateFails,
     Read, ReadLast, Connected, CallEnds, LoadHostsFails
<1>2. pc'[w] \notin Saving
  BY DEF Begin, Check, AllExist, Incomplete, Generate, OpenPart, FillSome, FillPart, CreateFails,
     Read, ReadLast, Connected, CallEnds, LoadHostsFails, Return, worker, Saving, TypeOK, IdentityTypes
<1>3. \A v \in Worker \ {w} : pc'[v] = pc[v] /\ goal'[v] = goal[v] /\ doc'[v] = doc[v]
  BY DEF Begin, Check, AllExist, Incomplete, Generate, OpenPart, FillSome, FillPart, CreateFails,
     Read, ReadLast, Connected, CallEnds, LoadHostsFails, Return, worker, TypeOK, IdentityTypes, HistoryTypes
<1> QED
  BY <1>1, <1>2, <1>3, HistoryAside DEF At

LEMMA WindowBeside ==
  ASSUME Remembered, Observe,
         (\E s \in Setting : SaveSettings(s)) \/ SaveSettingsFails \/ Restart
  PROVE  Remembered'
<1>1. CASE (\E s \in Setting : SaveSettings(s)) \/ SaveSettingsFails
  <2>1. UNCHANGED history /\ UNCHANGED <<pc, goal, doc>>
    BY <1>1 DEF SaveSettings, SaveSettingsFails, worker
  <2> QED
    BY <2>1, HistoryAside DEF At
<1>2. CASE Restart
  <2>1. UNCHANGED history /\ \A v \in Worker : pc'[v] = "off"
    BY <1>2 DEF Restart
  <2> QED
    BY <2>1, HistoryAside DEF At, Saving
<1> QED
  BY <1>1, <1>2

(* As long as nobody has met another saver, the one that saves is alone.   *)
LEMMA AloneSaves == Observe /\ ~crowded' => ~crowded /\ ~Several(At(Saving))'
BY DEF Observe

LEMMA HostsLoaded ==
  ASSUME Remembered, TypeOK, Observe, NEW w \in Worker, LoadHosts(w)
  PROVE  Remembered'
<1>1. PICK d \in Loaded : doc' = [doc EXCEPT ![w] = Remember(d, goal[w])]
  BY DEF LoadHosts
<1>2. /\ UNCHANGED <<hostsFile, kept, goal>>
      /\ pc[w] = "loadHosts" /\ pc'[w] = "openHosts"
      /\ doc'[w] = Remember(d, goal[w])
      /\ w \in At(Saving)'
  BY <1>1 DEF LoadHosts, history, TypeOK, IdentityTypes, HistoryTypes, At, Saving
<1> SUFFICES ASSUME ~crowded' PROVE Remembered'
  BY DEF Remembered
<1>3. ~crowded /\ ~Several(At(Saving))'
  BY AloneSaves
<1>4. At(Saving)' = {w} /\ At({"openHosts"})' \subseteq {w} /\ At({"fillHosts"})' = {}
  <2>1. At(Saving)' = {w}
    BY <1>2, <1>3 DEF Several
  <2> QED
    BY <2>1, <1>2 DEF At, Saving
<1>5. kept.hosts \subseteq d.hosts /\ hostsFile \notin Damage
  <2>1. CASE hostsFile = Absent
    BY <2>1, <1>1, <1>3, Readable DEF Loaded, Remembered, NoHosts
  <2>2. CASE hostsFile # Absent
    <3>1. hostsFile \notin Damage /\ d = hostsFile
      BY <2>2, <1>1 DEF Loaded
    <3>2. hostsFile \in Document
      BY <2>2, <3>1 DEF TypeOK, HistoryTypes, Damage
    <3> QED
      BY <3>1, <3>2, <1>3 DEF Remembered, HostsKept
  <2> QED
    BY <2>1, <2>2
<1>6. Prepared(w)'
  BY <1>2, <1>5 DEF Prepared, Remember
<1> QED
  BY <1>2, <1>3, <1>4, <1>5, <1>6 DEF Remembered, HostsKept

LEMMA Savers ==
  ASSUME Remembered, TypeOK, Observe, NEW w \in Worker,
         OpenHosts(w) \/ FillHosts(w) \/ SaveHostsFails(w), ~crowded'
  PROVE  /\ ~crowded /\ ~Several(At(Saving))'
         /\ At(Saving) = {w} /\ At(Saving)' \subseteq {w}
         /\ Prepared(w)
         /\ pc[w] = "fillHosts" => hostsFile = Empty
<1>1. ~crowded /\ ~Several(At(Saving))'
  BY AloneSaves
<1>2. w \in At(Saving)
  BY DEF OpenHosts, FillHosts, SaveHostsFails, At, Saving
<1>3. \A v \in Worker \ {w} : pc'[v] = pc[v]
  BY DEF OpenHosts, FillHosts, SaveHostsFails, Return, TypeOK, IdentityTypes
<1>4. At(Saving) = {w}
  BY <1>1, <1>2 DEF Remembered, Several
<1>5. At(Saving)' \subseteq {w}
  BY <1>3, <1>4 DEF At
<1> QED
  BY <1>1, <1>2, <1>4, <1>5 DEF Remembered, At

LEMMA HostsOpened ==
  ASSUME Remembered, TypeOK, Observe, NEW w \in Worker, OpenHosts(w)
  PROVE  Remembered'
<1> SUFFICES ASSUME ~crowded' PROVE Remembered'
  BY DEF Remembered
<1>1. /\ ~Several(At(Saving))' /\ At(Saving)' \subseteq {w} /\ Prepared(w)
  BY Savers
<1>2. hostsFile' = Empty /\ UNCHANGED <<kept, goal, doc>> /\ pc'[w] = "fillHosts"
  BY DEF OpenHosts, TypeOK, IdentityTypes
<1>3. Prepared(w)'
  BY <1>1, <1>2 DEF Prepared
<1>4. At({"openHosts"})' = {}
  BY <1>1, <1>2 DEF At, Saving
<1> QED
  BY <1>1, <1>2, <1>3, <1>4, Readable, Contents DEF Remembered, HostsKept

LEMMA HostsFilled ==
  ASSUME Remembered, TypeOK, Observe, NEW w \in Worker, FillHosts(w)
  PROVE  Remembered'
<1> SUFFICES ASSUME ~crowded' PROVE Remembered'
  BY DEF Remembered
<1>1. /\ ~Several(At(Saving))' /\ At(Saving)' \subseteq {w} /\ Prepared(w)
      /\ hostsFile = Empty
  BY Savers DEF FillHosts
<1>2. hostsFile' = doc[w] /\ kept' = Remember(kept, goal[w]) /\ pc'[w] = "off"
  BY <1>1 DEF FillHosts, Written, Return, TypeOK, IdentityTypes
<1>3. At(Saving)' = {} /\ At({"openHosts"})' = {} /\ At({"fillHosts"})' = {}
  BY <1>1, <1>2 DEF At, Saving
<1>4. hostsFile' # Absent
  BY <1>2, Readable DEF TypeOK, HistoryTypes
<1>5. kept'.hosts \subseteq hostsFile'.hosts /\ kept'.last = hostsFile'.last
  BY <1>1, <1>2 DEF Prepared, Remember
<1> QED
  BY <1>1, <1>3, <1>4, <1>5 DEF Remembered, HostsKept

LEMMA HostsGivenUp ==
  ASSUME Remembered, TypeOK, Observe, NEW w \in Worker, SaveHostsFails(w)
  PROVE  Remembered'
<1> SUFFICES ASSUME ~crowded' PROVE Remembered'
  BY DEF Remembered
<1>1. /\ ~crowded /\ ~Several(At(Saving))' /\ At(Saving)' \subseteq {w}
      /\ pc[w] = "fillHosts" => hostsFile = Empty
  BY Savers
<1>2. UNCHANGED kept /\ pc'[w] = "off"
  BY DEF SaveHostsFails, Return, TypeOK, IdentityTypes
<1>3. At(Saving)' = {} /\ At({"openHosts"})' = {} /\ At({"fillHosts"})' = {}
  BY <1>1, <1>2 DEF At, Saving
<1>4. hostsFile' = hostsFile \/ hostsFile' \in Damage
  BY <1>1 DEF SaveHostsFails, Cut, Damage, Saving
<1> QED
  BY <1>1, <1>2, <1>3, <1>4, Readable DEF Remembered, HostsKept, Damage

LEMMA RememberedStays == TypeOK /\ Remembered /\ [Next]_vars => Remembered'
<1>1. CASE UNCHANGED vars
  <2>1. UNCHANGED <<pc, goal, doc, hostsFile, kept, crowded>>
    BY <1>1 DEF vars, worker, history
  <2> QED
    BY <2>1 DEF Remembered, Several, At, Prepared, HostsKept
<1>2. ASSUME TypeOK, Remembered, Observe, NEW w \in Worker, WorkerStep(w) PROVE Remembered'
  BY <1>2, WorkersAside, HostsLoaded, HostsOpened, HostsFilled, HostsGivenUp DEF WorkerStep
<1> QED
  BY <1>1, <1>2, WindowBeside DEF Next

-----------------------------------------------------------------------------
(* The settings                                                            *)

LEMMA StartAgrees == Init => SettingsAgree
BY DEF Init, SettingsAgree

LEMMA AgreeStays == TypeOK /\ SettingsAgree /\ [Next]_vars => SettingsAgree'
<1> SUFFICES ASSUME TypeOK, SettingsAgree, [Next]_vars PROVE SettingsAgree'
  OBVIOUS
<1>1. CASE UNCHANGED preferences
  BY <1>1 DEF preferences, SettingsAgree
<1>2. ASSUME NEW w \in Worker, WorkerStep(w) PROVE UNCHANGED preferences
  BY <1>2 DEF WorkerStep, Begin, Check, AllExist, Incomplete, Generate, OpenPart, FillSome,
     FillPart, CreateFails, Read, ReadLast, Connected, CallEnds, LoadHosts, LoadHostsFails, OpenHosts,
     FillHosts, SaveHostsFails
<1>3. ASSUME NEW s \in Setting, SaveSettings(s) PROVE SettingsAgree'
  BY <1>3 DEF SaveSettings, SettingsAgree
<1>4. CASE SaveSettingsFails
  BY <1>4 DEF SaveSettingsFails, SettingsAgree
<1>5. CASE Restart
  <2>1. PICK stored \in Cut(settings) : settings' = stored /\ LoadSettings(stored)
    BY <1>5 DEF Restart
  <2>2. stored \in Setting \cup {Absent, Torn}
    BY <2>1 DEF Cut, TypeOK, PreferenceTypes
  <2>3. Absent \notin Setting
    BY FilesAssumption
  <2> QED
    BY <2>1, <2>2, <2>3 DEF LoadSettings, SettingsAgree
<1>6. CASE UNCHANGED vars
  BY <1>1, <1>6 DEF vars
<1> QED
  BY <1>1, <1>2, <1>3, <1>4, <1>5, <1>6 DEF Next

-----------------------------------------------------------------------------
IInv == TypeOK /\ Identified /\ Remembered /\ SettingsAgree

LEMMA Inductive == Spec => []IInv
<1>1. Init => IInv
  BY StartTypes, StartIdentified, StartRemembered, StartAgrees DEF IInv
<1>2. IInv /\ [Next]_vars => IInv'
  BY Types, IdentifiedStays, RememberedStays, AgreeStays DEF IInv, Identified
<1> QED
  BY <1>1, <1>2, PTL DEF Spec

(* The types of the files, of what the workers hold and of the settings.   *)
THEOREM Typed == Spec => []TypeOK
BY Inductive, PTL DEF IInv

(***************************************************************************)
(* Every caller gets an identity whose key belongs to its certificate, and *)
(* all callers the same one, whole or with its unique_id cut short, over   *)
(* any number of crashes, failed writes and starts, unless a worker        *)
(* created it, or was given it, while another was creating it.             *)
(***************************************************************************)
THEOREM OneIdentity == Spec => []SameIdentity
<1>1. IInv => SameIdentity
  <2> SUFFICES ASSUME IInv PROVE SameIdentity
    OBVIOUS
  <2>1. \A t \in used : t[1] = t[2]
    BY DEF IInv, Identified, Matching
  <2>2. ~raced => \A t, u \in used : t = u
    BY DEF IInv, Identified, Settled
  <2> QED
    BY <2>1, <2>2 DEF SameIdentity
<1> QED
  BY Inductive, <1>1, PTL

(***************************************************************************)
(* No host that was saved is lost while hosts.json can be read, unless two *)
(* workers saved at once.                                                  *)
(***************************************************************************)
THEOREM NoHostLost == Spec => []HostsKept
<1>1. IInv => HostsKept
  BY DEF IInv, Remembered, HostsKept
<1> QED
  BY Inductive, <1>1, PTL

(* The page, the controllers and the file agree or the page says why not.  *)
THEOREM Agree == Spec => []SettingsAgree
BY Inductive, PTL DEF IInv

=============================================================================
