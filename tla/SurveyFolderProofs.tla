------------------------- MODULE SurveyFolderProofs -------------------------
(***************************************************************************)
(* Proofs about SurveyFolder for any runs, radios and sweeps, any number of*)
(* faults: a signal path that was surveyed keeps a survey, and what people *)
(* fill into a draft stays there.  And about LinkBringUp for any contents  *)
(* of link.json, any sweeps and any number of runs: the two boxes that     *)
(* were brought up use the same carriers.                                  *)
(***************************************************************************)
EXTENDS SurveyFolder, LinkBringUp, TLAPS

Domains ==
  /\ DOMAIN pc = Preparers /\ DOMAIN found = Preparers
  /\ DOMAIN doomed = Preparers /\ DOMAIN target = Preparers

-----------------------------------------------------------------------------
(* A name that is in the folder, or that a run will write or remove, was   *)
(* taken.                                                                  *)
Publishing(p) == pc[p] \in {"list", "replace"}

NamesAreTaken ==
  /\ \A f \in files : Name(f) \in taken
  /\ \A p \in Preparers : doomed[p] \subseteq taken
  /\ \A p \in Preparers : Publishing(p) => Name(found[p]) \in taken

(* Nobody else has the name of a survey that is not published yet.         *)
UnpublishedAreNew ==
  \A p \in Preparers : Publishing(p) /\ Base(found[p]) \notin clashed =>
    /\ \A f \in files : Name(f) # Name(found[p])
    /\ \A q \in Preparers : Name(found[p]) \notin doomed[q]
    /\ \A q \in Preparers \ {p} : Publishing(q) => Name(found[q]) # Name(found[p])

(* A run removes surveys of its own path only.                             *)
RemovesItsOwn ==
  \A p \in Preparers : pc[p] \in {"replace", "remove"} =>
    \A name \in doomed[p] : name[1] = Base(found[p])

(* Some survey of the path is on nobody's list.                            *)
Spared(f) == \A q \in Preparers : pc[q] = "remove" => Name(f) \notin doomed[q]

PathHasSpared ==
  \A b \in published \ clashed : \E f \in files : Base(f) = b /\ Spared(f)

PInv == Domains /\ NamesAreTaken /\ UnpublishedAreNew /\ RemovesItsOwn /\ PathHasSpared

LEMMA Names ==
  /\ \A s : Name(s) = <<Base(s), s.at>> /\ Name(s)[1] = Base(s)
  /\ \A s, t : Name(s) = Name(t) => Base(s) = Base(t)
BY DEF Name

LEMMA PathInit == Init => PInv
<1> SUFFICES ASSUME Init PROVE PInv
  OBVIOUS
<1>1. /\ files = Prior /\ taken = {Name(s) : s \in Prior}
      /\ published = {Base(s) : s \in Prior}
      /\ pc = [p \in Preparers |-> "next"] /\ doomed = [p \in Preparers |-> {}]
      /\ Domains
  BY DEF Init, Domains
<1>2. NamesAreTaken /\ UnpublishedAreNew /\ RemovesItsOwn
  BY <1>1 DEF NamesAreTaken, UnpublishedAreNew, RemovesItsOwn, Publishing
<1>3. PathHasSpared
  BY <1>1 DEF PathHasSpared, Spared
<1> QED BY <1>1, <1>2, <1>3 DEF PInv

(* A step of one run that leaves the folder alone and does not start to    *)
(* publish or to remove.                                                   *)
LEMMA PathAside ==
  ASSUME PInv, NEW p \in Preparers, NEW place \in {"next", "pick", "measure", "record",
           "look", "draft", "verify", "gone"},
         pc' = [pc EXCEPT ![p] = place],
         UNCHANGED <<files, doomed, published, taken, clashed>>,
         found' = found \/ (found' = [found EXCEPT ![p] = found'[p]]),
         DOMAIN target' = Preparers
  PROVE  PInv'
<1>1. /\ pc'[p] = place /\ \A q \in Preparers \ {p} : pc'[q] = pc[q] /\ found'[q] = found[q]
      /\ Domains'
  BY DEF PInv, Domains
<1>2. \A q \in Preparers : Publishing(q)' => Publishing(q) /\ q # p /\ found'[q] = found[q]
  BY <1>1 DEF Publishing
<1>3. \A q \in Preparers : pc'[q] \in {"replace", "remove"} =>
                              pc'[q] = pc[q] /\ q # p /\ found'[q] = found[q]
  BY <1>1
<1>4. NamesAreTaken'
  BY <1>2 DEF PInv, NamesAreTaken, Name, Base
<1>5. UnpublishedAreNew'
  <2>1. \A f : Name(f)' = Name(f) /\ Base(f)' = Base(f)
    BY DEF Name, Base
  <2>2. \A q \in Preparers : Publishing(q)' => /\ Base(found[q])' = Base(found[q])
                                             /\ Name(found[q])' = Name(found[q])
    BY <1>2 DEF Name, Base
  <2> QED BY <1>2, <2>1, <2>2 DEF PInv, UnpublishedAreNew
<1>6. RemovesItsOwn'
  BY <1>3 DEF PInv, RemovesItsOwn, Base
<1>7. PathHasSpared'
  <2>1. \A f : Name(f)' = Name(f) /\ Base(f)' = Base(f)
    BY DEF Name, Base
  <2>2. \A f : Spared(f) => Spared(f)'
    BY <1>3, <2>1 DEF Spared
  <2> QED BY <2>1, <2>2 DEF PInv, PathHasSpared
<1> QED BY <1>1, <1>4, <1>5, <1>6, <1>7 DEF PInv

LEMMA PathFrame ==
  PInv /\ UNCHANGED <<files, pc, found, doomed, published, taken, clashed>>
       /\ DOMAIN target' = Preparers => PInv'
<1> SUFFICES ASSUME PInv, DOMAIN target' = Preparers,
                    UNCHANGED <<files, pc, found, doomed, published, taken, clashed>>
             PROVE  PInv'
  OBVIOUS
<1>1. /\ Domains' /\ files' = files /\ pc' = pc /\ found' = found /\ doomed' = doomed
      /\ published' = published /\ taken' = taken /\ clashed' = clashed
  BY DEF PInv, Domains
<1>2. /\ \A f : Name(f)' = Name(f) /\ Base(f)' = Base(f) /\ Spared(f)' = Spared(f)
      /\ \A q : Publishing(q)' = Publishing(q)
  BY <1>1 DEF Name, Base, Spared, Publishing
<1>3. NamesAreTaken' /\ UnpublishedAreNew'
  BY <1>1, <1>2 DEF PInv, NamesAreTaken, UnpublishedAreNew
<1>4. RemovesItsOwn' /\ PathHasSpared'
  BY <1>1, <1>2 DEF PInv, RemovesItsOwn, PathHasSpared
<1> QED BY <1>1, <1>3, <1>4 DEF PInv

LEMMA PathTake == ASSUME PInv, NEW p \in Preparers, Take(p) PROVE PInv'
<1>1. PICK s : /\ found' = [found EXCEPT ![p] = s]
               /\ taken' = taken \cup {Name(s)}
               /\ clashed' = IF Name(s) \in taken THEN clashed \cup {Base(s)} ELSE clashed
  BY DEF Take
<1>2. /\ pc' = [pc EXCEPT ![p] = "list"]
      /\ UNCHANGED <<files, doomed, target, published>>
  BY DEF Take, Goto, shared
<1>3. /\ pc'[p] = "list" /\ found'[p] = s /\ Domains'
      /\ \A q \in Preparers \ {p} : pc'[q] = pc[q] /\ found'[q] = found[q]
  BY <1>1, <1>2 DEF PInv, Domains
<1>4. /\ clashed \subseteq clashed' /\ taken \subseteq taken' /\ Name(s) \in taken'
      /\ Name(s) \in taken => Base(s) \in clashed'
  BY <1>1
<1>5. \A q \in Preparers \ {p} : Publishing(q)' <=> Publishing(q)
  BY <1>3 DEF Publishing
<1>6. \A f : Name(f)' = Name(f) /\ Base(f)' = Base(f)
  BY DEF Name, Base
<1>7. NamesAreTaken'
  BY <1>2, <1>3, <1>4, <1>5, <1>6 DEF PInv, NamesAreTaken
<1>8. UnpublishedAreNew'
  <2> SUFFICES ASSUME NEW q \in Preparers, Publishing(q)', Base(found'[q]) \notin clashed'
               PROVE  /\ \A f \in files : Name(f) # Name(found'[q])
                      /\ \A r \in Preparers : Name(found'[q]) \notin doomed[r]
                      /\ \A r \in Preparers \ {q} :
                           Publishing(r)' => Name(found'[r]) # Name(found'[q])
    BY <1>2, <1>6 DEF UnpublishedAreNew
  <2>1. CASE q = p
    <3>1. Name(s) \notin taken
      BY <1>3, <1>4, <2>1
    <3> QED BY <1>3, <1>5, <2>1, <3>1 DEF PInv, NamesAreTaken
  <2>2. CASE q # p
    <3>1. Publishing(q) /\ found'[q] = found[q] /\ Base(found[q]) \notin clashed
      BY <1>3, <1>4, <1>5, <2>2
    <3>2. Name(s) # Name(found[q])
      BY <1>4, <1>3, <2>2, <3>1, Names DEF PInv, NamesAreTaken
    <3> QED BY <1>3, <1>5, <3>1, <3>2 DEF PInv, UnpublishedAreNew
  <2> QED BY <2>1, <2>2
<1>9. RemovesItsOwn'
  BY <1>2, <1>3, <1>6 DEF PInv, RemovesItsOwn
<1>10. PathHasSpared'
  <2>1. \A f : Spared(f) => Spared(f)'
    BY <1>2, <1>3, <1>6 DEF Spared
  <2> QED BY <1>2, <1>4, <1>6, <2>1 DEF PInv, PathHasSpared
<1> QED BY <1>3, <1>7, <1>8, <1>9, <1>10 DEF PInv

LEMMA PathList == ASSUME PInv, NEW p \in Preparers, List(p) PROVE PInv'
<1>1. /\ pc[p] = "list" /\ doomed' = [doomed EXCEPT ![p] = Superseded(p)]
      /\ pc' = [pc EXCEPT ![p] = "replace"]
      /\ UNCHANGED <<files, found, target, published, taken, clashed>>
  BY DEF List, Goto, shared, history
<1>2. /\ pc'[p] = "replace" /\ doomed'[p] = Superseded(p) /\ Domains'
      /\ \A q \in Preparers \ {p} : pc'[q] = pc[q] /\ doomed'[q] = doomed[q]
  BY <1>1 DEF PInv, Domains
<1>3. \A q \in Preparers : Publishing(q)' <=> Publishing(q)
  BY <1>1, <1>2 DEF Publishing
<1>4. \A f : Name(f)' = Name(f) /\ Base(f)' = Base(f)
  BY DEF Name, Base
<1>5. \A name \in Superseded(p) : /\ \E f \in files : name = Name(f)
                                  /\ name[1] = Base(found[p])
  BY Names DEF Superseded
<1>6. NamesAreTaken'
  BY <1>1, <1>2, <1>3, <1>4, <1>5 DEF PInv, NamesAreTaken
<1>7. UnpublishedAreNew'
  BY <1>1, <1>2, <1>3, <1>4, <1>5 DEF PInv, UnpublishedAreNew
<1>8. RemovesItsOwn'
  BY <1>1, <1>2, <1>4, <1>5 DEF PInv, RemovesItsOwn
<1>9. PathHasSpared'
  <2>1. \A f : Spared(f) => Spared(f)'
    BY <1>1, <1>2, <1>4 DEF Spared
  <2> QED BY <1>1, <1>4, <2>1 DEF PInv, PathHasSpared
<1> QED BY <1>2, <1>6, <1>7, <1>8, <1>9 DEF PInv

LEMMA PathReplace == ASSUME PInv, NEW p \in Preparers, Replace(p) PROVE PInv'
<1> DEFINE s == found[p]
<1>1. /\ pc[p] = "replace" /\ files' = Without({Name(s)}) \cup {s}
      /\ published' = published \cup {Base(s)}
      /\ pc' = [pc EXCEPT ![p] = "remove"]
      /\ UNCHANGED <<found, doomed, target, taken, clashed>>
  BY DEF Replace, Goto
<1>2. /\ pc'[p] = "remove" /\ Domains'
      /\ \A q \in Preparers \ {p} : pc'[q] = pc[q]
  BY <1>1 DEF PInv, Domains
<1>3. /\ \A q \in Preparers : Publishing(q)' => Publishing(q) /\ q # p
      /\ Publishing(p)
  BY <1>1, <1>2 DEF Publishing
<1>4. \A f : Name(f)' = Name(f) /\ Base(f)' = Base(f)
  BY DEF Name, Base
<1>5. \A f \in files' : f = s \/ f \in files
  BY <1>1 DEF Without
<1>6. NamesAreTaken'
  BY <1>1, <1>3, <1>4, <1>5 DEF PInv, NamesAreTaken
<1>7. UnpublishedAreNew'
  BY <1>1, <1>3, <1>4, <1>5 DEF PInv, UnpublishedAreNew
<1>8. RemovesItsOwn'
  BY <1>1, <1>2, <1>4 DEF PInv, RemovesItsOwn
<1>9. PathHasSpared'
  <2> SUFFICES ASSUME NEW b \in published', b \notin clashed'
               PROVE  \E f \in files' : Base(f) = b /\ Spared(f)'
    BY <1>4 DEF PathHasSpared
  <2>1. CASE b = Base(s)
    <3>1. \A q \in Preparers : Name(s) \notin doomed[q]
      BY <1>1, <1>3, <2>1 DEF PInv, UnpublishedAreNew
    <3>2. Spared(s)'
      BY <1>1, <1>4, <3>1 DEF Spared
    <3> QED BY <1>1, <2>1, <3>2
  <2>2. CASE b # Base(s)
    <3>1. PICK f \in files : Base(f) = b /\ Spared(f)
      BY <1>1, <2>2 DEF PInv, PathHasSpared
    <3>2. f \in files'
      BY <1>1, <2>2, <3>1, Names DEF Without
    <3>3. Name(f) \notin doomed[p]
      BY <1>1, <2>2, <3>1, Names DEF PInv, RemovesItsOwn
    <3>4. Spared(f)'
      BY <1>1, <1>2, <1>4, <3>1, <3>3 DEF Spared
    <3> QED BY <3>1, <3>2, <3>4
  <2> QED BY <2>1, <2>2
<1> QED BY <1>2, <1>6, <1>7, <1>8, <1>9 DEF PInv

LEMMA PathSupersede ==
  ASSUME PInv, NEW p \in Preparers, NEW name \in doomed[p], Supersede(p, name)
  PROVE  PInv'
<1>1. /\ pc[p] = "remove" /\ files' \in {files, Without({name})}
      /\ doomed' = [doomed EXCEPT ![p] = @ \ {name}]
      /\ UNCHANGED <<pc, found, target, published, taken, clashed>>
  BY DEF Supersede, history
<1>2. /\ \A q \in Preparers : doomed'[q] \subseteq doomed[q] /\ Domains'
      /\ files' \subseteq files
      /\ \A f \in files : Name(f) # name => f \in files'
  BY <1>1 DEF PInv, Domains, Without
<1>3. \A f : Name(f)' = Name(f) /\ Base(f)' = Base(f)
  BY DEF Name, Base
<1>4. \A q \in Preparers : Publishing(q)' <=> Publishing(q)
  BY <1>1 DEF Publishing
<1>5. NamesAreTaken'
  BY <1>1, <1>2, <1>3, <1>4 DEF PInv, NamesAreTaken
<1>6. UnpublishedAreNew'
  BY <1>1, <1>2, <1>3, <1>4 DEF PInv, UnpublishedAreNew
<1>7. RemovesItsOwn'
  BY <1>1, <1>2, <1>3 DEF PInv, RemovesItsOwn
<1>8. PathHasSpared'
  <2>1. \A f \in files : Spared(f) => f \in files' /\ Spared(f)'
    BY <1>1, <1>2, <1>3 DEF Spared
  <2> QED BY <1>1, <1>3, <2>1 DEF PInv, PathHasSpared
<1> QED BY <1>2, <1>5, <1>6, <1>7, <1>8 DEF PInv

LEMMA PathStep == PInv /\ [Next]_vars => PInv'
<1> SUFFICES ASSUME PInv, [Next]_vars PROVE PInv'
  OBVIOUS
<1>1. ASSUME NEW p \in Preparers, Prepare(p) PROVE PInv'
  <2>1. CASE Begin(p)
    BY <2>1, PathAside DEF Begin, Goto, shared, history, PInv, Domains
  <2>2. CASE Fails(p) \/ DraftFails(p) \/ Kill(p) \/ Verify(p)
    BY <2>2, PathAside DEF Fails, DraftFails, Kill, Verify, AfterDraft, Goto, shared,
       history, PInv, Domains
  <2>3. CASE Measure(p)
    <3>1. found' = [found EXCEPT ![p] = found'[p]] /\ DOMAIN target' = Preparers
      BY <2>3 DEF Measure, PInv, Domains
    <3> QED BY <2>3, <3>1, PathAside DEF Measure, Goto, shared, history
  <2>4. CASE Frequencies(p)
    BY <2>4, PathAside DEF Frequencies, Goto, history, PInv, Domains
  <2>5. CASE Pick(p)
    <3>1. /\ found' = found \/ found' = [found EXCEPT ![p] = found'[p]]
          /\ DOMAIN target' = Preparers
      BY <2>5 DEF Pick, PInv, Domains
    <3> QED BY <2>5, <3>1, PathAside DEF Pick, Goto, shared, history
  <2>6. ASSUME NEW name \in DraftNames(p), Refuse(p, name) PROVE PInv'
    BY <2>6, PathAside DEF Refuse, AfterDraft, Goto, shared, history, PInv, Domains
  <2>7. ASSUME NEW name \in DraftNames(p), Look(p, name) PROVE PInv'
    BY <2>7, PathAside DEF Look, Goto, shared, PInv, Domains
  <2>8. CASE WriteDraft(p)
    BY <2>8, PathAside DEF WriteDraft, AfterDraft, Goto, history, PInv, Domains
  <2> QED BY <1>1, <2>1, <2>2, <2>3, <2>4, <2>5, <2>6, <2>7, <2>8, PathTake, PathList,
             PathReplace, PathSupersede DEF Prepare
<1>2. ASSUME NEW d \in drafts, Edit(d) PROVE PInv'
  BY <1>2, PathFrame DEF Edit, run, history, PInv, Domains
<1>3. CASE Tick \/ UNCHANGED vars
  BY <1>3, PathFrame DEF Tick, vars, shared, run, history, PInv, Domains
<1> QED BY <1>1, <1>2, <1>3 DEF Next

(* A signal path that ever had a survey published has one in the folder    *)
(* (prepare_phy.py publish_profile), for any runs, failures and kills.     *)
THEOREM PathsStaySurveyed == Spec => []PathKeepsSurvey
<1>1. PInv => PathKeepsSurvey
  BY DEF PInv, PathHasSpared, PathKeepsSurvey
<1> QED BY <1>1, PathInit, PathStep, PTL DEF Spec

-----------------------------------------------------------------------------
(* A run that has settled to write a draft without --force found none of   *)
(* that name; there is none yet, and no other run will write it, unless the*)
(* two have raced for it.                                                  *)
Settled(p) == pc[p] = "draft" /\ ~Forced(p) /\ target[p] \notin raced

NothingToLose ==
  \A p \in Preparers : Settled(p) =>
    /\ ~Exists(target[p])
    /\ \A q \in Preparers \ {p} : pc[q] = "draft" => target[q] # target[p]

(* The draft it will write has the name it has looked for.                 *)
WritesItsTarget ==
  \A p \in Preparers : pc[p] = "draft" => DraftName(DraftOf(found[p], target[p][1])) = target[p]

DraftFields == \A d \in drafts : {"id", "at"} \subseteq DOMAIN d

EInv == Domains /\ DraftFields /\ NothingToLose /\ WritesItsTarget

LEMMA DraftNamed == \A s, id : DraftName(DraftOf(s, id)) = <<id, s.at>>
BY DEF DraftName, DraftOf

LEMMA EditInit == Init => EInv
<1> SUFFICES ASSUME Init PROVE EInv
  OBVIOUS
<1>1. pc = [p \in Preparers |-> "next"] /\ Domains
  BY DEF Init, Domains
<1>2. DraftFields
  BY DEF Init, DraftFields
<1> QED BY <1>1, <1>2 DEF EInv, NothingToLose, WritesItsTarget, Settled

(* A step of one run that writes no draft and does not settle to.          *)
LEMMA EditAside ==
  ASSUME EInv, NEW p \in Preparers, pc' = [pc EXCEPT ![p] = pc'[p]], pc'[p] # "draft",
         UNCHANGED <<target, drafts, raced>>, DOMAIN doomed' = Preparers,
         found' = found \/ (found' = [found EXCEPT ![p] = found'[p]])
  PROVE  EInv'
<1>1. /\ \A q \in Preparers \ {p} : pc'[q] = pc[q] /\ found'[q] = found[q]
      /\ Domains'
  BY DEF EInv, Domains
<1>2. \A q \in Preparers : pc'[q] = "draft" => q # p /\ pc[q] = "draft" /\ found'[q] = found[q]
  BY <1>1
<1>3. \A name : Exists(name)' <=> Exists(name)
  BY DEF Exists, DraftName
<1>4. NothingToLose'
  <2>1. \A q \in Preparers : Settled(q)' => Settled(q)
    BY <1>2 DEF Settled, Forced
  <2> QED BY <1>2, <1>3, <2>1 DEF EInv, NothingToLose
<1>5. WritesItsTarget'
  <2>1. \A q \in Preparers : pc'[q] = "draft" =>
          DraftName(DraftOf(found[q], target[q][1]))' = DraftName(DraftOf(found[q], target[q][1]))
    BY <1>2, DraftNamed
  <2> QED BY <1>2, <2>1 DEF EInv, WritesItsTarget
<1> QED BY <1>1, <1>4, <1>5 DEF EInv, DraftFields

LEMMA EditFrame ==
  ASSUME EInv, UNCHANGED <<pc, target, raced, found>>, DOMAIN doomed' = Preparers,
         {DraftName(d) : d \in drafts'} \subseteq {DraftName(d) : d \in drafts}, DraftFields'
  PROVE  EInv'
<1>1. \A name : Exists(name)' => Exists(name)
  BY DEF Exists, DraftName
<1>2. NothingToLose'
  BY <1>1 DEF EInv, NothingToLose, Settled, Forced
<1>3. WritesItsTarget'
  BY DEF EInv, WritesItsTarget, DraftName, DraftOf, Ranked
<1> QED BY <1>2, <1>3 DEF EInv, Domains

LEMMA EditLook ==
  ASSUME EInv, NEW p \in Preparers, NEW name \in DraftNames(p), Look(p, name)
  PROVE  EInv'
<1>1. /\ pc[p] = "look" /\ pc' = [pc EXCEPT ![p] = "draft"]
      /\ target' = [target EXCEPT ![p] = name]
      /\ ~Exists(name) \/ Forced(p)
      /\ raced' = raced \cup {target[q] : q \in {q \in Preparers : pc[q] = "draft"
                                                             /\ target[q] = name}}
      /\ UNCHANGED <<drafts, doomed, found>>
  BY DEF Look, Goto, shared
<1>2. /\ pc'[p] = "draft" /\ target'[p] = name /\ Domains'
      /\ \A q \in Preparers \ {p} : pc'[q] = pc[q] /\ target'[q] = target[q]
  BY <1>1 DEF EInv, Domains
<1>3. raced \subseteq raced' /\ \A q \in Preparers : pc[q] = "draft" /\ target[q] = name
                                                => name \in raced'
  BY <1>1
<1>4. \A n : Exists(n)' <=> Exists(n)
  BY <1>1 DEF Exists, DraftName
<1>5. NothingToLose'
  <2> SUFFICES ASSUME NEW q \in Preparers, Settled(q)'
               PROVE  /\ ~Exists(target'[q])
                      /\ \A r \in Preparers \ {q} : pc'[r] = "draft" => target'[r] # target'[q]
    BY <1>4 DEF NothingToLose
  <2>1. pc'[q] = "draft" /\ ~Forced(q) /\ target'[q] \notin raced'
    BY DEF Settled, Forced
  <2>2. CASE q = p
    BY <1>1, <1>2, <1>3, <2>1, <2>2
  <2>3. CASE q # p
    BY <1>2, <1>3, <2>1, <2>3 DEF EInv, NothingToLose, Settled
  <2> QED BY <2>2, <2>3
<1>6. WritesItsTarget'
  <2>1. name = <<name[1], found[p].at>>
    BY DEF DraftNames
  <2>2. \A s, id : DraftName(DraftOf(s, id))' = DraftName(DraftOf(s, id))
    BY DEF DraftName, DraftOf, Ranked
  <2> SUFFICES ASSUME NEW q \in Preparers, pc'[q] = "draft"
               PROVE  DraftName(DraftOf(found[q], target'[q][1])) = target'[q]
    BY <1>1, <2>2, DraftNamed DEF WritesItsTarget
  <2>3. CASE q = p
    BY <1>2, <2>1, <2>3, DraftNamed
  <2>4. CASE q # p
    BY <1>2, <2>4 DEF EInv, WritesItsTarget
  <2> QED BY <2>3, <2>4
<1> QED BY <1>1, <1>2, <1>5, <1>6 DEF EInv, DraftFields

LEMMA EditWrite == ASSUME EInv, NEW p \in Preparers, WriteDraft(p) PROVE EInv'
<1>1. /\ pc[p] = "draft" /\ pc' = [pc EXCEPT ![p] = pc'[p]] /\ pc'[p] # "draft"
      /\ drafts' = {d \in drafts : DraftName(d) # target[p]}
                      \cup {DraftOf(found[p], target[p][1])}
      /\ UNCHANGED <<doomed, found, target, raced>>
  BY DEF WriteDraft, AfterDraft, Goto, history, EInv, Domains
<1>2. /\ \A q \in Preparers \ {p} : pc'[q] = pc[q]
      /\ Domains'
  BY <1>1 DEF EInv, Domains
<1>3. \A q \in Preparers : pc'[q] = "draft" => q # p /\ pc[q] = "draft"
  BY <1>1, <1>2
<1>4. DraftName(DraftOf(found[p], target[p][1])) = target[p]
  BY <1>1 DEF EInv, WritesItsTarget
<1>5. \A name : Exists(name)' => Exists(name) \/ name = target[p]
  BY <1>1, <1>4 DEF Exists, DraftName
<1>6. NothingToLose'
  <2>1. \A q \in Preparers : Settled(q)' => Settled(q) /\ target[q] # target[p]
    BY <1>1, <1>3 DEF Settled, Forced, EInv, NothingToLose
  <2> QED BY <1>1, <1>3, <1>5, <2>1 DEF EInv, NothingToLose
<1>7. WritesItsTarget'
  <2>1. \A s, id : DraftName(DraftOf(s, id))' = DraftName(DraftOf(s, id))
    BY DEF DraftName, DraftOf, Ranked
  <2> QED BY <1>1, <1>3, <2>1 DEF EInv, WritesItsTarget
<1>8. DraftFields'
  BY <1>1 DEF EInv, DraftFields, DraftOf
<1> QED BY <1>2, <1>6, <1>7, <1>8 DEF EInv

LEMMA EditStep == EInv /\ [Next]_vars => EInv'
<1> SUFFICES ASSUME EInv, [Next]_vars PROVE EInv'
  OBVIOUS
<1>1. ASSUME NEW p \in Preparers, Prepare(p) PROVE EInv'
  <2>1. CASE Begin(p) \/ Fails(p) \/ Kill(p) \/ Verify(p) \/ Replace(p) \/ Frequencies(p)
    BY <2>1, EditAside DEF Begin, Fails, Kill, Verify, Replace, Frequencies, Goto, shared,
       history, EInv, Domains
  <2>2. CASE Measure(p) \/ Pick(p)
    <3>1. found' = found \/ found' = [found EXCEPT ![p] = found'[p]]
      BY <2>2 DEF Measure, Pick, EInv, Domains
    <3>2. pc' = [pc EXCEPT ![p] = pc'[p]] /\ pc'[p] # "draft"
      BY <2>2 DEF Measure, Pick, Goto, EInv, Domains
    <3> QED BY <2>2, <3>1, <3>2, EditAside DEF Measure, Pick, shared, history, EInv, Domains
  <2>3. CASE Take(p)
    <3>1. found' = [found EXCEPT ![p] = found'[p]]
      BY <2>3 DEF Take, EInv, Domains
    <3> QED BY <2>3, <3>1, EditAside DEF Take, Goto, shared, EInv, Domains
  <2>4. CASE List(p)
    BY <2>4, EditAside DEF List, Goto, shared, history, EInv, Domains
  <2>5. ASSUME NEW name \in doomed[p], Supersede(p, name) PROVE EInv'
    <3>1. drafts' = drafts /\ DOMAIN doomed' = Preparers
      BY <2>5 DEF Supersede, EInv, Domains
    <3> QED BY <2>5, <3>1, EditFrame DEF Supersede, history, EInv, DraftFields
  <2>6. ASSUME NEW name \in DraftNames(p), Refuse(p, name) PROVE EInv'
    BY <2>6, EditAside DEF Refuse, AfterDraft, Goto, shared, history, EInv, Domains
  <2>7. CASE DraftFails(p)
    BY <2>7, EditAside DEF DraftFails, AfterDraft, Goto, shared, history, EInv, Domains
  <2> QED BY <1>1, <2>1, <2>2, <2>3, <2>4, <2>5, <2>6, <2>7, EditLook, EditWrite DEF Prepare
<1>2. ASSUME NEW d \in drafts, Edit(d) PROVE EInv'
  <2>1. drafts' = (drafts \ {d}) \cup {[d EXCEPT !.edited = TRUE]}
    BY <1>2 DEF Edit
  <2>2. {DraftName(e) : e \in drafts'} \subseteq {DraftName(e) : e \in drafts}
    BY <2>1 DEF DraftName, EInv, DraftFields
  <2>3. DraftFields'
    BY <2>1 DEF EInv, DraftFields
  <2> QED BY <1>2, <2>2, <2>3, EditFrame DEF Edit, run, history, EInv, Domains
<1>3. CASE Tick \/ UNCHANGED vars
  BY <1>3, EditFrame DEF Tick, vars, shared, run, history, EInv, Domains, DraftFields
<1> QED BY <1>1, <1>2, <1>3 DEF Next

(* A step that takes an edited draft away writes another in its place, and *)
(* whoever does was forced or has raced.                                   *)
LEMMA EditKept ==
  ASSUME EInv, Next, NEW d \in drafts, d.edited, d \notin drafts'
  PROVE  \/ DraftName(d) \in raced
         \/ \E p \in Preparers : Forced(p) /\ pc[p] = "draft" /\ target[p] = DraftName(d)
<1>1. PICK p \in Preparers : WriteDraft(p)
  <2>1. ASSUME NEW p \in Preparers, Prepare(p) PROVE WriteDraft(p)
    <3>1. ~Begin(p) /\ ~Fails(p) /\ ~Measure(p) /\ ~Take(p) /\ ~List(p) /\ ~Replace(p)
      BY DEF Begin, Fails, Measure, Take, List, Replace, shared
    <3>2. \A name : ~Supersede(p, name) /\ ~Refuse(p, name) /\ ~Look(p, name)
      BY DEF Supersede, Refuse, Look, shared
    <3>3. ~Frequencies(p) /\ ~Pick(p) /\ ~DraftFails(p) /\ ~Verify(p) /\ ~Kill(p)
      BY DEF Frequencies, Pick, DraftFails, Verify, Kill, shared
    <3> QED BY <2>1, <3>1, <3>2, <3>3 DEF Prepare
  <2>2. \A e \in drafts : ~Edit(e)
    BY DEF Edit
  <2>3. ~Tick
    BY DEF Tick
  <2> QED BY <2>1, <2>2, <2>3 DEF Next
<1>2. pc[p] = "draft" /\ DraftName(d) = target[p]
  BY <1>1 DEF WriteDraft
<1>3. Exists(target[p])
  BY <1>2 DEF Exists
<1> QED BY <1>2, <1>3 DEF EInv, NothingToLose, Settled

(* What people filled into a draft goes only by --force, or if two runs had*)
(* settled to write it at once (prepare_phy.py publish_topology_draft).    *)
THEOREM EditsStay == Spec => EditsSurvive
<1>1. EInv /\ [Next]_vars => [\A d \in drafts : d.edited /\ d \notin drafts' =>
       \/ DraftName(d) \in raced
       \/ \E p \in Preparers : Forced(p) /\ pc[p] = "draft" /\ target[p] = DraftName(d)]_vars
  BY EditKept
<1> QED BY <1>1, EditInit, EditStep, PTL DEF Spec, EditsSurvive

-----------------------------------------------------------------------------
(* Where a box is past the gate, past its own publishing, stopped.         *)
Gated == {"settled", "author", "dump", "rename", "calibrate", "mark", "adopt", "listen",
          "clear", "seek", "found", "send", "emit", "launched"}
Published == Gated \cup {"gate"}
Places == Published \cup {"idle", "survey", "file", "publish", "open", "write", "stopped"}

BringUpTypes ==
  /\ at \in [Boxes -> Places] /\ runs \in [Boxes -> Nat]
  /\ DOMAIN tuned = Boxes /\ DOMAIN mine = Boxes
  /\ \A b \in Boxes : at[b] # "idle" => runs[b] >= 1
  /\ \A b \in Boxes, d \in Directions : tuned[b][d] # None => at[b] = "launched"

PinsHold == \A b \in Boxes, d \in Directions :
  Launched(b) /\ Pinned(d) # None => tuned[b][d] = Pinned(d)

(* Each box was started once at most, and has not stopped.                 *)
FirstRuns == \A b \in Boxes : runs[b] <= 1 /\ at[b] # "stopped"

(* The box that surveys a direction, and says its carrier.                 *)
Owner(d) == IF d = "data" THEN "sink" ELSE "source"

(* What either box knows of a carrier comes from its owner.                *)
OwnerSaidIt(d) ==
  /\ state[d] # None => at[Owner(d)] \in Published
  /\ \A b \in Boxes : mine[b][d] # None =>
       (b = Owner(d) /\ at[b] \in {"open", "write"}) \/ at[Owner(d)] \in Published
  /\ \A b \in Boxes : Pinned(d) = None /\ tuned[b][d] # None => at[Owner(d)] \in Published

(* The one carrier that is known anywhere of a direction.                  *)
Only(d, v) ==
  /\ state[d] \in {None, v}
  /\ \A b \in Boxes : mine[b][d] \in {None, v}
  /\ \A b \in Boxes : Pinned(d) = None => tuned[b][d] \in {None, v}

(* Where nothing is pinned, who is past the gate finds both carriers, and  *)
(* goes on finding them.                                                   *)
NonePinned == \A d \in Directions : Pinned(d) = None
GatesKnow == NonePinned => \A b \in Boxes, d \in Directions :
  /\ at[b] \in Gated => state[d] # None
  /\ at[b] = "launched" => tuned[b][d] # None

SaidOnce == /\ \A d \in Directions : OwnerSaidIt(d) /\ \E v : Only(d, v)
            /\ GatesKnow

BringUpInv == BringUpTypes /\ PinsHold /\ (FirstRuns => SaidOnce)

-----------------------------------------------------------------------------
LEMMA NothingThere == \A d \in Directions : NoCarriers[d] = None /\ Torn[d] = None
BY DEF NoCarriers, Torn, Directions, None

LEMMA Owners ==
  /\ \A d \in Directions : Owner(d) \in Boxes /\ RxDirection(Owner(d)) = d
  /\ \A b \in Boxes : RxDirection(b) \in Directions /\ Owner(RxDirection(b)) = b
BY DEF Owner, RxDirection, Boxes, Directions

LEMMA BringUpInitInv == BringUpInit => BringUpInv
<1> HAVE BringUpInit
<1>1. BringUpTypes /\ PinsHold
  BY NothingThere DEF BringUpInit, BringUpTypes, PinsHold, Places, Launched, None
<1>2. SaidOnce
  <2>1. \A b \in Boxes : at[b] = "idle"
    BY DEF BringUpInit
  <2>2. \A d \in Directions : Only(d, None) /\ OwnerSaidIt(d)
    BY NothingThere, Owners DEF BringUpInit, Only, OwnerSaidIt
  <2>3. GatesKnow
    BY <2>1 DEF GatesKnow, Gated
  <2> QED BY <2>2, <2>3 DEF SaidOnce
<1> QED BY <1>1, <1>2 DEF BringUpInv

(* The kinds of step, as far as the carriers are concerned.                *)
Walks(b, here, there) ==
  /\ at[b] = here /\ at' = [at EXCEPT ![b] = there]
  /\ UNCHANGED <<link, runs, state, mine, tuned>>

WalksOn(b) == \E here, there \in Places \ {"open", "write", "launched", "stopped"} :
  /\ Walks(b, here, there)
  /\ here \in Published => there \in Published
  /\ there \in Published => here \in Published \cup {"publish"}
  /\ there \in Gated => here \in Gated \/ FreqsReady
  /\ here # "idle" /\ there # "idle"
Stops(b) ==
  /\ at[b] \notin {"idle", "launched"} /\ at' = [at EXCEPT ![b] = "stopped"]
  /\ mine' = mine \/ mine' = [mine EXCEPT ![b] = NoCarriers]
  /\ UNCHANGED <<link, runs, state, tuned>>
Stays == UNCHANGED <<at, link, runs, state, mine, tuned>>
Says(b) ==
  /\ at[b] = "publish" /\ Publishes(b) # None
  /\ mine' = [mine EXCEPT ![b] = [ReadState EXCEPT ![RxDirection(b)] = Publishes(b)]]
  /\ at' = [at EXCEPT ![b] = "open"] 
  /\ UNCHANGED <<link, runs, state, tuned>>

LEMMA Kinds ==
  ASSUME BringUpTypes, [BringUpNext]_bringUpVars
  PROVE  \/ Stays \/ EditLink
         \/ \E b \in Boxes : \/ WalksOn(b) \/ Stops(b) \/ Says(b)
                             \/ OpenState(b) \/ WriteState(b) \/ Launch(b) \/ Start(b)
<1>1. CASE UNCHANGED bringUpVars
  BY <1>1 DEF bringUpVars, Stays
<1>2. CASE Hear \/ Age \/ SurveyFirst
  BY <1>2 DEF Hear, Age, SurveyFirst, Stays, linkFiles
<1>3. ASSUME NEW b \in Boxes, Start(b) \/ Halt(b) PROVE Start(b) \/ Stops(b)
  BY <1>3 DEF Halt, Stops, Go, linkFiles
<1>4. ASSUME NEW b \in Boxes, BoxStep(b)
      PROVE  WalksOn(b) \/ Stops(b) \/ Says(b) \/ OpenState(b) \/ WriteState(b) \/ Launch(b)
  <2>1. CASE Sweep(b)
    <3>1. PICK there \in {"file", "publish"} : Walks(b, "survey", there)
      BY <2>1 DEF Sweep, Walks, Go, linkFiles
    <3> QED BY <3>1 DEF WalksOn, Places, Published, Gated
  <2>2. CASE PublishProfile(b)
    <3>1. Walks(b, "file", "publish")
      BY <2>2 DEF PublishProfile, Walks, Go, linkFiles
    <3> QED BY <3>1 DEF WalksOn, Places, Published, Gated
  <2>3. CASE ReadForUpdate(b)
    <3>1. CASE Publishes(b) = None
      <4>1. Walks(b, "publish", "gate")
        BY <2>3, <3>1 DEF ReadForUpdate, Walks, Go, linkFiles
      <4> QED BY <4>1 DEF WalksOn, Places, Published, Gated
    <3>2. CASE Publishes(b) # None
      BY <2>3, <3>2 DEF ReadForUpdate, Says, Go, linkFiles
    <3> QED BY <3>1, <3>2
  <2>4. CASE PassGate(b)
    <3>1. Walks(b, "gate", "settled") /\ FreqsReady
      BY <2>4 DEF PassGate, Walks, Go, linkFiles
    <3> QED BY <3>1 DEF WalksOn, Places, Published, Gated
  <2>5. CASE GiveUp(b)
    BY <2>5 DEF GiveUp, Stops, Go, linkFiles
  <2>6. CASE Settle(b) \/ OpenPlan(b) \/ DumpPlan(b) \/ ReadPlan(b)
    <3>1. PICK here, there \in Gated \ {"launched"} : Walks(b, here, there)
      BY <2>6 DEF Settle, OpenPlan, DumpPlan, ReadPlan, Walks, Go, linkFiles, Gated
    <3> QED BY <3>1 DEF WalksOn, Places, Published, Gated
  <2>7. CASE RenamePlan(b)
    <3>1. Walks(b, "rename", "calibrate") \/ Stops(b)
      BY <2>7 DEF RenamePlan, Walks, Stops, Go, linkFiles
    <3> QED BY <3>1 DEF WalksOn, Places, Published, Gated
  <2> QED BY <1>4, <2>1, <2>2, <2>3, <2>4, <2>5, <2>6, <2>7 DEF BoxStep
<1>5. ASSUME MarkReady \/ Adopt \/ EndListening \/ ClearReady PROVE WalksOn("sink")
  <2>1. PICK here, there \in Gated \ {"launched"} : Walks("sink", here, there)
    <3>1. CASE MarkReady
      BY <3>1 DEF MarkReady, Walks, Go, linkFiles, Gated
    <3>2. CASE Adopt
      BY <3>2 DEF Adopt, Walks, Go, linkFiles, Gated
    <3>3. CASE EndListening
      BY <3>3 DEF EndListening, Walks, Go, linkFiles, Gated
    <3>4. CASE ClearReady
      BY <3>4 DEF ClearReady, Walks, Go, linkFiles, Gated
    <3> QED BY <1>5, <3>1, <3>2, <3>3, <3>4
  <2> QED BY <2>1 DEF WalksOn, Places, Published, Gated
<1>6. ASSUME SeeReady \/ NeverReady \/ Transmit \/ Sent PROVE WalksOn("source")
  <2>1. PICK here, there \in Gated \ {"launched"} : Walks("source", here, there)
    BY <1>6 DEF SeeReady, NeverReady, Transmit, Sent, Walks, Go, linkFiles, Gated
  <2> QED BY <2>1 DEF WalksOn, Places, Published, Gated
<1>7. "sink" \in Boxes /\ "source" \in Boxes
  BY DEF Boxes
<1>8. CASE SinkStep
  BY <1>2, <1>4, <1>5, <1>7, <1>8 DEF SinkStep
<1>9. CASE SourceStep
  BY <1>4, <1>6, <1>7, <1>9 DEF SourceStep
<1> QED BY <1>1, <1>2, <1>3, <1>8, <1>9 DEF BringUpNext

LEMMA StaysKeeps == ASSUME BringUpInv, Stays PROVE BringUpInv'
<1>1. BringUpTypes' /\ PinsHold'
  BY DEF Stays, BringUpInv, BringUpTypes, PinsHold, Launched, Pinned
<1>2. ASSUME FirstRuns' PROVE SaidOnce'
  <2>1. SaidOnce
    BY <1>2 DEF Stays, BringUpInv, FirstRuns
  <2>2. \A d \in Directions : OwnerSaidIt(d)' /\ \A v : Only(d, v) => Only(d, v)'
    BY <2>1 DEF Stays, SaidOnce, OwnerSaidIt, Only, Pinned
  <2>3. GatesKnow'
    BY <2>1 DEF Stays, SaidOnce, GatesKnow, NonePinned, Pinned
  <2> QED BY <2>1, <2>2, <2>3 DEF SaidOnce
<1> QED BY <1>1, <1>2 DEF BringUpInv

LEMMA WalksOnKeeps == ASSUME BringUpInv, NEW b \in Boxes, WalksOn(b) PROVE BringUpInv'
<1>0. PICK here, there \in Places \ {"open", "write", "launched", "stopped"} :
        /\ Walks(b, here, there)
        /\ here \in Published => there \in Published
        /\ there \in Published => here \in Published \cup {"publish"}
        /\ there \in Gated => here \in Gated \/ FreqsReady
        /\ here # "idle" /\ there # "idle"
  BY DEF WalksOn
<1>1. /\ at[b] = here /\ at' = [at EXCEPT ![b] = there] /\ at \in [Boxes -> Places]
      /\ UNCHANGED <<link, runs, state, mine, tuned>>
  BY <1>0 DEF Walks, BringUpInv, BringUpTypes
<1>2. at'[b] = there /\ \A c \in Boxes : c # b => at'[c] = at[c]
  BY <1>1
<1>3. BringUpTypes'
  BY <1>0, <1>1, <1>2 DEF BringUpInv, BringUpTypes
<1>4. PinsHold'
  BY <1>0, <1>1, <1>2 DEF BringUpInv, PinsHold, Launched, Pinned
<1>5. ASSUME FirstRuns' PROVE SaidOnce'
  <2>1. SaidOnce
    <3>1. FirstRuns
      BY <1>0, <1>1, <1>2, <1>5 DEF FirstRuns
    <3> QED BY <3>1 DEF BringUpInv
  <2>2. \A c \in Boxes : at[c] \in Published => at'[c] \in Published
    BY <1>0, <1>1, <1>2
  <2>3. \A c \in Boxes : at[c] \in {"open", "write"} => at'[c] = at[c]
    BY <1>0, <1>1, <1>2
  <2>4. \A d \in Directions : OwnerSaidIt(d)' /\ \A v : Only(d, v) => Only(d, v)'
    BY <1>1, <2>1, <2>2, <2>3, Owners DEF SaidOnce, OwnerSaidIt, Only, Pinned
  <2>5. GatesKnow'
    <3>1. ASSUME NonePinned PROVE FreqsReady => \A d \in Directions : state[d] # None
      BY <3>1 DEF NonePinned, FreqsReady, Resolved, Pinned
    <3> QED BY <1>0, <1>1, <1>2, <2>1, <3>1 DEF SaidOnce, GatesKnow, NonePinned, Pinned
  <2> QED BY <2>1, <2>4, <2>5 DEF SaidOnce
<1> QED BY <1>3, <1>4, <1>5 DEF BringUpInv

LEMMA StopsKeeps == ASSUME BringUpInv, NEW b \in Boxes, Stops(b) PROVE BringUpInv'
<1>1. /\ at[b] \notin {"idle", "launched"} /\ at' = [at EXCEPT ![b] = "stopped"]
      /\ DOMAIN mine' = Boxes /\ at \in [Boxes -> Places]
      /\ UNCHANGED <<link, runs, state, tuned>>
  BY DEF Stops, BringUpInv, BringUpTypes
<1>2. at'[b] = "stopped" /\ \A c \in Boxes : c # b => at'[c] = at[c]
  BY <1>1
<1>3. BringUpTypes'
  BY <1>1, <1>2 DEF BringUpInv, BringUpTypes, Places
<1>4. PinsHold'
  BY <1>1, <1>2 DEF BringUpInv, PinsHold, Launched, Pinned
<1> QED BY <1>2, <1>3, <1>4 DEF BringUpInv, FirstRuns

(* A box says the carrier of its own direction, of which nobody knows yet. *)
LEMMA SaysKeeps == ASSUME BringUpInv, NEW b \in Boxes, Says(b) PROVE BringUpInv'
<1>1. /\ at[b] = "publish" /\ at' = [at EXCEPT ![b] = "open"] /\ at \in [Boxes -> Places]
      /\ UNCHANGED <<link, runs, state, tuned>>
      /\ mine' = [mine EXCEPT ![b] = [ReadState EXCEPT ![RxDirection(b)] = Publishes(b)]]
      /\ DOMAIN mine = Boxes
  BY DEF Says, BringUpInv, BringUpTypes
<1>2. at'[b] = "open" /\ \A c \in Boxes : c # b => at'[c] = at[c]
  BY <1>1
<1>3. /\ mine'[b][RxDirection(b)] = Publishes(b)
      /\ \A d \in Directions : d # RxDirection(b) => mine'[b][d] = state[d]
      /\ \A c \in Boxes : c # b => mine'[c] = mine[c]
      /\ DOMAIN mine' = Boxes
  BY <1>1, Owners DEF ReadState
<1>4. BringUpTypes'
  BY <1>1, <1>2, <1>3 DEF BringUpInv, BringUpTypes, Places
<1>5. PinsHold'
  BY <1>1, <1>2 DEF BringUpInv, PinsHold, Launched, Pinned
<1>6. ASSUME FirstRuns' PROVE SaidOnce'
  <2>1. SaidOnce
    <3>1. FirstRuns
      BY <1>1, <1>2, <1>6 DEF FirstRuns
    <3> QED BY <3>1 DEF BringUpInv
  <2>2. \A c \in Boxes : (at[c] \in Published => at'[c] \in Published) /\
                         (at[c] \in {"open", "write"} => at'[c] = at[c])
    BY <1>1, <1>2 DEF Published, Gated
  <2>3. ASSUME NEW d \in Directions PROVE OwnerSaidIt(d)' /\ \E v : Only(d, v)'
    <3>1. OwnerSaidIt(d) /\ \E v : Only(d, v)
      BY <2>1 DEF SaidOnce
    <3>2. CASE d = RxDirection(b)
      <4>1. Owner(d) = b /\ at[b] \notin Published
        BY <1>1, <3>2, Owners DEF Published, Gated
      <4>2. /\ state[d] = None
            /\ \A c \in Boxes : c # b => mine[c][d] = None
            /\ \A c \in Boxes : Pinned(d) = None => tuned[c][d] = None
        BY <1>1, <3>1, <4>1 DEF OwnerSaidIt
      <4>3. \E v : Only(d, v)'
        <5>1. PICK v : v = Publishes(b)
          OBVIOUS
        <5>2. /\ state'[d] \in {None, v}
              /\ \A c \in Boxes : mine'[c][d] \in {None, v}
              /\ \A c \in Boxes : Pinned(d) = None => tuned'[c][d] \in {None, v}
          BY <1>1, <1>3, <3>2, <4>2, <5>1
        <5>3. Pinned(d)' = Pinned(d)
          BY <1>1 DEF Pinned
        <5>4. Only(d, v)'
          BY <5>2, <5>3 DEF Only
        <5> QED BY <5>4
      <4>4. OwnerSaidIt(d)'
        BY <1>1, <1>2, <1>3, <4>1, <4>2 DEF OwnerSaidIt, Pinned
      <4> QED BY <4>3, <4>4
    <3>3. CASE d # RxDirection(b)
      <4>1. PICK v : Only(d, v)
        BY <3>1
      <4>2. Only(d, v)'
        BY <1>1, <1>3, <3>3, <4>1 DEF Only, Pinned
      <4>3. OwnerSaidIt(d)'
        BY <1>1, <1>2, <1>3, <2>2, <3>1, <3>3, Owners DEF OwnerSaidIt, Pinned
      <4> QED BY <4>2, <4>3
    <3> QED BY <3>2, <3>3
  <2>4. GatesKnow'
    BY <1>1, <1>2, <2>1 DEF SaidOnce, GatesKnow, NonePinned, Pinned, Gated
  <2> QED BY <2>3, <2>4 DEF SaidOnce
<1> QED BY <1>4, <1>5, <1>6 DEF BringUpInv

(* Writing link-state.json in two steps.  Who is past the gate saw both    *)
(* carriers there, so that both boxes had written by then.                 *)
LEMMA WritesKeep ==
  ASSUME BringUpInv, NEW b \in Boxes, OpenState(b) \/ WriteState(b)
  PROVE  BringUpInv'
<1>1. PICK here, there \in {"open", "write", "gate"} :
        /\ at[b] = here /\ at' = [at EXCEPT ![b] = there] /\ here \in {"open", "write"}
        /\ there = "write" => mine' = mine /\ state' = Torn
        /\ there = "gate" => /\ mine' = [mine EXCEPT ![b] = NoCarriers]
                             /\ state' \in {mine[b], Torn}
        /\ there # "open"
  BY DEF OpenState, WriteState, Go
<1>2. /\ UNCHANGED <<link, runs, tuned>>
      /\ at \in [Boxes -> Places] /\ DOMAIN mine = Boxes
  BY DEF OpenState, WriteState, BringUpInv, BringUpTypes
<1>3. at'[b] = there /\ \A c \in Boxes : c # b => at'[c] = at[c]
  BY <1>1, <1>2
<1>4. /\ \A c \in Boxes : c # b => mine'[c] = mine[c]
      /\ \A d \in Directions : IF there = "gate" THEN mine'[b][d] = None ELSE mine'[b] = mine[b]
      /\ \A d \in Directions : state'[d] = None \/ (there = "gate" /\ state'[d] = mine[b][d])
      /\ DOMAIN mine' = Boxes
  BY <1>1, <1>2, NothingThere
<1>5. BringUpTypes'
  BY <1>1, <1>2, <1>3, <1>4 DEF BringUpInv, BringUpTypes, Places, Published
<1>6. PinsHold'
  BY <1>1, <1>2, <1>3 DEF BringUpInv, PinsHold, Launched, Pinned
<1>7. ASSUME FirstRuns' PROVE SaidOnce'
  <2>1. SaidOnce
    <3>1. FirstRuns
      BY <1>1, <1>2, <1>3, <1>7 DEF FirstRuns
    <3> QED BY <3>1 DEF BringUpInv
  <2>2. \A c \in Boxes : at[c] \in Published => at'[c] \in Published
    BY <1>1, <1>3 DEF Published, Gated
  <2>3. \A d \in Directions : OwnerSaidIt(d)'
    <3>1. \A d \in Directions : state'[d] # None => at'[Owner(d)] \in Published
      BY <1>1, <1>3, <1>4, <2>1, <2>2, Owners DEF SaidOnce, OwnerSaidIt, Published
    <3>2. ASSUME NEW d \in Directions, NEW c \in Boxes, mine'[c][d] # None
          PROVE  (c = Owner(d) /\ at'[c] \in {"open", "write"}) \/ at'[Owner(d)] \in Published
      BY <1>1, <1>3, <1>4, <2>1, <2>2, <3>2, Owners DEF SaidOnce, OwnerSaidIt
    <3>3. \A d \in Directions, c \in Boxes :
             Pinned(d)' = None /\ tuned'[c][d] # None => at'[Owner(d)] \in Published
      BY <1>2, <2>1, <2>2, Owners DEF SaidOnce, OwnerSaidIt, Pinned
    <3> QED BY <3>1, <3>2, <3>3 DEF OwnerSaidIt
  <2>4. \A d \in Directions : \A v : Only(d, v) => Only(d, v)'
    BY <1>2, <1>4 DEF Only, Pinned
  <2>5. GatesKnow'
    <3>1. ASSUME NonePinned', NEW c \in Boxes, at'[c] \in Gated PROVE FALSE
      <4>1. NonePinned /\ c # b /\ at[c] \in Gated
        BY <1>1, <1>2, <1>3, <3>1 DEF NonePinned, Pinned, Gated
      <4>2. \A d \in Directions : at[Owner(d)] \in Published
        BY <2>1, <4>1 DEF SaidOnce, GatesKnow, OwnerSaidIt
      <4>3. at[b] \in Published
        BY <4>2, Owners
      <4> QED BY <1>1, <4>3 DEF Published, Gated
    <3> QED BY <3>1 DEF GatesKnow, Gated
  <2> QED BY <2>1, <2>3, <2>4, <2>5 DEF SaidOnce
<1> QED BY <1>5, <1>6, <1>7 DEF BringUpInv

LEMMA LaunchKeeps == ASSUME BringUpInv, NEW b \in Boxes, Launch(b) PROVE BringUpInv'
<1>1. /\ at[b] = "emit" /\ at' = [at EXCEPT ![b] = "launched"]
      /\ tuned' = [tuned EXCEPT ![b] = [d \in Directions |-> Resolved(d)]]
      /\ UNCHANGED <<link, runs, mine, state>>
      /\ at \in [Boxes -> Places] /\ DOMAIN tuned = Boxes
  BY DEF Launch, Go, linkFiles, BringUpInv, BringUpTypes
<1>2. at'[b] = "launched" /\ \A c \in Boxes : c # b => at'[c] = at[c]
  BY <1>1
<1>3. /\ \A c \in Boxes : c # b => tuned'[c] = tuned[c]
      /\ \A d \in Directions : tuned'[b][d] = IF Pinned(d) # None THEN Pinned(d) ELSE state[d]
      /\ DOMAIN tuned' = Boxes
  BY <1>1 DEF Resolved
<1>4. BringUpTypes'
  BY <1>1, <1>2, <1>3 DEF BringUpInv, BringUpTypes, Places, Published, Gated
<1>5. PinsHold'
  BY <1>1, <1>2, <1>3 DEF BringUpInv, PinsHold, Launched, Pinned
<1>6. ASSUME FirstRuns' PROVE SaidOnce'
  <2>1. SaidOnce
    <3>1. FirstRuns
      BY <1>1, <1>2, <1>6 DEF FirstRuns
    <3> QED BY <3>1 DEF BringUpInv
  <2>2. \A c \in Boxes : (at[c] \in Published => at'[c] \in Published) /\
                         (at[c] \in {"open", "write"} => at'[c] = at[c])
    BY <1>1, <1>2 DEF Published, Gated
  <2>3. \A d \in Directions : OwnerSaidIt(d)'
    BY <1>1, <1>3, <2>1, <2>2, Owners DEF SaidOnce, OwnerSaidIt, Pinned
  <2>4. \A d \in Directions : \A v : Only(d, v) => Only(d, v)'
    BY <1>1, <1>3 DEF Only, Pinned
  <2>5. GatesKnow'
    BY <1>1, <1>2, <1>3, <2>1 DEF SaidOnce, GatesKnow, NonePinned, Pinned, Gated
  <2> QED BY <2>1, <2>3, <2>4, <2>5 DEF SaidOnce
<1> QED BY <1>4, <1>5, <1>6 DEF BringUpInv

(* A first start; any other is the end of first runs.                      *)
LEMMA StartKeeps == ASSUME BringUpInv, NEW b \in Boxes, Start(b) PROVE BringUpInv'
<1>1. /\ at[b] \in {"idle", "launched", "stopped"} /\ at' = [at EXCEPT ![b] = "survey"]
      /\ runs' = [runs EXCEPT ![b] = runs[b] + 1]
      /\ tuned' = [tuned EXCEPT ![b] = NoCarriers]
      /\ UNCHANGED <<link, mine, state>>
      /\ at \in [Boxes -> Places] /\ runs \in [Boxes -> Nat] /\ DOMAIN tuned = Boxes
  BY DEF Start, Go, linkFiles, BringUpInv, BringUpTypes
<1>2. /\ at'[b] = "survey" /\ \A c \in Boxes : c # b => at'[c] = at[c]
      /\ runs'[b] = runs[b] + 1 /\ \A c \in Boxes : c # b => runs'[c] = runs[c]
      /\ runs[b] \in Nat
  BY <1>1
<1>3. /\ \A c \in Boxes : c # b => tuned'[c] = tuned[c]
      /\ \A d \in Directions : tuned'[b][d] = None
      /\ DOMAIN tuned' = Boxes
  BY <1>1, NothingThere
<1>4. BringUpTypes'
  BY <1>1, <1>2, <1>3 DEF BringUpInv, BringUpTypes, Places
<1>5. PinsHold'
  BY <1>1, <1>2, <1>3 DEF BringUpInv, PinsHold, Launched, Pinned
<1>6. ASSUME FirstRuns' PROVE SaidOnce'
  <2>1. at[b] = "idle" /\ runs[b] = 0
    BY <1>1, <1>2, <1>6 DEF FirstRuns, BringUpInv, BringUpTypes
  <2>2. SaidOnce
    <3>1. FirstRuns
      BY <1>2, <1>6, <2>1 DEF FirstRuns
    <3> QED BY <3>1 DEF BringUpInv
  <2>3. \A c \in Boxes : (at[c] \in Published => at'[c] \in Published) /\
                         (at[c] \in {"open", "write"} => at'[c] = at[c])
    BY <1>2, <2>1 DEF Published, Gated
  <2>4. \A d \in Directions : OwnerSaidIt(d)'
    BY <1>1, <1>3, <2>2, <2>3, Owners DEF SaidOnce, OwnerSaidIt, Pinned
  <2>5. \A d \in Directions : \A v : Only(d, v) => Only(d, v)'
    BY <1>1, <1>3 DEF Only, Pinned
  <2>6. GatesKnow'
    BY <1>1, <1>2, <1>3, <2>2 DEF SaidOnce, GatesKnow, NonePinned, Pinned, Gated
  <2> QED BY <2>2, <2>4, <2>5, <2>6 DEF SaidOnce
<1> QED BY <1>4, <1>5, <1>6 DEF BringUpInv

(* link.json is edited before the first runs, or after they have stopped.  *)
LEMMA EditLinkKeeps == ASSUME BringUpInv, EditLink PROVE BringUpInv'
<1>1. /\ \A b \in Boxes : at[b] \in {"idle", "stopped"}
      /\ UNCHANGED <<at, runs, mine, tuned, state>>
  BY DEF EditLink, linkFiles
<1>2. BringUpTypes' /\ PinsHold'
  BY <1>1 DEF BringUpInv, BringUpTypes, PinsHold, Launched
<1>3. ASSUME FirstRuns' PROVE SaidOnce'
  <2>1. SaidOnce /\ \A b \in Boxes : at[b] = "idle"
    <3>1. FirstRuns
      BY <1>1, <1>3 DEF FirstRuns
    <3> QED BY <1>1, <3>1 DEF BringUpInv, FirstRuns
  <2>2. \A d \in Directions : at[Owner(d)] \notin Published
    BY <2>1, Owners DEF Published, Gated
  <2>3. \A d \in Directions :
          /\ state[d] = None
          /\ \A b \in Boxes : mine[b][d] = None /\ tuned[b][d] = None
    BY <2>1, <2>2 DEF SaidOnce, OwnerSaidIt, BringUpInv, BringUpTypes
  <2>4. \A d \in Directions : OwnerSaidIt(d)' /\ Only(d, None)'
    BY <1>1, <2>3 DEF OwnerSaidIt, Only
  <2>5. GatesKnow'
    BY <1>1, <2>1 DEF GatesKnow, Gated
  <2> QED BY <2>4, <2>5 DEF SaidOnce
<1> QED BY <1>2, <1>3 DEF BringUpInv

(* Boxes that were started once each, over a workspace that held no        *)
(* carriers, never work on two carriers in one direction, and know both    *)
(* where none is pinned, however their surveys and their steps of writing  *)
(* link-state.json interleave; and a pinned carrier is the one used in any *)
(* run: for any contents of link.json, any sweeps and any number of runs.  *)
THEOREM BoxesTuneTogether == BringUpSpec => []TunedTogether
<1>1. BringUpInv /\ [BringUpNext]_bringUpVars => BringUpInv'
  <2> HAVE BringUpInv /\ [BringUpNext]_bringUpVars
  <2> QED BY Kinds, StaysKeeps, WalksOnKeeps, StopsKeeps, SaysKeeps, WritesKeep, LaunchKeeps,
             StartKeeps, EditLinkKeeps DEF BringUpInv
<1>2. BringUpInv => TunedTogether
  <2> HAVE BringUpInv
  <2>1. ASSUME BothUp, \A b \in Boxes : runs[b] = 1, NEW d \in Directions
        PROVE  /\ ~Apart(d)
               /\ (\A e \in Directions : Pinned(e) = None) =>
                    \A b \in Boxes : tuned[b][d] # None
    <3>1. SaidOnce
      BY <2>1 DEF BothUp, Launched, FirstRuns, BringUpInv
    <3>2. \A b \in Boxes : at[b] = "launched"
      BY <2>1 DEF BothUp, Launched
    <3>3. PICK v : Only(d, v)
      BY <3>1 DEF SaidOnce
    <3>4. ~Apart(d)
      BY <3>2, <3>3 DEF Apart, Only, Boxes, BringUpInv, PinsHold, Launched
    <3>5. (\A e \in Directions : Pinned(e) = None) => \A b \in Boxes : tuned[b][d] # None
      BY <3>1, <3>2 DEF SaidOnce, GatesKnow, NonePinned
    <3> QED BY <3>4, <3>5
  <2>2. \A b \in Boxes, d \in Directions :
          Launched(b) /\ Pinned(d) # None => tuned[b][d] = Pinned(d)
    BY DEF BringUpInv, PinsHold
  <2> QED BY <2>1, <2>2 DEF TunedTogether
<1> QED BY <1>1, <1>2, BringUpInitInv, PTL DEF BringUpSpec
=============================================================================
