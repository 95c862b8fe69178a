------------------------ MODULE WorkingVolumeProofs -------------------------
(***************************************************************************)
(* Proofs about the working volume, whoever the users are.                 *)
(***************************************************************************)
EXTENDS WorkingVolume, TLAPS

LEMMA VolumeInit == Init => TypeOK /\ VolumeInv
<1> SUFFICES ASSUME Init PROVE TypeOK /\ VolumeInv
  OBVIOUS
<1>1. TypeOK
  BY DEF Init, TypeOK, Mandatory
<1>2. ACLInv /\ DirsInv /\ TriggerInv
  BY DEF Init, ACLInv, ACLsSet, DirsInv, TriggerInv, AfterACLs
<1>3. FileInv /\ NilMeansReady
  BY DEF Init, FileInv, NilMeansReady
<1> QED
  BY <1>1, <1>2, <1>3 DEF VolumeInv

(* What a new file takes from its creator and from the default ACL.        *)
LEMMA NewFile ==
    ASSUME TypeOK, NEW name \in Logged \cup {"output"}, NEW u \in User,
           NEW mode \in Mode, NEW whole \in BOOLEAN
    PROVE  /\ New(name, u, mode, whole) \in File
           /\ New(name, u, mode, whole).acl = default
           /\ New(name, u, mode, whole).name = name
           /\ New(name, u, mode, whole).mode = mode
BY DEF New, File, TypeOK

LEMMA VolumeNext ==
    ASSUME TypeOK, VolumeInv, [Next]_vars
    PROVE  TypeOK' /\ VolumeInv'
<1> USE DEF VolumeInv, Goto, Returns, AfterACLs, ACLsSet, Mandatory
<1>1. CASE Cancel
  <2>1. TypeOK'
    BY <1>1 DEF Cancel, TypeOK, Dir, User
  <2>2. FileInv'
    BY <1>1 DEF Cancel, FileInv, DirsInv, ACLInv
  <2>3. ACLInv'
    BY <1>1 DEF Cancel, ACLInv, DirsInv
  <2>4. DirsInv'
    BY <1>1 DEF Cancel, DirsInv
  <2>5. TriggerInv'
    BY <1>1 DEF Cancel, TriggerInv
  <2>6. NilMeansReady'
    BY <1>1 DEF Cancel, NilMeansReady, DirsInv, ACLInv, TriggerInv, Dir, TypeOK
  <2> QED
    BY <2>1, <2>2, <2>3, <2>4, <2>5, <2>6
<1>2. CASE MakeLogs \/ MakeTmp \/ OpenVolume
  <2>1. TypeOK'
    BY <1>2 DEF MakeLogs, MakeTmp, OpenVolume, TypeOK, Dir, User
  <2>2. FileInv'
    BY <1>2 DEF MakeLogs, MakeTmp, OpenVolume, FileInv, DirsInv, ACLInv
  <2>3. ACLInv'
    <3>1. CASE MakeLogs
      BY <3>1 DEF MakeLogs, ACLInv, DirsInv
    <3>2. CASE MakeTmp
      BY <3>2 DEF MakeTmp, ACLInv, DirsInv
    <3>3. CASE OpenVolume
      BY <3>3 DEF OpenVolume, ACLInv, DirsInv
    <3> QED
      BY <1>2, <3>1, <3>2, <3>3
  <2>4. DirsInv'
    BY <1>2 DEF MakeLogs, MakeTmp, OpenVolume, DirsInv
  <2>5. TriggerInv'
    BY <1>2 DEF MakeLogs, MakeTmp, OpenVolume, TriggerInv
  <2>6. NilMeansReady'
    BY <1>2 DEF MakeLogs, MakeTmp, OpenVolume, NilMeansReady, DirsInv, ACLInv, TriggerInv, Dir, TypeOK
  <2> QED
    BY <2>1, <2>2, <2>3, <2>4, <2>5, <2>6
<1>3. CASE AddRunnerACL \/ AddImageACL
  <2>1. TypeOK'
    BY <1>3 DEF AddRunnerACL, AddImageACL, AddACL, TypeOK, Dir, User
  <2>2. FileInv'
    BY <1>3 DEF AddRunnerACL, AddImageACL, AddACL, FileInv, DirsInv, ACLInv
  <2>3. ACLInv'
    <3>1. CASE AddRunnerACL
      BY <3>1 DEF AddRunnerACL, AddACL, ACLInv, DirsInv
    <3>2. CASE AddImageACL
      BY <3>2 DEF AddImageACL, AddACL, ACLInv, DirsInv
    <3> QED
      BY <1>3, <3>1, <3>2
  <2>4. DirsInv'
    BY <1>3 DEF AddRunnerACL, AddImageACL, AddACL, DirsInv
  <2>5. TriggerInv'
    BY <1>3 DEF AddRunnerACL, AddImageACL, AddACL, TriggerInv
  <2>6. NilMeansReady'
    BY <1>3 DEF AddRunnerACL, AddImageACL, AddACL, NilMeansReady, DirsInv, ACLInv, TriggerInv, Dir, TypeOK
  <2> QED
    BY <2>1, <2>2, <2>3, <2>4, <2>5, <2>6
<1>4. ASSUME NEW n \in {"compose", "excludes"}, NEW from \in {"compose", "excludes"},
             NEW to \in {"excludes", "trigger"}, Goto(from, to), Copy(n)
      PROVE  TypeOK' /\ VolumeInv'
  <2>1. PICK new : /\ files' = files \cup new
                   /\ \/ new = {}
                      \/ \E whole \in BOOLEAN : new = {New(n, Self, CreateMode, whole)}
    BY <1>4 DEF Copy
  <2>2. n \in Logged \cup {"output"} /\ n \in Logged /\ Self \in User /\ CreateMode \in Mode
    BY DEF Logged, User, Mode, CreateMode
  <2>3. {Self, Image} \subseteq default
    BY <1>4 DEF ACLInv, DirsInv, TriggerInv
  <2>4. \A f \in new : /\ f \in File /\ f.name \in Logged
                       /\ f.mode = CreateMode /\ {Self, Image} \subseteq f.acl
    BY <2>1, <2>2, <2>3, NewFile
  <2>5. TypeOK'
    BY <1>4, <2>1, <2>4 DEF Copy, TypeOK
  <2>6. FileInv'
    BY <1>4, <2>1, <2>4 DEF Copy, FileInv
  <2>7. ACLInv' /\ DirsInv'
    BY <1>4, <2>1, <2>4 DEF Copy, ACLInv, DirsInv
  <2>8. TriggerInv'
    BY <1>4, <2>1, <2>4 DEF Copy, TriggerInv
  <2>9. NilMeansReady'
    BY <1>4, <2>1, <2>4 DEF Copy, NilMeansReady, DirsInv
  <2> QED
    BY <2>5, <2>6, <2>7, <2>8, <2>9
<1>5. CASE CreateTrigger
  <2> DEFINE f == New("trigger", Self, CreateMode, FALSE)
  <2>1. files' = files \cup {f} /\ UNCHANGED <<dirs, default, world, result>>
        /\ Goto("trigger", "trigger text")
    BY <1>5 DEF CreateTrigger
  <2>2. /\ "trigger" \in Logged \cup {"output"} /\ "trigger" \in Logged
        /\ Self \in User /\ CreateMode \in Mode
    BY DEF Logged, User, Mode, CreateMode
  <2>3. {Self, Image} \subseteq default
    BY <2>1 DEF ACLInv, DirsInv, TriggerInv
  <2>4. /\ f \in File /\ f.name = "trigger"
        /\ f.mode = CreateMode /\ {Self, Image} \subseteq f.acl
    <3>1. f \in File /\ f.acl = default /\ f.name = "trigger" /\ f.mode = CreateMode
      BY <2>2, NewFile
    <3> HIDE DEF f
    <3> QED
      BY <2>3, <3>1
  <2> HIDE DEF f
  <2>5. TypeOK'
    BY <2>1, <2>4 DEF TypeOK
  <2>6. FileInv'
    BY <2>1, <2>2, <2>4 DEF FileInv
  <2>7. ACLInv' /\ DirsInv'
    BY <2>1, <2>2, <2>4 DEF ACLInv, DirsInv
  <2>8. TriggerInv'
    BY <2>1, <2>2, <2>4 DEF TriggerInv
  <2>9. NilMeansReady'
    BY <2>1, <2>2, <2>4 DEF NilMeansReady, DirsInv
  <2> QED
    BY <2>5, <2>6, <2>7, <2>8, <2>9
<1>6. CASE WriteTrigger
  <2>1. /\ Goto("trigger text", "command") /\ UNCHANGED <<dirs, default, world, result>>
        /\ files' = {IF f.name = "trigger" THEN [f EXCEPT !.whole = TRUE] ELSE f : f \in files}
    BY <1>6 DEF WriteTrigger
  <2>2. \A g \in files' : \E f \in files :
            g.name = f.name /\ g.acl = f.acl /\ g.mode = f.mode /\ g \in File
    BY <2>1 DEF TypeOK, File
  <2>3. \E g \in files' : g.name = "trigger" /\ g.whole
    <3>1. PICK f \in files : f.name = "trigger"
      BY <2>1 DEF ACLInv, DirsInv, TriggerInv
    <3>2. [f EXCEPT !.whole = TRUE] \in files'
      BY <2>1, <3>1
    <3> QED
      BY <3>1, <3>2 DEF TypeOK, File
  <2>4. TypeOK'
    BY <2>1, <2>2 DEF TypeOK
  <2>5. FileInv'
    BY <2>1, <2>2 DEF FileInv
  <2>6. ACLInv' /\ DirsInv'
    BY <2>1, <2>2, <2>3 DEF ACLInv, DirsInv
  <2>7. TriggerInv'
    BY <2>1, <2>2, <2>3 DEF TriggerInv
  <2>8. NilMeansReady'
    BY <2>1, <2>2, <2>3 DEF NilMeansReady, DirsInv
  <2> QED
    BY <2>4, <2>5, <2>6, <2>7, <2>8
<1>7. CASE LeaveCommand
  <2>1. TypeOK'
    BY <1>7 DEF LeaveCommand, TypeOK, Dir, User
  <2>2. FileInv'
    BY <1>7 DEF LeaveCommand, FileInv, TriggerInv, DirsInv, ACLInv
  <2>3. ACLInv'
    BY <1>7 DEF LeaveCommand, ACLInv, DirsInv
  <2>4. DirsInv'
    BY <1>7 DEF LeaveCommand, DirsInv
  <2>5. TriggerInv'
    BY <1>7 DEF LeaveCommand, TriggerInv
  <2>6. NilMeansReady'
    BY <1>7 DEF LeaveCommand, NilMeansReady, DirsInv, ACLInv, TriggerInv, Dir, TypeOK
  <2> QED
    BY <2>1, <2>2, <2>3, <2>4, <2>5, <2>6
<1>8. CASE NoCommand \/ Fails
  <2>1. TypeOK'
    BY <1>8 DEF NoCommand, Fails, TypeOK, Dir, User
  <2>2. FileInv'
    BY <1>8 DEF NoCommand, Fails, FileInv, TriggerInv
  <2>3. ACLInv'
    <3>1. CASE NoCommand
      BY <3>1 DEF NoCommand, ACLInv, DirsInv
    <3>2. CASE Fails
      BY <3>2 DEF Fails, ACLInv, DirsInv
    <3> QED
      BY <1>8, <3>1, <3>2
  <2>4. DirsInv'
    BY <1>8 DEF NoCommand, Fails, DirsInv
  <2>5. TriggerInv'
    BY <1>8 DEF NoCommand, Fails, TriggerInv
  <2>6. NilMeansReady'
    BY <1>8 DEF NoCommand, Fails, NilMeansReady, DirsInv, ACLInv, TriggerInv, Dir, TypeOK
  <2> QED
    BY <2>1, <2>2, <2>3, <2>4, <2>5, <2>6
<1>9. CASE MakeLogsFails \/ RunnerACLFails \/ ImageACLFails
  <2>1. TypeOK'
    BY <1>9 DEF MakeLogsFails, RunnerACLFails, ImageACLFails, ACLFails, TypeOK, Dir, User
  <2>2. FileInv'
    BY <1>9 DEF MakeLogsFails, RunnerACLFails, ImageACLFails, ACLFails, FileInv, DirsInv, ACLInv
  <2>3. ACLInv'
    <3>1. CASE MakeLogsFails
      BY <3>1 DEF MakeLogsFails, ACLInv, DirsInv
    <3>2. CASE RunnerACLFails
      BY <3>2 DEF RunnerACLFails, ACLFails, ACLInv, DirsInv
    <3>3. CASE ImageACLFails
      BY <3>3 DEF ImageACLFails, ACLFails, ACLInv, DirsInv
    <3> QED
      BY <1>9, <3>1, <3>2, <3>3
  <2>4. DirsInv'
    BY <1>9 DEF MakeLogsFails, RunnerACLFails, ImageACLFails, ACLFails, DirsInv
  <2>5. TriggerInv'
    BY <1>9 DEF MakeLogsFails, RunnerACLFails, ImageACLFails, ACLFails, TriggerInv
  <2>6. NilMeansReady'
    BY <1>9 DEF MakeLogsFails, RunnerACLFails, ImageACLFails, ACLFails, NilMeansReady, DirsInv, ACLInv, TriggerInv, Dir, TypeOK
  <2> QED
    BY <2>1, <2>2, <2>3, <2>4, <2>5, <2>6
<1>10. ASSUME NEW u \in User, CreateOutput(u) PROVE TypeOK' /\ VolumeInv'
  <2>0. PICK mode \in Mode : files' = files \cup {New("output", u, mode, TRUE)}
    BY <1>10 DEF CreateOutput
  <2> DEFINE f == New("output", u, mode, TRUE)
  <2>1. at = "running" /\ files' = files \cup {f}
        /\ UNCHANGED <<ctxDone, stoppedFirst, at, dirs, default, world, command, result>>
    BY <1>10, <2>0 DEF CreateOutput
  <2>2. /\ f \in File /\ f.acl = default
        /\ f.name = "output" /\ "output" \notin Logged
    BY NewFile DEF Logged
  <2> HIDE DEF f
  <2>3. TypeOK'
    BY <2>1, <2>2 DEF TypeOK
  <2>4. FileInv'
    BY <2>1, <2>2 DEF FileInv, ACLInv, DirsInv, TriggerInv
  <2>5. ACLInv' /\ DirsInv'
    BY <2>1, <2>2 DEF ACLInv, DirsInv
  <2>6. TriggerInv'
    BY <2>1, <2>2 DEF TriggerInv
  <2>7. NilMeansReady'
    BY <2>1, <2>2 DEF NilMeansReady, DirsInv
  <2> QED
    BY <2>3, <2>4, <2>5, <2>6, <2>7
<1>11. CASE UNCHANGED vars
  <2>1. TypeOK'
    BY <1>11 DEF vars, TypeOK, Dir, User
  <2>2. FileInv'
    BY <1>11 DEF vars, FileInv, DirsInv, ACLInv
  <2>3. ACLInv'
    BY <1>11 DEF vars, ACLInv, DirsInv
  <2>4. DirsInv'
    BY <1>11 DEF vars, DirsInv
  <2>5. TriggerInv'
    BY <1>11 DEF vars, TriggerInv
  <2>6. NilMeansReady'
    BY <1>11 DEF vars, NilMeansReady, DirsInv, ACLInv, TriggerInv, Dir, TypeOK
  <2> QED
    BY <2>1, <2>2, <2>3, <2>4, <2>5, <2>6
<1>12. CASE CopyCompose \/ CopyExcludes
  BY <1>4, <1>12 DEF CopyCompose, CopyExcludes
<1> QED
  BY <1>1, <1>2, <1>3, <1>5, <1>6, <1>7, <1>8, <1>9, <1>10, <1>11, <1>12 DEF Next

THEOREM VolumeSafe == Spec => [](TypeOK /\ VolumeInv)
<1>1. TypeOK /\ VolumeInv /\ [Next]_vars => (TypeOK /\ VolumeInv)'
  BY VolumeNext
<1> QED
  BY <1>1, VolumeInit, PTL DEF Spec

(* The runner and the user of the image can use every file that Init       *)
(* leaves; what a container creates after Init has set the ACLs they can   *)
(* use as its creator lets a group use it, whatever Init returned.         *)
THEOREM FilesAreShared == Spec => []FilesShared
<1>1. TypeOK /\ VolumeInv => FilesShared
  <2> SUFFICES ASSUME TypeOK, FileInv, NEW f \in files, NEW u \in {Self, Image}
               PROVE  /\ f.name \in Logged => Access(f, u) = {"read", "write"}
                      /\ ACLsSet => f.mode \subseteq Access(f, u)
    BY DEF VolumeInv, FilesShared
  <2>1. f.mode \subseteq {"read", "write"}
    BY DEF TypeOK, File, Mode
  <2>2. u \in f.acl => /\ f.mode = CreateMode => Access(f, u) = {"read", "write"}
                       /\ f.mode \subseteq Access(f, u)
    BY <2>1 DEF Access, CreateMode
  <2> QED
    BY <2>2 DEF FileInv
<1> QED
  BY <1>1, VolumeSafe, PTL

(* A nil from Init means all three directories, the transfer trigger, an   *)
(* iplant.cmd that was not moved, and a job that was not stopped when Init *)
(* was called.                                                             *)
THEOREM NilIsReady == Spec => []NilMeansReady
<1>1. VolumeInv => NilMeansReady
  BY DEF VolumeInv
<1> QED
  BY <1>1, VolumeSafe, PTL
=============================================================================
