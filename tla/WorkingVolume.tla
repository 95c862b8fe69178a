--------------------------- MODULE WorkingVolume ----------------------------
(***************************************************************************)
(* The working volume of a job: JobRunner.Init with its ACLs (run.go) and  *)
(* CopyFile (fs.go), then the files that the containers create in it.  Run *)
(* goes on whatever Init returned.  A job has one step.  The entry that    *)
(* AddWorkingVolumeACL adds is one for new files: it changes the access of *)
(* none that exists.                                                       *)
(***************************************************************************)
EXTENDS Naturals, Sequences

CONSTANTS Root, Self, Image  \* the users: root, the runner's and the image's

VARIABLES
    ctxDone,      \* the context was cancelled
    stoppedFirst, \* history: it was when Init was called
    at,           \* the call Init is at, "running" when it has returned
    dirs,         \* the directories Init has made
    default,      \* the users in the default ACL of volumeDir and logsDir
    world,        \* volumeDir is writable for the world
    files,        \* the files in the volume, each as it was created
    command,      \* iplant.cmd is in the working directory
    result        \* of Init: "none", "nil", or the call whose error it returned

vars == <<ctxDone, stoppedFirst, at, dirs, default, world, files, command, result>>

User == {Root, Self, Image}
Logged == {"compose", "excludes", "trigger"}
Dir == {"volume", "logs", "tmp"}

(* What the mode that a file is created with lets its group do.  Under a   *)
(* default ACL this is the mask of the file: the entries of named users    *)
(* are cut down to it.  The umask does not count.  The 0666 of os.Create   *)
(* lets them read and write.                                               *)
Mode == {{}, {"read"}, {"read", "write"}}
CreateMode == {"read", "write"}

File == [name : Logged \cup {"output"}, owner : User, acl : SUBSET User,
         mode : Mode, whole : BOOLEAN]

(* The calls of Init whose error it returns.                               *)
Mandatory == {"logs", "acl runner", "acl image", "tmp", "trigger",
              "trigger text", "command"}

TypeOK ==
    /\ ctxDone \in BOOLEAN /\ stoppedFirst \in BOOLEAN
    /\ at \in Mandatory \cup {"chmod", "compose", "excludes", "running"}
    /\ dirs \subseteq Dir
    /\ default \subseteq User
    /\ world \in BOOLEAN
    /\ files \subseteq File
    /\ command \in BOOLEAN
    /\ result \in {"none", "nil"} \cup Mandatory

Init ==
    /\ ctxDone \in BOOLEAN /\ stoppedFirst = ctxDone
    /\ at = "logs" /\ dirs = {} /\ default = {} /\ world = FALSE /\ files = {}
    /\ command \in BOOLEAN
    /\ result = "none"

Cancel ==
    /\ ~ctxDone
    /\ ctxDone' = TRUE
    /\ UNCHANGED <<stoppedFirst, at, dirs, default, world, files, command, result>>

Goto(from, to) == at = from /\ at' = to /\ UNCHANGED <<ctxDone, stoppedFirst, command>>

Returns(how) ==
    /\ at' = "running" /\ result' = how
    /\ UNCHANGED <<ctxDone, stoppedFirst, command, dirs, default, world, files>>

-----------------------------------------------------------------------------
(***************************************************************************)
(* JobRunner.Init                                                          *)
(***************************************************************************)
MakeLogs ==
    /\ Goto("logs", "acl runner")
    /\ dirs' = dirs \cup {"volume", "logs"}
    /\ UNCHANGED <<default, world, files, result>>

(* Mutant: the entry replaces those there are.                             *)
AddACL_Replaces(u) ==
    /\ ~ctxDone
    /\ default' = {u}
    /\ UNCHANGED <<dirs, world, files, result>>

(* Mutant: setfacl runs without the context.                               *)
AddACL_NoContext(u) ==
    /\ default' = default \cup {u}
    /\ UNCHANGED <<dirs, world, files, result>>

(* setfacl is killed, or not even started, when the context is cancelled.  *)
AddACL(u) ==
    /\ ~ctxDone
    /\ default' = default \cup {u}
    /\ UNCHANGED <<dirs, world, files, result>>

AddRunnerACL == Goto("acl runner", "acl image") /\ AddACL(Self)
AddImageACL == Goto("acl image", "tmp") /\ AddACL(Image)

MakeTmp ==
    /\ Goto("tmp", "chmod")
    /\ dirs' = dirs \cup {"tmp"}
    /\ UNCHANGED <<default, world, files, result>>

(* A call that changes nothing when it fails.                              *)
Fails == at \in {"tmp", "trigger", "trigger text"} /\ Returns(at)

(* MkdirAll may have made one directory, and a setfacl that is killed may  *)
(* have added its entry.                                                   *)
MakeLogsFails ==
    /\ at = "logs" /\ at' = "running" /\ result' = at
    /\ dirs' \in {{}, {"volume"}}
    /\ UNCHANGED <<ctxDone, stoppedFirst, command, default, world, files>>
ACLFails(from, u) ==
    /\ at = from /\ at' = "running" /\ result' = at
    /\ default' \in {default, default \cup {u}}
    /\ UNCHANGED <<ctxDone, stoppedFirst, command, dirs, world, files>>
RunnerACLFails == ACLFails("acl runner", Self)
ImageACLFails == ACLFails("acl image", Image)

(* The error of Chmod is logged.                                           *)
OpenVolume ==
    /\ Goto("chmod", "compose")
    /\ world' \in BOOLEAN
    /\ UNCHANGED <<dirs, default, files, result>>

New(name, owner, mode, whole) ==
    [name |-> name, owner |-> owner, acl |-> default, mode |-> mode, whole |-> whole]

(* CopyFile fails to open, to create or to copy; its error is logged.      *)
Copy(name) ==
    /\ files' \in {files} \cup
                  {files \cup {New(name, Self, CreateMode, whole)} : whole \in BOOLEAN}
    /\ UNCHANGED <<dirs, default, world, result>>
CopyCompose == Goto("compose", "excludes") /\ Copy("compose")
CopyExcludes == Goto("excludes", "trigger") /\ Copy("excludes")

CreateTrigger ==
    /\ Goto("trigger", "trigger text")
    /\ files' = files \cup {New("trigger", Self, CreateMode, FALSE)}
    /\ UNCHANGED <<dirs, default, world, result>>

WriteTrigger ==
    /\ Goto("trigger text", "command")
    /\ files' = {IF f.name = "trigger" THEN [f EXCEPT !.whole = TRUE] ELSE f : f \in files}
    /\ UNCHANGED <<dirs, default, world, result>>

(* Rename is called when Stat fails: a file that is there stays, and one   *)
(* that is not makes Init fail.                                            *)
LeaveCommand == at = "command" /\ command /\ Returns("nil")
NoCommand == at = "command" /\ ~command /\ Returns(at)

-----------------------------------------------------------------------------
(* A container creates a file where its user may, with a mode of its own   *)
(* choice.  A volume that is not there is made by docker, for root.        *)
CreateOutput(u) ==
    /\ at = "running"
    /\ u = Root \/ ("volume" \in dirs /\ (u = Self \/ world))
    /\ \E mode \in Mode : files' = files \cup {New("output", u, mode, TRUE)}
    /\ UNCHANGED <<ctxDone, stoppedFirst, at, dirs, default, world, command, result>>

Next == \/ Cancel
        \/ MakeLogs \/ AddRunnerACL \/ AddImageACL \/ MakeTmp \/ OpenVolume
        \/ CopyCompose \/ CopyExcludes \/ CreateTrigger \/ WriteTrigger
        \/ LeaveCommand \/ NoCommand
        \/ Fails \/ MakeLogsFails \/ RunnerACLFails \/ ImageACLFails
        \/ \E u \in User : CreateOutput(u)

Spec == Init /\ [][Next]_vars

-----------------------------------------------------------------------------
(* What a user may do with a file, the permissions of its group and of the *)
(* world left out: reading and writing, for root and its owner; what the   *)
(* mode of its creation leaves of the entry in its ACL, for the others.    *)
Access(f, u) ==
    IF u \in {Root, f.owner} THEN {"read", "write"}
    ELSE IF u \in f.acl THEN f.mode ELSE {}

(* Init has set both default ACLs when it returns, be it with an error of  *)
(* a later call.                                                           *)
ACLsSet == result \notin {"none", "logs", "acl runner", "acl image"}

(* The runner and the user of the image can read and write every file that *)
(* Init itself leaves in the volume, whatever it returned.  Whoever        *)
(* creates a file after Init has set the ACLs, both of them can do with it *)
(* what its creator lets a group do: only the creator can shut them out,   *)
(* and not by being somebody else.                                         *)
FilesShared ==
    \A f \in files : \A u \in {Self, Image} :
        /\ f.name \in Logged => Access(f, u) = {"read", "write"}
        /\ ACLsSet => f.mode \subseteq Access(f, u)

(* Init returns nil only when all three directories are there, HTCondor    *)
(* finds a file to transfer, the job was not stopped before, and           *)
(* iplant.cmd, which Init would move from the working directory when it is *)
(* missing there, has stayed there.                                        *)
NilMeansReady ==
    result = "nil" =>
        /\ dirs = Dir /\ ~stoppedFirst /\ command
        /\ \E f \in files : f.name = "trigger" /\ f.whole

-----------------------------------------------------------------------------
(* The inductive invariant: what Init has done, from the call it is at.    *)
AfterACLs == {"tmp", "chmod", "compose", "excludes", "trigger", "trigger text", "command"}
ACLInv ==
    /\ at = "acl image" => Self \in default
    /\ at \in AfterACLs => {Self, Image} \subseteq default /\ ~stoppedFirst
    /\ ACLsSet => {Self, Image} \subseteq default /\ ~stoppedFirst
    /\ stoppedFirst => ctxDone
DirsInv ==
    /\ at \notin {"logs", "running"} => {"volume", "logs"} \subseteq dirs
    /\ at \notin {"logs", "acl runner", "acl image", "tmp", "running"} => "tmp" \in dirs
    /\ at # "running" => result = "none"
TriggerInv ==
    /\ at = "trigger text" => \E f \in files : f.name = "trigger"
    /\ at = "command" => \E f \in files : f.name = "trigger" /\ f.whole
    /\ at # "running" => \A f \in files : f.name \in Logged

(* Every file was created under the default ACL, those of Init by the      *)
(* runner and with the mode of os.Create.                                  *)
FileInv ==
    \A f \in files :
        /\ f.name \in Logged =>
               f.mode = CreateMode /\ {Self, Image} \subseteq f.acl
        /\ ACLsSet => {Self, Image} \subseteq f.acl
VolumeInv == ACLInv /\ DirsInv /\ TriggerInv /\ FileInv /\ NilMeansReady
=============================================================================
