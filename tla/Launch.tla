------------------------------- MODULE Launch --------------------------------
(***************************************************************************)
(* The process: how src/main.rs makes a configuration of its command line, *)
(* the environment and a file (src/config.rs), and how on Linux it mounts, *)
(* serves, stops and comes back after a crash.                             *)
(*                                                                         *)
(* A field's value is the source it came from.  The command line, the      *)
(* environment and the file each give a set of fields.  A killed process   *)
(* leaves its mount behind: a stale one, on which every call fails but     *)
(* stat, as long as the kernel has the root's attributes cached.           *)
(***************************************************************************)
EXTENDS Naturals, FiniteSets

CONSTANTS
  CliSets, EnvSets, FileSets,  \* what the three sources may give
  MaxStarts                    \* bound on the starts of a behaviour

Fields == {"bucket", "endpoint", "region", "access_key", "secret_key"}

\* "empty" is an environment whose OBS_BUCKET is the empty string, "zero" a file
\* with a block size of 0.
ASSUME SourcesAssumption ==
  /\ \A s \in CliSets : s \subseteq Fields
  /\ \A s \in EnvSets : s \subseteq Fields \cup {"empty"}
  /\ \A s \in FileSets : s \subseteq Fields \cup {"zero"}
ASSUME BoundAssumption == MaxStarts \in Nat

VARIABLES
  stage,    \* where the process is in main; "down" before it starts and after it ended
  config,   \* the configuration it runs with
  given,    \* what its sources gave
  mount,    \* the mount point: "absent", "free", "mounted" or "stale"
  cached,   \* whether the kernel has the attributes of a stale mount's root
  refused,  \* history: force_unmount's last try since the start was refused
  starts

vars == <<stage, config, given, mount, cached, refused, starts>>

Default == [bucket |-> "empty", endpoint |-> <<"given", "default">>, region |-> "default",
            access_key |-> "none", secret_key |-> "none", block |-> "positive"]
NoSources == [cli |-> {}, env |-> {}, file |-> {}]

Init ==
  /\ stage = "down" /\ config = Default /\ given = NoSources
  /\ mount \in {"absent", "free"}
  /\ cached = FALSE /\ refused = FALSE /\ starts = 0

-----------------------------------------------------------------------------
(* The configuration *)

\* The parser of the command line takes an option from the environment if it is
\* not on the command line.
Parsed(s, f, otherwise) ==
  IF f \in s.cli THEN "cli" ELSE IF f \in s.env THEN "env" ELSE otherwise

\* What a file gives, over the defaults.
Loaded(s) ==
  LET From(f, default) == IF f \in s.file THEN "file" ELSE default IN
  [Default EXCEPT !.bucket = From("bucket", @),
                  !.endpoint = <<"given", From("endpoint", @[2])>>,
                  !.region = From("region", @),
                  !.access_key = From("access_key", @),
                  !.secret_key = From("secret_key", @),
                  !.block = IF "zero" \in s.file THEN "zero" ELSE @]

\* Mutant: the endpoint is derived before the region is known.
OverriddenEndpointFirst(c, s) ==
  LET ep == Parsed(s, "endpoint", "none") IN
  [c EXCEPT !.bucket = "cli",
            !.region = Parsed(s, "region", "default"),
            !.endpoint = IF ep = "none" THEN <<"derived", c.region>> ELSE <<"given", ep>>,
            !.access_key = Parsed(s, "access_key", c.access_key),
            !.secret_key = Parsed(s, "secret_key", c.secret_key)]

\* Bucket and region always come from the command line, a default included; the
\* endpoint is derived from the region if it is not named.
Overridden(c, s) ==
  LET region == Parsed(s, "region", "default")
      ep == Parsed(s, "endpoint", "none")
  IN
  [c EXCEPT !.bucket = "cli",
            !.region = region,
            !.endpoint = IF ep = "none" THEN <<"derived", region>> ELSE <<"given", ep>>,
            !.access_key = Parsed(s, "access_key", c.access_key),
            !.secret_key = Parsed(s, "secret_key", c.secret_key)]

MergeEnv(c, s) ==
  LET Env(f, otherwise) == IF f \in s.env THEN "env" ELSE otherwise IN
  [c EXCEPT !.access_key = Env("access_key", @), !.secret_key = Env("secret_key", @),
            !.endpoint = IF "endpoint" \in s.env THEN <<"given", "env">> ELSE @,
            !.bucket = IF "empty" \in s.env THEN "empty" ELSE Env("bucket", @),
            !.region = Env("region", @)]

\* Mutant: the environment is merged into what has been validated.
ValidatedBefore(c, s) == c

\* What validate gets to see: the configuration that will be used.
Validated(c, s) == MergeEnv(c, s)

Valid(c) ==
  /\ c.bucket # "empty" /\ c.block # "zero"
  /\ c.access_key # "none" /\ c.secret_key # "none"

-----------------------------------------------------------------------------
(* Mounting *)

\* The end of the process, on whatever way: a mount it leaves is stale, with the
\* root's attributes in the kernel's cache or not.
End ==
  /\ stage' = "down" /\ config' = Default /\ given' = NoSources
  /\ IF mount = "mounted" THEN mount' = "stale" /\ cached' \in BOOLEAN
     ELSE UNCHANGED <<mount, cached>>

\* Sources are read and validated; a configuration refused ends the process.
Start(s) ==
  LET c == Overridden(Loaded(s), s) IN
  /\ stage = "down" /\ starts < MaxStarts
  /\ starts' = starts + 1 /\ refused' = FALSE
  /\ IF Valid(Validated(c, s))
     THEN stage' = "configured" /\ config' = MergeEnv(c, s) /\ given' = s
     ELSE UNCHANGED <<stage, config, given>>
  /\ UNCHANGED <<mount, cached>>

\* The panic hook is installed and the file system made, or not.
Create ==
  /\ stage = "configured"
  /\ \/ stage' = "created" /\ UNCHANGED <<config, given, mount, cached>>
     \/ End
  /\ UNCHANGED <<refused, starts>>

\* force_unmount: fusermount detaches whatever is there, unless it refuses.
ForceUnmount ==
  \/ /\ mount' = IF mount \in {"mounted", "stale"} THEN "free" ELSE mount
     /\ cached' = FALSE /\ refused' = FALSE
  \/ refused' = TRUE /\ UNCHANGED <<mount, cached>>

\* A mount point that cannot be stat'ed counts as one that does not exist.
PathExists == mount \in {"free", "mounted"} \/ (mount = "stale" /\ cached)

\* Mutant: a stale mount is taken for a directory in use.
CleanupNothing ==
  /\ stage = "created"
  /\ stage' = "cleaned"
  /\ UNCHANGED <<config, given, mount, cached, refused, starts>>

\* cleanup_stale_mount: only a stale mount that can be stat'ed is found and detached.
CleanupStaleMount ==
  /\ stage = "created"
  /\ stage' = "cleaned"
  /\ IF PathExists /\ mount = "stale" THEN ForceUnmount
     ELSE UNCHANGED <<mount, cached, refused>>
  /\ UNCHANGED <<config, given, starts>>

\* The directory is made if it seems to be missing; under a stale mount that fails.
EnsureMountPoint ==
  /\ stage = "cleaned"
  /\ \/ PathExists /\ stage' = "ready" /\ UNCHANGED <<config, given, mount, cached>>
     \/ /\ ~PathExists /\ mount = "absent"
        /\ mount' = "free" /\ stage' = "ready" /\ UNCHANGED <<config, given, cached>>
     \/ ~PathExists /\ mount = "stale" /\ End
  /\ UNCHANGED <<refused, starts>>

\* Mutant: an error of the mount is only reported.
MountRegardless ==
  /\ stage = "ready"
  /\ stage' = "serving"
  /\ mount' = IF mount = "free" THEN "mounted" ELSE mount
  /\ UNCHANGED <<config, given, cached, refused, starts>>

\* The mount may fail, and over a stale one it does.
Mount ==
  /\ stage = "ready"
  /\ \/ /\ mount = "free"
        /\ mount' = "mounted" /\ stage' = "serving" /\ UNCHANGED <<config, given, cached>>
     \/ End
  /\ UNCHANGED <<refused, starts>>

-----------------------------------------------------------------------------
(* Serving and stopping *)

\* A request handler panics: the hook detaches the mount, and the process, whose
\* task alone has ended, goes on waiting for its signal.
Panic ==
  /\ stage = "serving"
  /\ ForceUnmount
  /\ UNCHANGED <<stage, config, given, starts>>

\* obsfuse unmount, or fusermount -u, from outside; also of a stale mount.
Unmount ==
  /\ mount \in {"mounted", "stale"}
  /\ mount' = "free" /\ cached' = FALSE
  /\ UNCHANGED <<stage, config, given, refused, starts>>

CtrlC ==
  /\ stage = "serving"
  /\ stage' = "stopping"
  /\ UNCHANGED <<config, given, mount, cached, refused, starts>>

\* The session's own unmount; it fails while files are open.
CleanUnmount ==
  /\ stage = "stopping"
  /\ \/ /\ stage' = "unmounted"
        /\ mount' = IF mount = "mounted" THEN "free" ELSE mount
        /\ UNCHANGED cached
     \/ stage' = "forcing" /\ UNCHANGED <<mount, cached>>
  /\ UNCHANGED <<config, given, refused, starts>>

\* Mutant: a failed unmount is only reported.
ForceNothing ==
  /\ stage = "forcing"
  /\ stage' = "unmounted"
  /\ UNCHANGED <<config, given, mount, cached, refused, starts>>

\* Mutant: main unmounts until it works.
ForceAgain ==
  /\ stage = "forcing"
  /\ ForceUnmount
  /\ stage' = IF refused' THEN "stopping" ELSE "unmounted"
  /\ UNCHANGED <<config, given, starts>>

ForcedUnmount ==
  /\ stage = "forcing"
  /\ stage' = "unmounted"
  /\ ForceUnmount
  /\ UNCHANGED <<config, given, starts>>

Exit == stage = "unmounted" /\ End /\ UNCHANGED <<refused, starts>>

-----------------------------------------------------------------------------
(* The environment *)

\* The process is killed or crashes.
Kill == stage # "down" /\ End /\ UNCHANGED <<refused, starts>>

AttrsExpire ==
  /\ cached /\ cached' = FALSE
  /\ UNCHANGED <<stage, config, given, mount, refused, starts>>

\* What main does by itself once it was told to stop.
Stop == CleanUnmount \/ ForcedUnmount \/ Exit

\* The last process of a behaviour has ended and nobody starts another.
Rest == stage = "down" /\ starts = MaxStarts /\ UNCHANGED vars

Next ==
  \/ \E cli \in CliSets, env \in EnvSets, file \in FileSets :
       Start([cli |-> cli, env |-> env, file |-> file])
  \/ Create \/ CleanupStaleMount \/ EnsureMountPoint \/ Mount
  \/ Panic \/ Unmount \/ CtrlC \/ Stop \/ Kill \/ AttrsExpire
  \/ Rest

Spec == Init /\ [][Next]_vars

\* main goes on by itself once the signal has come, and the session answers.
FairSpec == Spec /\ WF_vars(Stop)

-----------------------------------------------------------------------------
Stages == {"down", "configured", "created", "cleaned", "ready", "serving", "stopping",
           "forcing", "unmounted"}

\* The type of the state; a mount without a process is stale and one with a
\* process is not.
TypeOK ==
  /\ stage \in Stages /\ starts \in 0..MaxStarts
  /\ mount \in {"absent", "free", "mounted", "stale"}
  /\ cached => mount = "stale"
  /\ mount = "mounted" => stage \in {"serving", "stopping", "forcing", "unmounted"}
  /\ mount = "stale" => stage \notin {"serving", "stopping", "forcing", "unmounted"}

\* The configuration that mounts is complete, whatever the environment put into
\* it last (merge_env, validate).
ServesValidConfig == stage = "serving" => Valid(config)

\* The endpoint served is the one that was named or the one of the region served
\* (main), unless the environment replaces a region of the command line after the
\* endpoint was derived from it (merge_env).
EndpointOfRegion ==
  stage = "serving" /\ ~("region" \in given.cli \cap given.env) =>
    config.endpoint[1] = "given" \/ config.endpoint[2] = config.region

\* A process that was told to stop leaves no mount behind, unless fusermount
\* refuses (mount_unix).
StopUnmounts == stage = "unmounted" /\ mount = "mounted" => refused

\* After a crash, a new process does not try to mount over a stale mount unless it
\* could not detach it (cleanup_stale_mount and the check that follows it).
MountsOnFreeGround == stage = "ready" /\ mount = "stale" => refused

\* A process that was told to stop ends.
StopEnds == stage \in {"stopping", "forcing", "unmounted"} ~> stage = "down"
=============================================================================
