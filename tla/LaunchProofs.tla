---------------------------- MODULE LaunchProofs -----------------------------
(***************************************************************************)
(* What Launch guarantees whatever the three sources of the configuration  *)
(* may give and however often the process is started, killed and started   *)
(* again: the configuration served is a complete one, and a mount is never *)
(* left behind or mounted over, unless fusermount refuses to detach it.    *)
(***************************************************************************)
EXTENDS Launch, TLAPS

\* From the moment it is accepted on, the configuration is what the sources give,
\* with the environment merged in last.
ConfigInv ==
  stage # "down" =>
    config = MergeEnv(Overridden(Loaded(given), given), given) /\ Valid(config)

\* Before the mount: a stale mount that can still be stat'ed was tried.
CleanedInv == stage = "cleaned" /\ mount = "stale" /\ cached => refused

\* The inductive invariant.
LaunchInv == TypeOK /\ ConfigInv /\ CleanedInv /\ StopUnmounts /\ MountsOnFreeGround

LEMMA InitLaunch == Init => LaunchInv
BY BoundAssumption
DEF Init, LaunchInv, TypeOK, Stages, ConfigInv, CleanedInv, StopUnmounts, MountsOnFreeGround

\* A configuration is served only if the sources' one passed validation.
LEMMA StartKeeps ==
  ASSUME LaunchInv, NEW s, Start(s)
  PROVE  LaunchInv'
<1> USE DEF LaunchInv
<1>1. TypeOK'
  BY BoundAssumption DEF Start, TypeOK, Stages
<1>2. ConfigInv'
  BY DEF Start, ConfigInv, Validated
<1>3. CleanedInv' /\ StopUnmounts' /\ MountsOnFreeGround'
  BY DEF Start, CleanedInv, StopUnmounts, MountsOnFreeGround
<1> QED
  BY <1>1, <1>2, <1>3

\* However the process ends, it leaves a mount without a process stale.
LEMMA EndKeeps ==
  ASSUME LaunchInv, End, UNCHANGED <<refused, starts>>
  PROVE  LaunchInv'
BY DEF LaunchInv, TypeOK, Stages, End, ConfigInv, CleanedInv, StopUnmounts, MountsOnFreeGround

\* Every step keeps the invariant: what cleanup, force_unmount and the way down
\* leave of a mount is gone, or was refused.
LEMMA StepLaunch == LaunchInv /\ [Next]_vars => LaunchInv'
<1> SUFFICES ASSUME LaunchInv, [Next]_vars PROVE LaunchInv'
  OBVIOUS
<1> USE DEF LaunchInv
<1>1. CASE UNCHANGED vars \/ Rest
  BY <1>1 DEF Rest, vars, TypeOK, ConfigInv, CleanedInv, StopUnmounts, MountsOnFreeGround
<1>2. CASE \E cli \in CliSets, env \in EnvSets, file \in FileSets :
             Start([cli |-> cli, env |-> env, file |-> file])
  BY <1>2, StartKeeps
<1>3. CASE Create \/ EnsureMountPoint \/ Mount
  <2>1. CASE End /\ UNCHANGED <<refused, starts>>
    BY <2>1, EndKeeps
  <2>2. CASE ~End
    BY <1>3, <2>2 DEF Create, EnsureMountPoint, Mount, PathExists,
       TypeOK, Stages, ConfigInv, CleanedInv, StopUnmounts, MountsOnFreeGround
  <2> QED
    BY <1>3, <2>1, <2>2 DEF Create, EnsureMountPoint, Mount
<1>4. CASE Exit \/ Kill
  BY <1>4, EndKeeps DEF Exit, Kill
<1>5. CASE CleanupStaleMount
  BY <1>5 DEF CleanupStaleMount, ForceUnmount, PathExists,
     TypeOK, Stages, ConfigInv, CleanedInv, StopUnmounts, MountsOnFreeGround
<1>6. CASE Panic \/ Unmount \/ AttrsExpire
  BY <1>6 DEF Panic, Unmount, AttrsExpire, ForceUnmount,
     TypeOK, Stages, ConfigInv, CleanedInv, StopUnmounts, MountsOnFreeGround
<1>7. CASE CtrlC \/ CleanUnmount \/ ForcedUnmount
  BY <1>7 DEF CtrlC, CleanUnmount, ForcedUnmount, ForceUnmount,
     TypeOK, Stages, ConfigInv, CleanedInv, StopUnmounts, MountsOnFreeGround
<1> QED
  BY <1>1, <1>2, <1>3, <1>4, <1>5, <1>6, <1>7 DEF Next, Stop

\* The inductive invariant holds in every reachable state.
THEOREM LaunchInvariant == Spec => []LaunchInv
BY InitLaunch, StepLaunch, PTL DEF Spec

\* The process and its mount point are well typed; a mount without a process is
\* stale, one with a process is not (main.rs).
THEOREM LaunchTypeCorrect == Spec => []TypeOK
<1>1. LaunchInv => TypeOK
  BY DEF LaunchInv
<1> QED
  BY <1>1, LaunchInvariant, PTL

\* Whatever the sources give, no configuration with an empty bucket, a missing key
\* or a block size of 0 is ever served (validate of config.rs, merge_env).
THEOREM ServedConfigIsValid == Spec => []ServesValidConfig
<1>1. LaunchInv => ServesValidConfig
  BY DEF LaunchInv, ConfigInv, ServesValidConfig
<1> QED
  BY <1>1, LaunchInvariant, PTL

\* The endpoint served was named, or belongs to the region served, unless both the
\* command line and the environment give a region: merge_env then replaces the
\* region after the endpoint was derived from the other one (main.rs:176-231).
THEOREM EndpointFitsRegion == Spec => []EndpointOfRegion
<1>1. ASSUME LaunchInv, stage = "serving", ~("region" \in given.cli \cap given.env)
      PROVE  config.endpoint[1] = "given" \/ config.endpoint[2] = config.region
  <2>1. config = MergeEnv(Overridden(Loaded(given), given), given)
    BY <1>1 DEF LaunchInv, ConfigInv
  <2>2. CASE "endpoint" \in given.env
    BY <2>1, <2>2 DEF MergeEnv, Overridden, Loaded, Default
  <2>3. CASE "endpoint" \in given.cli
    BY <2>1, <2>3 DEF MergeEnv, Overridden, Parsed, Loaded, Default
  <2>4. CASE "endpoint" \notin given.cli \cup given.env
    <3>1. config.endpoint = <<"derived", Parsed(given, "region", "default")>>
      BY <2>1, <2>4 DEF MergeEnv, Overridden, Parsed, Loaded, Default
    <3>2. config.region = Parsed(given, "region", "default")
      BY <1>1, <2>1 DEF MergeEnv, Overridden, Parsed, Loaded, Default
    <3> QED
      BY <3>1, <3>2
  <2> QED
    BY <2>2, <2>3, <2>4
<1>2. LaunchInv => EndpointOfRegion
  BY <1>1 DEF EndpointOfRegion
<1> QED
  BY <1>2, LaunchInvariant, PTL

\* A process that was told to stop leaves no mount behind unless fusermount
\* refuses, wherever panics, unmounts from outside and kills come in (mount_unix).
THEOREM StopLeavesNoMount == Spec => []StopUnmounts
<1>1. LaunchInv => StopUnmounts
  BY DEF LaunchInv
<1> QED
  BY <1>1, LaunchInvariant, PTL

\* However often it was killed, a process that starts does not try to mount over a
\* stale mount it could have detached (cleanup_stale_mount).
THEOREM MountsWhereFree == Spec => []MountsOnFreeGround
<1>1. LaunchInv => MountsOnFreeGround
  BY DEF LaunchInv
<1> QED
  BY <1>1, LaunchInvariant, PTL
=============================================================================
