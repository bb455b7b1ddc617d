---------------------------------- MODULE Wiring ----------------------------------
(***************************************************************************)
(* What the root constructs (src/root-constructs) make of a build: the     *)
(* resources of a CloudFormation template, which of them name which, what  *)
(* the compute's environment says and what its role may do                 *)
(* (src/nextjs-compute, src/nextjs-cache.ts, src/nextjs-post-deploy.ts).   *)
(* A resource is its kind and whose it is.                                 *)
(***************************************************************************)
EXTENDS Integers, Sequences, SequencesExt, FiniteSets, TLC

\* A deployment, `d`: its type; the function groups beside the default one; the variables,
\* `env`, and names the user sets for "all" functions and for a group; a `vpc` as a prop,
\* as an override; the architecture of the `machine` and those overridden; what the build left
\* to upload, and how much to seed; whether the load balancer, the cluster are brought and
\* the listener taken away; the base path of the app, the one resolved and what is
\* stripped; the Dockerfile in the build's directory.
OnFunctions(d) == d.type \in {"GLOBAL_FUNCTIONS", "REGIONAL_FUNCTIONS"}
Global(d)      == d.type \in {"GLOBAL_FUNCTIONS", "GLOBAL_CONTAINERS"}
Units(d)       == IF OnFunctions(d) THEN {"default"} \cup d.groups ELSE {"task"}

Of(kind, unit) == <<kind, unit>>
The(kind) == <<kind, "app">>
Given == The("given")    \* a value that names no resource

-----------------------------------------------------------------------------
(* The compute's environment. *)

ReadsStaticAssets(d) == d.type # "REGIONAL_CONTAINERS"
RuntimeEnvironment(d) ==
    ("CACHE_BUCKET_NAME" :> The("cache") @@ "REVALIDATION_TABLE_NAME" :> The("table") @@ "BUILD_ID" :> Given)
    @@ IF ReadsStaticAssets(d) THEN "STATIC_ASSETS_BUCKET_NAME" :> The("assets") @@ "KEY_PREFIX" :> Given ELSE <<>>

\* Mutant: the functions are told of the distribution as the containers are.
NamedOutright(d) == IF Global(d) THEN "DISTRIBUTION_ID" :> The("distribution") ELSE <<>>
\* The parameter's name is known without the parameter.
EdgeEnvironment(d) ==
    CASE d.type = "GLOBAL_FUNCTIONS"  -> "DISTRIBUTION_ID_PARAM_NAME" :> Given
      [] d.type = "GLOBAL_CONTAINERS" -> "DISTRIBUTION_ID" :> The("distribution") @@ "TRUST_CLOUDFRONT_PROTO" :> Given
      [] OTHER -> <<>>

Set(names) == [v \in names |-> Given]
\* Mutant: a group's own variables are all it has of the user's.
GroupsAlone(d, u) == IF d.env[u] # {} THEN Set(d.env[u]) ELSE Set(d.env["all"])
UsersEnvironment(d, u) == Set(d.env["all"] \cup d.env[u])
\* The user's win over the runtime's.
Environment(d, u) == EdgeEnvironment(d) @@ UsersEnvironment(d, u) @@ RuntimeEnvironment(d)

-----------------------------------------------------------------------------
(* Who may do what. *)

Grant(to, actions, on) == {[to |-> to, may |-> a, on |-> on] : a \in actions}
BucketReads == {"GetObject", "ListBucket"}
BucketAll   == BucketReads \cup {"PutObject", "DeleteObject"}
TableAll    == {"GetItem", "BatchGetItem", "Query", "PutItem", "UpdateItem", "DeleteItem", "BatchWriteItem"}

\* Mutant: nothing of the assets is read.
NoAssetsAccess(d, u) ==
    Grant(Of("role", u), BucketAll, The("cache")) \cup Grant(Of("role", u), TableAll, The("table"))
\* grantRuntimeAccess
RuntimeAccess(d, u) ==
    Grant(Of("role", u), BucketAll, The("cache")) \cup Grant(Of("role", u), TableAll, The("table"))
    \cup (IF ReadsStaticAssets(d) THEN Grant(Of("role", u), BucketReads, The("assets")) ELSE {})

\* Mutant: only the default function is given it.
InvalidatesByDefault(d) ==
    Grant(Of("role", "default"), {"GetParameter"}, The("parameter"))
    \cup Grant(Of("role", "default"), {"CreateInvalidation"}, The("distribution"))
\* wireCloudFrontInvalidation: a policy of its own, of every function's role.
InvalidationPolicy(d) ==
    UNION {Grant(Of("role", u), {"GetParameter"}, The("parameter"))
           \cup Grant(Of("role", u), {"CreateInvalidation"}, The("distribution")) : u \in Units(d)}
EdgePolicy(d) == IF d.type = "GLOBAL_FUNCTIONS" THEN InvalidationPolicy(d) ELSE {}
TaskInvalidates(d, u) ==
    IF d.type = "GLOBAL_CONTAINERS" THEN Grant(Of("role", u), {"CreateInvalidation"}, The("distribution")) ELSE {}
OwnPolicy(d, u) == RuntimeAccess(d, u) \cup TaskInvalidates(d, u)

PostDeployAccess(d) ==
    LET role == The("post-deploy role")
    IN  Grant(role, BucketAll, The("cache")) \cup Grant(role, BucketAll, The("assets"))
        \cup Grant(role, TableAll, The("table"))
        \cup (IF Global(d) THEN Grant(role, {"CreateInvalidation"}, The("distribution")) ELSE {})

\* createStaticIntegrationRole, createRedeploy
ApiAccess(d) ==
    Grant(The("static role"), BucketReads, The("assets"))
    \cup Grant(The("redeploy role"), {"CreateDeployment", "GetDeployments", "GetStages", "DeleteDeployment"}, The("api"))

Granted(d) ==
    UNION {OwnPolicy(d, u) : u \in Units(d)} \cup EdgePolicy(d) \cup PostDeployAccess(d)
    \cup (IF d.type = "REGIONAL_FUNCTIONS" THEN ApiAccess(d) ELSE {})

\* What the runtime's calls need, of what its environment names: the cache handlers, the
\* image optimizer, an invalidation; a parameter is the name of one.
UsesOf(d, u) ==
    LET env == Environment(d, u)
        names(v, what) == v \in DOMAIN env /\ env[v] = what
        role == Of("role", u)
    IN  UNION {
          IF names("CACHE_BUCKET_NAME", The("cache"))
          THEN Grant(role, {"GetObject", "PutObject", "DeleteObject"}, The("cache")) ELSE {},
          IF names("REVALIDATION_TABLE_NAME", The("table"))
          THEN Grant(role, {"BatchGetItem", "Query", "PutItem", "UpdateItem", "DeleteItem"}, The("table")) ELSE {},
          IF names("STATIC_ASSETS_BUCKET_NAME", The("assets"))
          THEN Grant(role, {"GetObject", "ListBucket"}, The("assets")) ELSE {},
          IF "DISTRIBUTION_ID_PARAM_NAME" \in DOMAIN env THEN Grant(role, {"GetParameter"}, The("parameter")) ELSE {},
          IF Global(d) THEN Grant(role, {"CreateInvalidation"}, The("distribution")) ELSE {}}
\* And the post-deploy function's, of a deployment's parts.
PostDeployUses(d) ==
    LET role == The("post-deploy role")
    IN  Grant(role, {"ListBucket", "DeleteObject"}, The("cache"))
        \cup Grant(role, {"ListBucket", "GetObject", "DeleteObject"}, The("assets"))
        \cup Grant(role, {"GetItem", "PutItem", "Query", "BatchWriteItem"}, The("table"))
        \cup (IF Global(d) THEN Grant(role, {"CreateInvalidation"}, The("distribution")) ELSE {})

-----------------------------------------------------------------------------
(* Which resource names which, and so is made after it. *)

Refs(from, tos) == {<<from, to>> : to \in tos}
Named(grants) == {g.on : g \in grants}

ComputeRefs(d, u) ==
    Refs(Of("compute", u),
         {Of("role", u), Of("policy", u)} \cup ({Environment(d, u)[v] : v \in DOMAIN Environment(d, u)} \ {Given}))
    \cup Refs(Of("policy", u), {Of("role", u)} \cup Named(OwnPolicy(d, u)))

\* Mutant: the service still waits for the listener.
WithItsListener(d) == Refs(Of("compute", "task"), {The("targets"), The("listener")})
\* createAlbFargateSevice, and removeAutoCreatedListener's DependsOn.
ServiceRefs(d) == Refs(Of("compute", "task"), {The("targets")} \cup (IF d.unlisted THEN {} ELSE {The("listener")}))
ListenerRefs(d) ==
    IF d.unlisted THEN {} ELSE Refs(The("listener"), {The("targets"), The("alb")}) \cup Refs(The("ingress"), {The("alb")})

\* NextjsDistribution's origins, grantInvoke, and the bucket's policy for it.
DistributionRefs(d) ==
    Refs(The("distribution"), {The("assets")} \cup (IF OnFunctions(d) THEN {Of("url", u) : u \in Units(d)} ELSE {The("alb")}))
    \cup Refs(The("assets policy"), {The("assets"), The("distribution")})
    \cup IF ~OnFunctions(d) THEN {}
         ELSE UNION {Refs(Of("url", u), {Of("compute", u)}) \cup Refs(Of("permission", u), {Of("url", u), The("distribution")}) :
                        u \in Units(d)}
              \cup Refs(The("parameter"), {The("distribution")})
              \cup Refs(The("invalidation policy"), {Of("role", u) : u \in Units(d)} \cup (Named(EdgePolicy(d)) \ {The("parameter")}))
ApiRefs(d) ==
    Refs(The("methods"), {Of("compute", u) : u \in Units(d)} \cup {The("api"), The("static role")})
    \cup Refs(The("stage"), {The("methods")}) \cup Refs(The("static role"), {The("assets")})
    \cup Refs(The("redeploy"), {The("stage"), The("redeploy role")}) \cup Refs(The("redeploy role"), {The("api")})
    \cup Refs(The("redeploy rule"), {The("redeploy")})

Uploads(d) == {Of("upload", k) : k \in d.uploads} \cup (IF d.seedMib = 0 THEN {} ELSE {The("seeds")})
UploadRefs(d) == UNION {Refs(up, {IF up = The("seeds") THEN The("cache") ELSE The("assets")}) : up \in Uploads(d)}

\* Mutant: what was the one upload of the assets is still all that is waited for.
AfterOneUpload(d) == Uploads(d) \cap {The("seeds"), Of("upload", "static")}
\* createNextjsPostDeploy
PostDeployAfter(d) == Uploads(d)
PostDeployRefs(d) ==
    Refs(The("post-deploy"), {The("post-deploy function")} \cup Named(PostDeployAccess(d)) \cup PostDeployAfter(d))
    \cup Refs(The("post-deploy function"), {The("post-deploy role")})
    \cup Refs(The("post-deploy role"), Named(PostDeployAccess(d)))

References(d) ==
    UNION {ComputeRefs(d, u) : u \in Units(d)} \cup UploadRefs(d) \cup PostDeployRefs(d)
    \cup (IF OnFunctions(d) THEN {} ELSE ServiceRefs(d) \cup ListenerRefs(d))
    \cup (IF Global(d) THEN DistributionRefs(d) ELSE {})
    \cup (IF d.type = "REGIONAL_FUNCTIONS" THEN ApiRefs(d) ELSE {})

\* The template's resources: those that name others, and the ones that need not.
Resources(d) ==
    {r[1] : r \in References(d)} \cup {Of("role", u) : u \in Units(d)} \cup {The("cache"), The("table"), The("assets")}
    \cup (IF OnFunctions(d) THEN {The("api")} ELSE {The("targets"), The("alb")})

Rounds(d) == [i \in 1 .. Cardinality(Resources(d)) |-> i]
\* What CloudFormation gets to make, each after all it names.
Made(d) ==
    LET refs == References(d)
        more(made, i) == made \cup {r \in Resources(d) : \A ref \in refs : ref[1] = r => ref[2] \in made}
    IN  FoldLeft(more, {}, Rounds(d))
Before(d, resource) ==
    LET refs == References(d)
        more(found, i) == found \cup {r[2] : r \in {r \in refs : r[1] \in found}}
    IN  FoldLeft(more, {r[2] : r \in {r \in refs : r[1] = resource}}, Rounds(d))

-----------------------------------------------------------------------------
(* What else is settled at synth. *)

\* createNextjsBuild: what sharp is staged for, and every function runs.
Staged(d) == IF OnFunctions(d) /\ d.arch["all"] # "none" THEN d.arch["all"] ELSE d.machine
\* Mutant: only what is asked of all functions is looked at.
AskedOfAll(d, u) == d.arch["all"]
\* createFunction: a group may not ask for another.
AskedArchitecture(d, u) == IF d.arch[u] # "none" THEN d.arch[u] ELSE d.arch["all"]
Refused(d) == OnFunctions(d) /\ \E u \in Units(d) : AskedArchitecture(d, u) \notin {"none", Staged(d)}

\* Mutant: every function is named as all of them are.
NameOfAll(d, u) == IF d.name[u] # "none" THEN d.name[u] ELSE d.name["all"]
\* sharedFunctionProps: a name is the default function's.
FunctionName(d, u) == IF d.name[u] # "none" THEN d.name[u] ELSE IF u = "default" THEN d.name["all"] ELSE "none"

\* Mutant: the prop is passed on as it is.
VpcAsGiven(d) == d.vpc.prop
\* createNextjsFunctions, createNextjsContainers
Vpc(d) == IF d.vpc.prop # "none" THEN d.vpc.prop ELSE d.vpc.override
\* addVpcGatewayEndpoints
Endpoints(d) == ~OnFunctions(d) /\ ~d.clusterBrought /\ Vpc(d) = "none"

\* Mutant: with the base path all else is deployed under.
HealthUnderResolved(d) == d.base.resolved
\* resolvedHealthCheckPath
HealthPath(d) == d.base.app
\* The `url` of each root construct, after the host.
UrlPath(d) ==
    CASE d.type = "REGIONAL_CONTAINERS" -> d.base.app
      [] d.type = "REGIONAL_FUNCTIONS" -> d.base.stripped \o d.base.resolved
      [] OTHER -> d.base.resolved

\* Mutant: whatever is there is left.
KeepsAny(file) == [now |-> IF file = "none" THEN "this version's" ELSE file, backup |-> "none"]
\* dockerfileAction, copyDockerfileToContext
Dockerfile(file) ==
    CASE file \in {"developer's", "this version's"} -> [now |-> file, backup |-> "none"]
      [] file = "none" -> [now |-> "this version's", backup |-> "none"]
      [] OTHER -> [now |-> "this version's", backup |-> file]

\* deploymentLambdaSizing: the cache and its archive, in doublings.
Wanted(mib) == 2 * mib + 128
Steps == {512, 1024, 2048, 4096, 8192, 16384}
\* Mutant: a step that only holds the cache.
StepOfCache(mib) == IF mib > 8192 THEN 10240 ELSE CHOOSE s \in Steps : s >= mib /\ \A t \in Steps : t >= mib => s <= t
StorageStep(mib) ==
    IF Wanted(mib) > 8192 THEN 10240
    ELSE CHOOSE s \in Steps : s >= Wanted(mib) /\ \A t \in Steps : t >= Wanted(mib) => s <= t
Warned(mib) == Wanted(mib) > 10240

-----------------------------------------------------------------------------
(* Property. *)

\* A template that is not refused deploys: nothing in it waits for itself or for what is
\* not there, no two functions have one name. Every unit of compute learns of the
\* resources it uses and may do with them what the runtime does, the functions of all
\* groups alike, with the user's variables beside; so may the post-deploy function, which
\* runs after every upload. What the user gave is used: a VPC, from either place, a
\* Dockerfile. And the app is probed, and announced, where it answers (the root
\* constructs, runtimeEnvironment, grantRuntimeAccess).
WiredAsUsed(d) == ~Refused(d) =>
    /\ Made(d) = Resources(d)
    /\ \A u, v \in Units(d) : u # v /\ FunctionName(d, u) = FunctionName(d, v) => FunctionName(d, u) = "none"
    /\ UNION {UsesOf(d, u) : u \in Units(d)} \cup PostDeployUses(d) \subseteq Granted(d)
    /\ \A u \in Units(d) :
          /\ d.env["all"] \cup d.env[u] \cup {"CACHE_BUCKET_NAME", "REVALIDATION_TABLE_NAME", "BUILD_ID"}
                \subseteq DOMAIN Environment(d, u)
          /\ Global(d) => {"DISTRIBUTION_ID", "DISTRIBUTION_ID_PARAM_NAME"} \cap DOMAIN Environment(d, u) # {}
          /\ OnFunctions(d) => \A o \in {u, "all"} : d.arch[o] \in {"none", Staged(d)}
    /\ Uploads(d) \subseteq Before(d, The("post-deploy"))
    /\ d.vpc.override # "none" => Vpc(d) # "none"
    /\ Endpoints(d) => Vpc(d) = "none"
    /\ HealthPath(d) = d.base.app /\ UrlPath(d) = d.base.app
    /\ LET after == Dockerfile(d.file)
       IN  /\ d.file = "developer's" => after.now = d.file
           /\ d.file # "developer's" => after.now = "this version's"
           /\ d.file \notin {"none", after.now} => after.backup = d.file
    /\ Warned(d.seedMib) \/ 2 * d.seedMib < StorageStep(d.seedMib)
==================================================================================
