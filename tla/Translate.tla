----------------------------- MODULE Translate -----------------------------
(***************************************************************************)
(* The translation engine of the ACI provider (aci.go): the part of        *)
(* CreatePod that turns the orchestrator's pod spec into the container     *)
(* group request it submits, or into a validation error before any        *)
(* backend call.  The handler is one step: the state is the pod under      *)
(* translation and the handler's result.                                   *)
(*                                                                         *)
(* Data is abstracted to what the properties tell apart: a command is      *)
(* whether it is non-empty, a string compared with strings.EqualFold is a  *)
(* pair <<word, variant>> (equal up to case iff the words are equal), an   *)
(* error is one value whatever its message, and a decoded registry auth    *)
(* is a sequence of characters from a small alphabet (its split on ':'     *)
(* is what the code does with it).  Quantities are integers: CPU in        *)
(* millicores, memory in bytes.                                            *)
(***************************************************************************)
EXTENDS Integers, SequencesExt, Functions

CONSTANTS
    OSType,       \* p.operatingSystem, a word
    SubnetMode,   \* p.subnetName # "" (delegated-subnet mode)
    GpuSKUs,      \* p.gpuSKUs, a sequence of words
    SecretStore,  \* resourceManager.GetSecret: secret name -> secret
    PodSpecs      \* the pods the orchestrator may hand to CreatePod

ASSUME TranslateAssumption ==
    /\ SubnetMode \in BOOLEAN
    /\ GpuSKUs \in Seq(STRING \X Nat)

VARIABLES pod, out
vars == <<pod, out>>

EqualFold(a, b) == a[1] = b[1]

Absent == -1                 \* a key the resource map does not have
GB10 == 100000000            \* bytes in a tenth of a GB (aci.go 1000)
SAPath == <<"serviceaccount", 0>>   \* serviceAccountSecretMountPath
Windows == <<"windows", 0>>
Colon == ":"

NotRun == [ran |-> FALSE, ok |-> FALSE]
Err == [ran |-> TRUE, ok |-> FALSE]
NoGpu == [count |-> 0, sku |-> <<"", 0>>]

\* What the translation reads of a pod spec has the shape the API server
\* admits: resource quantities are non-negative or left out, and a
\* container port is a positive number (it validates 1..65535).  The
\* secret store answers for every name a pod refers to, found or not.
Quantity == Nat \cup {Absent}
PortSpec == [num : Nat \ {0}, proto : STRING, pname : STRING]

PodShape(p) ==
  /\ \A j \in DOMAIN p.pullSecrets : p.pullSecrets[j] \in DOMAIN SecretStore
  /\ \A i \in DOMAIN p.ctrs :
        /\ p.ctrs[i].req.cpu \in Quantity
        /\ p.ctrs[i].req.mem \in Quantity
        /\ p.ctrs[i].lim.gpu \in Quantity
        /\ p.ctrs[i].ports \in Seq(PortSpec)

ASSUME PodSpecsAssumption == \A p \in PodSpecs : PodShape(p)

\* A dockercfg auth decodes to a sequence of characters.
ASSUME SecretStoreAssumption ==
    \A n \in DOMAIN SecretStore : \A e \in SecretStore[n].entries : e.auth \in Seq(STRING)

(***************************************************************************)
(* getContainers: resources.  CPU is in hundredths of a core and memory in *)
(* tenths of a GB, as ACI takes them; the Go code divides int64s (so the   *)
(* quotient is truncated) and then floors at one step.                     *)
(***************************************************************************)
CpuRequestNoFloor(m) == IF m = Absent THEN 100 ELSE m \div 10

CpuRequest(m) ==
    IF m = Absent THEN 100
    ELSE IF m \div 10 < 1 THEN 1 ELSE m \div 10

MemRequest(b) ==
    IF b = Absent THEN 15
    ELSE IF b \div GB10 < 1 THEN 1 ELSE b \div GB10

\* Limits, present only when the container has a limits map: a CPU limit
\* is passed in millicores unquantized, a memory limit is truncated to
\* tenths of a GB with no floor, and a missing one mirrors the request.
CpuLimit(c) ==
    IF c.lim.cpu = Absent THEN 10 * CpuRequest(c.req.cpu) ELSE c.lim.cpu

MemLimit(c) ==
    IF c.lim.mem = Absent THEN MemRequest(c.req.mem) ELSE c.lim.mem \div GB10

HasGpu(c) == c.hasLim /\ c.lim.gpu # Absent

\* getGPUSKU: the index in GpuSKUs of the SKU chosen for the pod, 0 when
\* none is supported or the annotation names one the region lacks.
GetGPUSKU(p) ==
    IF Len(GpuSKUs) = 0 THEN 0
    ELSE IF p.gpuType.set
         THEN SelectInSeq(GpuSKUs, LAMBDA s : EqualFold(p.gpuType.word, s))
         ELSE 1

\* getProbe: the HTTP port, a named one resolved against the container's
\* ports (first match); 0 is "unable to find named port".
ProbePort(pr, ports) ==
    IF pr.named
    THEN LET i == SelectInSeq(ports, LAMBDA q : q.pname = pr.pname)
         IN IF i = 0 THEN 0 ELSE ports[i].num
    ELSE pr.num

ProbeError(pr, ports) ==
    \/ pr.exec = pr.http
    \/ pr.http /\ pr.named /\ ProbePort(pr, ports) = 0

ProbeOut(pr, ports) ==
    IF ~pr.set THEN [set |-> FALSE, port |-> 0]
    ELSE [set |-> TRUE, port |-> IF pr.http THEN ProbePort(pr, ports) ELSE 0]

\* getACIEnvVar: a variable sourced from a secret reference is sent as a
\* secure value, any other as a plain one.
ACIEnvVar(e) == [name |-> e.name, secure |-> e.secret]

\* getEnvironmentVariables: variables with an empty value are dropped.
EnvOut(env) ==
    LET kept == SelectSeq(env, LAMBDA e : e.val)
    IN [i \in DOMAIN kept |-> ACIEnvVar(kept[i])]

\* getProtocol (outside aci.go): the container port keeps its protocol.
GetProtocol(proto) == proto

\* getContainers fails on the first container with args but no command,
\* an unresolvable GPU SKU or a zero GPU count, or a bad probe.
CtrError(p, c) ==
    \/ c.args /\ ~c.cmd
    \/ HasGpu(c) /\ (GetGPUSKU(p) = 0 \/ c.lim.gpu = 0)
    \/ c.live.set /\ ProbeError(c.live, c.ports)
    \/ c.ready.set /\ ProbeError(c.ready, c.ports)

CtrOut(p, c) ==
    [ports  |-> [i \in DOMAIN c.ports |->
                    [num |-> c.ports[i].num, proto |-> GetProtocol(c.ports[i].proto)]],
     mounts |-> c.mounts,
     env    |-> EnvOut(c.env),
     cpu    |-> CpuRequest(c.req.cpu),
     mem    |-> MemRequest(c.req.mem),
     hasLim |-> c.hasLim,
     cpuLim |-> IF c.hasLim THEN CpuLimit(c) ELSE 0,
     memLim |-> IF c.hasLim THEN MemLimit(c) ELSE 0,
     gpu    |-> IF HasGpu(c)
                THEN [count |-> c.lim.gpu, sku |-> GpuSKUs[GetGPUSKU(p)]]
                ELSE NoGpu,
     live   |-> ProbeOut(c.live, c.ports),
     ready  |-> ProbeOut(c.ready, c.ports)]

\* getInitContainers: verifyContainer, then no ports, requests, limits or
\* probes; an init container keeps its mounts and environment.
InitErrorNoLimits(ic) ==
    \/ ic.args /\ ~ic.cmd
    \/ ic.hasPorts \/ ic.hasReq \/ ic.live \/ ic.ready

InitError(ic) ==
    \/ ic.args /\ ~ic.cmd
    \/ ic.hasPorts \/ ic.hasReq \/ ic.hasLim \/ ic.live \/ ic.ready

InitOut(ic) == [mounts |-> ic.mounts, env |-> EnvOut(ic.env)]

(***************************************************************************)
(* getImagePullSecrets and the readers of the two secret formats.          *)
(***************************************************************************)
NColons(s) == Cardinality({i \in DOMAIN s : s[i] = Colon})

\* makeRegistryCredential: an entry without a username needs an auth that
\* decodes and splits on ':' into exactly two parts.
MakeCredError(e) ==
    /\ e.user = <<>>
    /\ \/ e.auth = <<>>
       \/ ~e.b64ok
       \/ NColons(e.auth) + 1 # 2

MakeCred(e) ==
    IF e.user # <<>>
    THEN [server |-> e.server, user |-> e.user, pass |-> e.pass]
    ELSE LET i == SelectInSeq(e.auth, LAMBDA ch : ch = Colon)
         IN [server |-> e.server, user |-> SubSeq(e.auth, 1, i - 1),
             pass |-> SubSeq(e.auth, i + 1, Len(e.auth))]

\* readDockerCfgSecret
DockerCfgError(s) ==
    ~s.hasKey \/ ~s.parses \/ \E e \in s.entries : MakeCredError(e)

\* readDockerConfigJSONSecret and makeRegistryCredentialFromDockerConfig
DockerJSONError(s) ==
    ~s.hasKey \/ ~s.parses \/ s.entries = {} \/ \E e \in s.entries : e.user = <<>>

SecretError(s) ==
    \/ ~s.found
    \/ s.type \notin {"dockercfg", "dockerconfigjson"}
    \/ s.type = "dockercfg" /\ DockerCfgError(s)
    \/ s.type = "dockerconfigjson" /\ DockerJSONError(s)

\* The credentials of all referenced secrets.  Go ranges over a map, so
\* their order is unspecified: they are a set.
PullCreds(p) ==
    UNION {{MakeCred(e) : e \in SecretStore[n].entries} : n \in Range(p.pullSecrets)}

(***************************************************************************)
(* filterWindowsServiceAccountSecretVolume                                 *)
(***************************************************************************)
SAMount(m) == EqualFold(m.path, SAPath)

SAVolumes(ctrs) ==
    {m.vol : m \in {m \in UNION {Range(c.mounts) : c \in Range(ctrs)} : SAMount(m)}}

FilterWindows(ctrs) ==
    IF EqualFold(OSType, Windows)
    THEN [i \in DOMAIN ctrs |->
            [ctrs[i] EXCEPT !.mounts = SelectSeq(@, LAMBDA m : ~SAMount(m))]]
    ELSE ctrs

FilteredVolumes(vols, ctrs) ==
    IF EqualFold(OSType, Windows) THEN vols \ SAVolumes(ctrs) ELSE vols

(***************************************************************************)
(* CreatePod: containers, pull secrets, volumes (getVolumes, outside       *)
(* aci.go, passes the pod's volume names), init containers, the Windows    *)
(* filter, then the public IP with every container port as TCP unless a    *)
(* subnet is configured.  Any error returns before the backend call.       *)
(***************************************************************************)
Group(p) ==
    LET ctrs == [i \in DOMAIN p.ctrs |-> CtrOut(p, p.ctrs[i])]
        ports == UNION {{[num |-> q.num, proto |-> "TCP"] : q \in Range(c.ports)} :
                          c \in Range(ctrs)}
        ip == ports # {} /\ ~SubnetMode
    IN [ran |-> TRUE, ok |-> TRUE,
        ctrs |-> FilterWindows(ctrs),
        inits |-> [i \in DOMAIN p.inits |-> InitOut(p.inits[i])],
        vols |-> FilteredVolumes(p.vols, ctrs),
        creds |-> PullCreds(p),
        ip |-> ip,
        ipPorts |-> IF ip THEN ports ELSE {}]

CreatePodResult(p) ==
    IF \/ \E i \in DOMAIN p.ctrs : CtrError(p, p.ctrs[i])
       \/ \E n \in Range(p.pullSecrets) : SecretError(SecretStore[n])
       \/ \E i \in DOMAIN p.inits : InitError(p.inits[i])
    THEN Err
    ELSE Group(p)

Init ==
    /\ pod \in PodSpecs
    /\ out = NotRun

\* One call of the handler; it returns, so the behaviour then stops.
CreatePod ==
    /\ ~out.ran
    /\ out' = CreatePodResult(pod)
    /\ UNCHANGED pod

Next == CreatePod

Spec == Init /\ [][Next]_vars

-----------------------------------------------------------------------------
(***************************************************************************)
(* Properties.  Each relates the pod handed to CreatePod to its result.   *)
(***************************************************************************)
Ports(c) == Range(c.ports)

\* The validation errors of spec 4.1 and 7, stated from the spec: args
\* without a command, an init container with ports, resources or probes,
\* a probe with zero or two handlers or a named port the container does
\* not declare, a GPU limit without a supported SKU or with a zero count,
\* and a pull secret that is missing, of another type or malformed (an
\* auth with no username must decode to "user:password").
SpecInvalid(p) ==
    \/ \E c \in Range(p.ctrs) :
          \/ c.args /\ ~c.cmd
          \/ \E pr \in {c.live, c.ready} :
                /\ pr.set
                /\ \/ pr.exec = pr.http
                   \/ pr.http /\ pr.named /\ pr.pname \notin {q.pname : q \in Ports(c)}
          \/ /\ HasGpu(c)
             /\ \/ c.lim.gpu = 0
                \/ ~\E s \in Range(GpuSKUs) : p.gpuType.set => EqualFold(s, p.gpuType.word)
    \/ \E ic \in Range(p.inits) :
          (ic.args /\ ~ic.cmd) \/ ic.hasPorts \/ ic.hasReq \/ ic.hasLim \/ ic.live \/ ic.ready
    \/ \E n \in Range(p.pullSecrets) :
          LET s == SecretStore[n] IN
          \/ ~s.found \/ ~s.hasKey \/ ~s.parses
          \/ s.type \notin {"dockercfg", "dockerconfigjson"}
          \/ s.type = "dockerconfigjson" /\ (s.entries = {} \/ \E e \in s.entries : e.user = <<>>)
          \/ s.type = "dockercfg" /\ \E e \in s.entries :
                e.user = <<>> /\ (~e.b64ok \/ Colon \notin Range(e.auth))

\* CreatePod fails (before any backend call) exactly on the spec's
\* validation errors, and translates every other pod: getContainers,
\* getInitContainers, getGPUSKU, getProbe and the pull-secret readers
\* together neither miss a check nor add one.
RejectsInvalid ==
    out.ran => (out.ok <=> ~SpecInvalid(pod))

\* The invariants of a translated request (spec 3, 4.1): every container
\* asks for at least 0.01 core and 0.1 GB; the public IP is there iff
\* some container exposes a port and no subnet is configured; and a GPU
\* is attached only to a container with a GPU limit, with a non-zero
\* count and a supported SKU (the annotated one up to case, else the
\* first): getContainers, getGPUSKU and CreatePod's IP block together.
RequestWellFormed ==
    out.ok =>
      /\ \A i \in DOMAIN out.ctrs : out.ctrs[i].cpu >= 1 /\ out.ctrs[i].mem >= 1
      /\ out.ip <=> (~SubnetMode /\ \E c \in Range(out.ctrs) : c.ports # <<>>)
      /\ \A i \in DOMAIN out.ctrs :
            LET g == out.ctrs[i].gpu IN
            g # NoGpu =>
              /\ HasGpu(pod.ctrs[i]) /\ g.count > 0
              /\ IF pod.gpuType.set THEN EqualFold(g.sku, pod.gpuType.word)
                 ELSE g.sku = GpuSKUs[1]

\* Spec 8: the CPU request is max(0.01, round(m/10)/100) cores and the
\* memory request max(0.1, round(b/1e8)/10) GB (rounding half up).
SpecCpuRequest(m) ==
    IF m = Absent THEN 100 ELSE IF (m + 5) \div 10 < 1 THEN 1 ELSE (m + 5) \div 10

SpecMemRequest(b) ==
    IF b = Absent THEN 15
    ELSE IF (b + GB10 \div 2) \div GB10 < 1 THEN 1 ELSE (b + GB10 \div 2) \div GB10

\* getContainers quantizes requests by the formulas of spec 8.
RequestsMatchSpec ==
    out.ok => \A i \in DOMAIN out.ctrs :
                /\ out.ctrs[i].cpu = SpecCpuRequest(pod.ctrs[i].req.cpu)
                /\ out.ctrs[i].mem = SpecMemRequest(pod.ctrs[i].req.mem)

\* Every volume mount of the request, in containers and init containers,
\* names a volume of the request: the Windows service-account filter
\* (spec 4.1 step 7) leaves no mount of a volume it removed.
MountsReferToVolumes ==
    out.ok => \A m \in UNION {Range(c.mounts) : c \in Range(out.ctrs) \cup Range(out.inits)} :
                m.vol \in out.vols

\* The public IP exposes the container ports with their protocols (spec
\* 4.1 step 4: "the exposed port set").
ExposedPortsMatch ==
    out.ok /\ out.ip =>
      out.ipPorts = UNION {Ports(c) : c \in Range(out.ctrs)}

=============================================================================
