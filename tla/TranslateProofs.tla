-------------------------- MODULE TranslateProofs --------------------------
(***************************************************************************)
(* Facts about the resource quantization of getContainers, for every       *)
(* quantity.  TLC finds one pod whose request is below the spec's rounding *)
(* (RequestsMatchSpec); these theorems say exactly which inputs are        *)
(* affected, and when a limit is sent below its request.                  *)
(***************************************************************************)
EXTENDS Translate, WellFoundedInduction, FiniteSetTheorems, TLAPS

\* The CPU request getContainers sends (truncating m/10) is the one of the
\* spec's formula (rounding it) except when m is at least 10 millicores and
\* its last digit is 5 or more: then it is exactly one step (0.01 core)
\* below.
THEOREM CpuRequestVsSpec ==
    \A m \in Nat :
        SpecCpuRequest(m) = CpuRequest(m) + (IF m >= 10 /\ m % 10 >= 5 THEN 1 ELSE 0)
<1> SUFFICES ASSUME NEW m \in Nat
             PROVE  SpecCpuRequest(m) = CpuRequest(m) + (IF m >= 10 /\ m % 10 >= 5 THEN 1 ELSE 0)
    OBVIOUS
<1>1. m # Absent
    BY DEF Absent
<1>2. (m + 5) \div 10 = m \div 10 + (IF m % 10 >= 5 THEN 1 ELSE 0)
    OBVIOUS
<1>. QED
    BY <1>1, <1>2 DEF SpecCpuRequest, CpuRequest

\* The same for memory: the request is one step (0.1 GB) below the spec's
\* exactly when b is at least 1e8 bytes and b mod 1e8 is at least 5e7.
THEOREM MemRequestVsSpec ==
    \A b \in Nat :
        SpecMemRequest(b) = MemRequest(b) + (IF b >= GB10 /\ b % GB10 >= GB10 \div 2 THEN 1 ELSE 0)
<1> SUFFICES ASSUME NEW b \in Nat
             PROVE  SpecMemRequest(b) = MemRequest(b) + (IF b >= GB10 /\ b % GB10 >= GB10 \div 2 THEN 1 ELSE 0)
    OBVIOUS
<1>1. b # Absent
    BY DEF Absent
<1>2. (b + GB10 \div 2) \div GB10 = b \div GB10 + (IF b % GB10 >= GB10 \div 2 THEN 1 ELSE 0)
    BY DEF GB10
<1>. QED
    BY <1>1, <1>2 DEF SpecMemRequest, MemRequest, GB10

\* For a request r and a limit l >= r, both given, the CPU limit sent is
\* below the CPU request sent exactly when l is under 10 millicores, and
\* the memory limit sent is below the memory request sent exactly when l
\* is under 1e8 bytes: the request is floored at one step, the limit not.
THEOREM LimitBelowRequestIff ==
    \A r, l \in Nat : l >= r =>
        /\ (l < 10 * CpuRequest(r)) <=> l < 10
        /\ (l \div GB10 < MemRequest(r)) <=> l < GB10
<1> SUFFICES ASSUME NEW r \in Nat, NEW l \in Nat, l >= r
             PROVE  /\ (l < 10 * CpuRequest(r)) <=> l < 10
                    /\ (l \div GB10 < MemRequest(r)) <=> l < GB10
    OBVIOUS
<1>1. r # Absent
    BY DEF Absent
<1>2. (l < 10 * CpuRequest(r)) <=> l < 10
    BY <1>1 DEF CpuRequest
<1>3. (l \div GB10 < MemRequest(r)) <=> l < GB10
    BY <1>1 DEF MemRequest, GB10
<1>. QED
    BY <1>2, <1>3

-----------------------------------------------------------------------------
(***************************************************************************)
(* Facts about the operators CreatePod is built from.                     *)
(***************************************************************************)

\* A non-empty set of naturals has a least element, and Min is it: what
\* SelectInSeq needs to return the first match.
LEMMA MinOfNats ==
    ASSUME NEW S \in SUBSET Nat, S # {}
    PROVE  Min(S) \in S /\ \A k \in S : Min(S) <= k
<1>1. PICK x \in S : \A y \in S : ~(<<y, x>> \in OpToRel(<, Nat))
  BY NatLessThanWellFounded, WFMin
<1>2. \A y \in S : ~(y < x)
  BY <1>1, Zenon DEF OpToRel
<1>3. \E m \in S : \A k \in S : m <= k
  BY <1>2
<1>. QED
  BY <1>3 DEF Min

\* getGPUSKU: a non-zero result indexes the SKU list, and is the first SKU
\* equal up to case to the annotation when there is one, else the first.
LEMMA GpuSkuChosen ==
    ASSUME NEW p, GetGPUSKU(p) # 0
    PROVE  /\ GetGPUSKU(p) \in 1..Len(GpuSKUs)
           /\ IF p.gpuType.set THEN EqualFold(GpuSKUs[GetGPUSKU(p)], p.gpuType.word)
                               ELSE GetGPUSKU(p) = 1
<1>1. Len(GpuSKUs) # 0
  BY DEF GetGPUSKU
<1>2. CASE p.gpuType.set
  <2>. DEFINE I == {i \in 1..Len(GpuSKUs) : EqualFold(p.gpuType.word, GpuSKUs[i])}
  <2>1. GetGPUSKU(p) = IF I # {} THEN Min(I) ELSE 0
    BY <1>1, <1>2 DEF GetGPUSKU, SelectInSeq
  <2>2. I # {} /\ I \in SUBSET Nat
    BY <2>1
  <2>3. Min(I) \in I
    BY <2>2, MinOfNats
  <2>. QED
    BY <1>2, <2>1, <2>2, <2>3 DEF EqualFold
<1>3. CASE ~p.gpuType.set
  BY <1>1, <1>3 DEF GetGPUSKU
<1>. QED
  BY <1>2, <1>3

\* The floors of getContainers: every request sent is at least one step.
LEMMA RequestFloor ==
    ASSUME NEW m \in Quantity
    PROVE  CpuRequest(m) >= 1 /\ MemRequest(m) >= 1
  BY DEF Quantity, CpuRequest, MemRequest, Absent, GB10

\* FilterWindows rewrites only the mounts of each container.
LEMMA FilterKeeps ==
    ASSUME NEW p
    PROVE  LET ctrs == [j \in DOMAIN p.ctrs |-> CtrOut(p, p.ctrs[j])]
           IN  /\ DOMAIN FilterWindows(ctrs) = DOMAIN p.ctrs
               /\ \A i \in DOMAIN p.ctrs :
                     /\ FilterWindows(ctrs)[i].cpu = CpuRequest(p.ctrs[i].req.cpu)
                     /\ FilterWindows(ctrs)[i].mem = MemRequest(p.ctrs[i].req.mem)
                     /\ FilterWindows(ctrs)[i].ports = ctrs[i].ports
                     /\ FilterWindows(ctrs)[i].gpu = ctrs[i].gpu
  BY DEF FilterWindows, CtrOut

\* A request CreatePod builds, for a pod of the admitted shape, is well
\* formed: the three conjuncts of RequestWellFormed for that pod.
LEMMA GroupWellFormed ==
    ASSUME NEW p, PodShape(p), CreatePodResult(p).ok
    PROVE  LET r == CreatePodResult(p) IN
           /\ \A i \in DOMAIN r.ctrs : r.ctrs[i].cpu >= 1 /\ r.ctrs[i].mem >= 1
           /\ r.ip <=> (~SubnetMode /\ \E c \in Range(r.ctrs) : c.ports # <<>>)
           /\ \A i \in DOMAIN r.ctrs :
                 LET g == r.ctrs[i].gpu IN
                 g # NoGpu =>
                   /\ HasGpu(p.ctrs[i]) /\ g.count > 0
                   /\ IF p.gpuType.set THEN EqualFold(g.sku, p.gpuType.word)
                      ELSE g.sku = GpuSKUs[1]
<1>. DEFINE ctrs == [j \in DOMAIN p.ctrs |-> CtrOut(p, p.ctrs[j])]
            r == CreatePodResult(p)
<1>1. /\ ~\E i \in DOMAIN p.ctrs : CtrError(p, p.ctrs[i])
      /\ r = Group(p)
  BY DEF CreatePodResult, Err
<1>2. r.ctrs = FilterWindows(ctrs)
  BY <1>1 DEF Group
<1>3. /\ DOMAIN r.ctrs = DOMAIN p.ctrs
      /\ \A i \in DOMAIN p.ctrs :
            /\ r.ctrs[i].cpu = CpuRequest(p.ctrs[i].req.cpu)
            /\ r.ctrs[i].mem = MemRequest(p.ctrs[i].req.mem)
            /\ r.ctrs[i].ports = ctrs[i].ports
            /\ r.ctrs[i].gpu = ctrs[i].gpu
  BY <1>2, FilterKeeps
<1>4. \A i \in DOMAIN r.ctrs : r.ctrs[i].cpu >= 1 /\ r.ctrs[i].mem >= 1
  BY <1>3, RequestFloor DEF PodShape
<1>5. r.ip <=> (~SubnetMode /\ \E c \in Range(r.ctrs) : c.ports # <<>>)
  <2>. DEFINE ports == UNION {{[num |-> q.num, proto |-> "TCP"] : q \in Range(c.ports)} :
                               c \in Range(ctrs)}
  <2>1. r.ip <=> (ports # {} /\ ~SubnetMode)
    <3>1. Group(p).ip = (ports # {} /\ ~SubnetMode)
      BY DEF Group
    <3>. QED
      BY <1>1, <3>1
  <2>2. ports # {} <=> \E c \in Range(ctrs) : Range(c.ports) # {}
    <3>1. \A c \in Range(ctrs) :
             {[num |-> q.num, proto |-> "TCP"] : q \in Range(c.ports)} # {} <=> Range(c.ports) # {}
      OBVIOUS
    <3>. QED
      BY <3>1, Zenon
  <2>3. (\E c \in Range(ctrs) : Range(c.ports) # {}) <=>
           \E i \in DOMAIN p.ctrs : DOMAIN p.ctrs[i].ports # {}
    <3>1. \A i \in DOMAIN p.ctrs : DOMAIN ctrs[i].ports = DOMAIN p.ctrs[i].ports
      BY DEF CtrOut
    <3>2. \A i \in DOMAIN p.ctrs : Range(ctrs[i].ports) # {} <=> DOMAIN ctrs[i].ports # {}
      BY DEF Range
    <3>3. DOMAIN ctrs = DOMAIN p.ctrs
      OBVIOUS
    <3>4. (\E c \in Range(ctrs) : Range(c.ports) # {}) <=>
             \E i \in DOMAIN ctrs : Range(ctrs[i].ports) # {}
      <4>1. Range(ctrs) = {ctrs[i] : i \in DOMAIN ctrs}
        BY DEF Range
      <4>. QED
        BY <4>1
    <3>. QED
      BY <3>1, <3>2, <3>3, <3>4
  <2>4. ASSUME NEW i \in DOMAIN p.ctrs
        PROVE  (r.ctrs[i].ports # <<>>) <=> (DOMAIN p.ctrs[i].ports # {})
    <3>1. r.ctrs[i].ports = [k \in DOMAIN p.ctrs[i].ports |->
                               [num |-> p.ctrs[i].ports[k].num,
                                proto |-> GetProtocol(p.ctrs[i].ports[k].proto)]]
      BY <1>3 DEF CtrOut
    <3>. QED
      BY <3>1
  <2>. QED
    BY <1>3, <2>1, <2>2, <2>3, <2>4 DEF Range
<1>6. ASSUME NEW i \in DOMAIN r.ctrs, r.ctrs[i].gpu # NoGpu
      PROVE  /\ HasGpu(p.ctrs[i]) /\ r.ctrs[i].gpu.count > 0
             /\ IF p.gpuType.set THEN EqualFold(r.ctrs[i].gpu.sku, p.gpuType.word)
                ELSE r.ctrs[i].gpu.sku = GpuSKUs[1]
  <2>1. i \in DOMAIN p.ctrs /\ r.ctrs[i].gpu = ctrs[i].gpu
    BY <1>3
  <2>2. HasGpu(p.ctrs[i])
    BY <1>6, <2>1 DEF CtrOut
  <2>3. GetGPUSKU(p) # 0 /\ p.ctrs[i].lim.gpu # 0
    BY <1>1, <2>1, <2>2 DEF CtrError
  <2>4. r.ctrs[i].gpu = [count |-> p.ctrs[i].lim.gpu, sku |-> GpuSKUs[GetGPUSKU(p)]]
    BY <2>1, <2>2 DEF CtrOut
  <2>5. p.ctrs[i].lim.gpu > 0
    BY <2>1, <2>2, <2>3 DEF PodShape, Quantity, HasGpu, Absent
  <2>. QED
    BY <2>2, <2>3, <2>4, <2>5, GpuSkuChosen
<1>. QED
  BY <1>4, <1>5, <1>6

\* getProbe: a named HTTP port resolves to 0 ("unable to find named
\* port") exactly when no container port has that name, since a port
\* number is positive.
LEMMA NamedPortMissing ==
    ASSUME NEW ports \in Seq(PortSpec), NEW pr, pr.named
    PROVE  (ProbePort(pr, ports) = 0) <=> pr.pname \notin {q.pname : q \in Range(ports)}
<1>. DEFINE I == {i \in 1..Len(ports) : ports[i].pname = pr.pname}
<1>1. SelectInSeq(ports, LAMBDA q : q.pname = pr.pname) = IF I # {} THEN Min(I) ELSE 0
  BY DEF SelectInSeq
<1>2. CASE I # {}
  <2>0. I \in SUBSET Nat
    OBVIOUS
  <2>1. Min(I) \in I
    BY <1>2, <2>0, MinOfNats
  <2>2. ProbePort(pr, ports) = ports[Min(I)].num
    BY <1>1, <1>2, <2>1 DEF ProbePort
  <2>3. ports[Min(I)] \in PortSpec
    BY <2>1
  <2>4. ports[Min(I)].num # 0 /\ ports[Min(I)] \in Range(ports)
    <3>1. Min(I) \in DOMAIN ports
      BY <2>1
    <3>2. ports[Min(I)] \in Range(ports)
      BY <3>1 DEF Range
    <3>3. ports[Min(I)].num \in Nat \ {0}
      BY <2>3 DEF PortSpec
    <3>. QED
      BY <3>2, <3>3
  <2>. QED
    BY <2>1, <2>2, <2>4
<1>3. CASE I = {}
  <2>1. ProbePort(pr, ports) = 0
    BY <1>1, <1>3 DEF ProbePort
  <2>2. pr.pname \notin {q.pname : q \in Range(ports)}
    BY <1>3 DEF Range
  <2>. QED
    BY <2>1, <2>2
<1>. QED
  BY <1>2, <1>3

\* getGPUSKU fails exactly when no SKU of the region matches the
\* annotation (or there is none at all).
LEMMA GpuSkuMissing ==
    ASSUME NEW p
    PROVE  (GetGPUSKU(p) = 0) <=>
           ~\E s \in Range(GpuSKUs) : p.gpuType.set => EqualFold(s, p.gpuType.word)
<1>1. GpuSKUs \in Seq(STRING \X Nat)
  BY TranslateAssumption
<1>2. CASE Len(GpuSKUs) = 0
  BY <1>1, <1>2 DEF GetGPUSKU, Range
<1>3. CASE Len(GpuSKUs) # 0 /\ ~p.gpuType.set
  <2>1. GetGPUSKU(p) = 1
    BY <1>3 DEF GetGPUSKU
  <2>2. GpuSKUs[1] \in Range(GpuSKUs)
    BY <1>1, <1>3 DEF Range
  <2>. QED
    BY <1>3, <2>1, <2>2
<1>4. CASE Len(GpuSKUs) # 0 /\ p.gpuType.set
  <2>. DEFINE I == {i \in 1..Len(GpuSKUs) : EqualFold(p.gpuType.word, GpuSKUs[i])}
  <2>1. GetGPUSKU(p) = IF I # {} THEN Min(I) ELSE 0
    BY <1>4 DEF GetGPUSKU, SelectInSeq
  <2>2. CASE I # {}
    <3>0. I \in SUBSET Nat
      OBVIOUS
    <3>1. Min(I) \in I
      BY <2>2, <3>0, MinOfNats
    <3>2. GpuSKUs[Min(I)] \in Range(GpuSKUs) /\ EqualFold(GpuSKUs[Min(I)], p.gpuType.word)
      <4>1. Min(I) \in DOMAIN GpuSKUs /\ EqualFold(p.gpuType.word, GpuSKUs[Min(I)])
        BY <1>1, <3>1
      <4>2. GpuSKUs[Min(I)] \in Range(GpuSKUs)
        BY <4>1 DEF Range
      <4>. QED
        BY <4>1, <4>2 DEF EqualFold
    <3>. QED
      BY <1>4, <2>1, <2>2, <3>1, <3>2
  <2>3. CASE I = {}
    <3>1. ~\E s \in Range(GpuSKUs) : EqualFold(s, p.gpuType.word)
      BY <2>3 DEF Range, EqualFold
    <3>. QED
      BY <1>4, <2>1, <2>3, <3>1
  <2>. QED
    BY <2>2, <2>3
<1>. QED
  BY <1>2, <1>3, <1>4

\* The number of colons in an auth is a natural, zero exactly when the
\* auth has no colon.
LEMMA ColonCount ==
    ASSUME NEW a \in Seq(STRING)
    PROVE  NColons(a) \in Nat /\ (NColons(a) = 0 <=> Colon \notin Range(a))
<1>. DEFINE C == {i \in DOMAIN a : a[i] = Colon}
<1>1. IsFiniteSet(C)
  <2>1. IsFiniteSet(1..Len(a))
    BY FS_Interval
  <2>. QED
    BY <2>1, FS_Subset
<1>2. Cardinality(C) \in Nat /\ (Cardinality(C) = 0 <=> C = {})
  BY <1>1, FS_CardinalityType, FS_EmptySet
<1>. QED
  BY <1>2 DEF NColons, Range

-----------------------------------------------------------------------------
(***************************************************************************)
(* What CreatePod rejects.  The code and the spec agree on every check but *)
(* one: makeRegistryCredential splits a username-less auth on every ':'    *)
(* and wants exactly two parts, so a password holding a colon is refused,  *)
(* where the spec only asks for a "user:password" form.                    *)
(***************************************************************************)

\* A dockercfg pull secret, found and readable, with an entry that has no
\* username and a decodable auth with two or more colons.
ColonInPassword(p) ==
    \E n \in Range(p.pullSecrets) :
        LET s == SecretStore[n] IN
        /\ s.found /\ s.type = "dockercfg" /\ s.hasKey /\ s.parses
        /\ \E e \in s.entries : e.user = <<>> /\ e.b64ok /\ NColons(e.auth) >= 2

\* For every configuration and every pod of the admitted shape, CreatePod
\* fails before the backend call exactly when the spec calls the pod
\* invalid or one of its dockercfg secrets has a password with a colon
\* (getContainers, getInitContainers, getImagePullSecrets).
THEOREM RejectsExactly ==
    ASSUME NEW p, PodShape(p)
    PROVE  ~CreatePodResult(p).ok <=> SpecInvalid(p) \/ ColonInPassword(p)
<1>. DEFINE
       ProbeBad(pr, c) ==
           /\ pr.set
           /\ \/ pr.exec = pr.http
              \/ pr.http /\ pr.named /\ pr.pname \notin {q.pname : q \in Ports(c)}
       CtrBad(c) ==
           \/ c.args /\ ~c.cmd
           \/ \E pr \in {c.live, c.ready} : ProbeBad(pr, c)
           \/ /\ HasGpu(c)
              /\ \/ c.lim.gpu = 0
                 \/ ~\E s \in Range(GpuSKUs) : p.gpuType.set => EqualFold(s, p.gpuType.word)
       SecBad(s) ==
           \/ ~s.found \/ ~s.hasKey \/ ~s.parses
           \/ s.type \notin {"dockercfg", "dockerconfigjson"}
           \/ s.type = "dockerconfigjson" /\ (s.entries = {} \/ \E e \in s.entries : e.user = <<>>)
           \/ s.type = "dockercfg" /\ \E e \in s.entries :
                 e.user = <<>> /\ (~e.b64ok \/ Colon \notin Range(e.auth))
       ManyColons(s) ==
           /\ s.found /\ s.type = "dockercfg" /\ s.hasKey /\ s.parses
           /\ \E e \in s.entries : e.user = <<>> /\ e.b64ok /\ NColons(e.auth) >= 2
<1>1. ASSUME NEW i \in DOMAIN p.ctrs
      PROVE  CtrError(p, p.ctrs[i]) <=> CtrBad(p.ctrs[i])
  <2>. DEFINE c == p.ctrs[i]
  <2>1. c.ports \in Seq(PortSpec)
    BY DEF PodShape
  <2>2. \A pr \in {c.live, c.ready} : ProbeError(pr, c.ports) <=>
           \/ pr.exec = pr.http
           \/ pr.http /\ pr.named /\ pr.pname \notin {q.pname : q \in Ports(c)}
    BY <2>1, NamedPortMissing DEF ProbeError, Ports
  <2>3. (GetGPUSKU(p) = 0) <=>
           ~\E s \in Range(GpuSKUs) : p.gpuType.set => EqualFold(s, p.gpuType.word)
    BY GpuSkuMissing
  <2>. QED
    BY <2>2, <2>3 DEF CtrError
<1>2. ASSUME NEW n \in Range(p.pullSecrets)
      PROVE  SecretError(SecretStore[n]) <=> SecBad(SecretStore[n]) \/ ManyColons(SecretStore[n])
  <2>. DEFINE s == SecretStore[n]
  <2>1. \A e \in s.entries : e.auth \in Seq(STRING)
    BY SecretStoreAssumption DEF PodShape, Range
  <2>2. \A e \in s.entries : NColons(e.auth) \in Nat /\ (NColons(e.auth) = 0 <=> Colon \notin Range(e.auth))
    BY <2>1, ColonCount
  <2>3. \A e \in s.entries : e.auth = <<>> => Colon \notin Range(e.auth)
    BY DEF Range
  <2>4. \A e \in s.entries : MakeCredError(e) <=>
           e.user = <<>> /\ (~e.b64ok \/ Colon \notin Range(e.auth) \/ NColons(e.auth) >= 2)
    BY <2>2, <2>3 DEF MakeCredError
  <2>. QED
    BY <2>4 DEF SecretError, DockerCfgError, DockerJSONError
<1>3. (\E i \in DOMAIN p.ctrs : CtrError(p, p.ctrs[i])) <=> \E c \in Range(p.ctrs) : CtrBad(c)
  BY <1>1 DEF Range
<1>4. (\E n \in Range(p.pullSecrets) : SecretError(SecretStore[n])) <=>
         \/ \E n \in Range(p.pullSecrets) : SecBad(SecretStore[n])
         \/ ColonInPassword(p)
  BY <1>2 DEF ColonInPassword
<1>5. (\E i \in DOMAIN p.inits : InitError(p.inits[i])) <=>
         \E ic \in Range(p.inits) :
            (ic.args /\ ~ic.cmd) \/ ic.hasPorts \/ ic.hasReq \/ ic.hasLim \/ ic.live \/ ic.ready
  BY DEF InitError, Range
<1>6. ~Err.ok /\ Group(p).ok
  BY DEF Err, Group
<1>. QED
  BY <1>3, <1>4, <1>5, <1>6 DEF CreatePodResult, SpecInvalid

-----------------------------------------------------------------------------
(***************************************************************************)
(* The handler's result.  A behaviour is one call of CreatePod on a pod   *)
(* the orchestrator hands over; its result is CreatePodResult of that pod. *)
(***************************************************************************)
ResultInv ==
    /\ pod \in PodSpecs
    /\ out = NotRun \/ out = CreatePodResult(pod)

LEMMA InitResultInv == Init => ResultInv
  BY DEF Init, ResultInv

LEMMA NextResultInv == ResultInv /\ [Next]_vars => ResultInv'
  BY DEF ResultInv, Next, CreatePod, vars

\* For every configuration (OS, subnet, GPU SKUs, secret store) and every
\* pod spec of the admitted shape, a request CreatePod builds asks for at
\* least the floor resources, has a public IP exactly when a port is
\* exposed and no subnet is set, and carries a GPU only with a supported
\* SKU and a non-zero count.
THEOREM WellFormedRequests == Spec => []RequestWellFormed
<1>1. Spec => []ResultInv
  BY InitResultInv, NextResultInv, PTL DEF Spec
<1>2. ResultInv => RequestWellFormed
  <2> SUFFICES ASSUME ResultInv, out.ok PROVE RequestWellFormed
    BY DEF RequestWellFormed
  <2>1. out = CreatePodResult(pod) /\ PodShape(pod)
    BY PodSpecsAssumption DEF ResultInv, NotRun
  <2>. QED
    BY <2>1, GroupWellFormed DEF RequestWellFormed
<1>. QED
  BY <1>1, <1>2, PTL

\* The spec's validation contract holds for every configuration and every
\* pod of the admitted shape whose dockercfg secrets hold no password with
\* a colon: CreatePod returns an error exactly on the pods the spec calls
\* invalid.  With such a password it does not (the translate_validation
\* run leaves those secrets out; RejectsExactly says what happens then).
THEOREM RejectsInvalidHolds ==
    ASSUME \A q \in PodSpecs : ~ColonInPassword(q)
    PROVE  Spec => []RejectsInvalid
<1>1. Spec => []ResultInv
  BY InitResultInv, NextResultInv, PTL DEF Spec
<1>2. ResultInv => RejectsInvalid
  <2> SUFFICES ASSUME ResultInv, out.ran PROVE out.ok <=> ~SpecInvalid(pod)
    BY DEF RejectsInvalid
  <2>1. out = CreatePodResult(pod) /\ PodShape(pod) /\ ~ColonInPassword(pod)
    BY PodSpecsAssumption DEF ResultInv, NotRun
  <2>. QED
    BY <2>1, RejectsExactly
<1>. QED
  BY <1>1, <1>2, PTL

=============================================================================
