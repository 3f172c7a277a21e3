---------------------------- MODULE MCTranslate ----------------------------
(***************************************************************************)
(* Inputs for model checking Translate.  Every pod is one the API server   *)
(* accepts (a probe has exactly one handler, an init container has no      *)
(* probes, each limit is at least its request, a request left out while    *)
(* its limit is given is defaulted to the limit, mounts name volumes of    *)
(* the pod); CreatePod still sees specs the backend cannot take.           *)
(***************************************************************************)
EXTENDS Translate

Linux == <<"linux", 0>>
WindowsOS == <<"windows", 1>>          \* "Windows" as configured
P100 == <<"p100", 0>>
P100Lower == <<"p100", 1>>             \* "p100" in an annotation
K80 == <<"k80", 0>>
MCGpuSKUs == <<P100>>

(* Probes, ports, environment *)
NoProbe == [set |-> FALSE, exec |-> TRUE, http |-> FALSE, named |-> FALSE, num |-> 0, pname |-> "none"]
ExecProbe == [NoProbe EXCEPT !.set = TRUE]
HttpPort(n) == [set |-> TRUE, exec |-> FALSE, http |-> TRUE, named |-> FALSE, num |-> n, pname |-> "none"]
HttpNamed(nm) == [set |-> TRUE, exec |-> FALSE, http |-> TRUE, named |-> TRUE, num |-> 0, pname |-> nm]
Web == [num |-> 80, proto |-> "TCP", pname |-> "web"]
Dns == [num |-> 53, proto |-> "UDP", pname |-> "dns"]
EnvMix == <<[name |-> "A", val |-> TRUE, secret |-> TRUE],
            [name |-> "B", val |-> FALSE, secret |-> FALSE],
            [name |-> "C", val |-> TRUE, secret |-> FALSE]>>

NoLim == [cpu |-> Absent, mem |-> Absent, gpu |-> Absent]
BaseCtr == [cmd |-> TRUE, args |-> FALSE, ports |-> <<>>, mounts |-> <<>>, env |-> <<>>,
            req |-> [cpu |-> Absent, mem |-> Absent], hasLim |-> FALSE, lim |-> NoLim,
            live |-> NoProbe, ready |-> NoProbe]
BaseInit == [cmd |-> TRUE, args |-> FALSE, hasPorts |-> FALSE, hasReq |-> FALSE,
             hasLim |-> FALSE, live |-> FALSE, ready |-> FALSE, mounts |-> <<>>, env |-> <<>>]
NoGpuType == [set |-> FALSE, word |-> <<"", 0>>]
BasePod == [ctrs |-> <<BaseCtr>>, inits |-> <<>>, vols |-> {}, pullSecrets |-> <<>>,
            gpuType |-> NoGpuType]

(* Secrets.  Auths are decoded contents over the characters u, p and ':'. *)
Entry(srv, u, pw, a, ok) == [server |-> srv, user |-> u, pass |-> pw, auth |-> a, b64ok |-> ok]
Secret(t, es) == [found |-> TRUE, type |-> t, hasKey |-> TRUE, parses |-> TRUE, entries |-> es]
MCSecretStore ==
    [n \in {"cfg", "json", "missing", "opaque", "nokey", "badb64", "nocolon",
            "emptyjson", "nouser", "colonpass"} |->
        CASE n = "cfg" -> Secret("dockercfg",
                              {Entry("r1", <<"u">>, <<"p">>, <<>>, TRUE),
                               Entry("r2", <<>>, <<>>, <<"u", ":", "p">>, TRUE)})
          [] n = "json" -> Secret("dockerconfigjson", {Entry("r3", <<"u">>, <<"p">>, <<>>, TRUE)})
          [] n = "missing" -> [Secret("dockercfg", {}) EXCEPT !.found = FALSE]
          [] n = "opaque" -> Secret("opaque", {})
          [] n = "nokey" -> [Secret("dockercfg", {}) EXCEPT !.hasKey = FALSE]
          [] n = "badb64" -> Secret("dockercfg", {Entry("r1", <<>>, <<>>, <<"u", ":", "p">>, FALSE)})
          [] n = "nocolon" -> Secret("dockercfg", {Entry("r1", <<>>, <<>>, <<"u", "p">>, TRUE)})
          [] n = "emptyjson" -> Secret("dockerconfigjson", {})
          [] n = "nouser" -> Secret("dockerconfigjson", {Entry("r3", <<>>, <<"p">>, <<>>, TRUE)})
          [] n = "colonpass" -> Secret("dockercfg",
                                    {Entry("r2", <<>>, <<>>, <<"u", ":", "p", ":", "p">>, TRUE)})]

(***************************************************************************)
(* Validation: containers, init containers, pull secrets, GPU annotation.  *)
(***************************************************************************)
ValCtrs ==
    { BaseCtr,
      [BaseCtr EXCEPT !.cmd = FALSE, !.args = TRUE],
      [BaseCtr EXCEPT !.cmd = FALSE],
      [BaseCtr EXCEPT !.ports = <<Web>>, !.live = HttpNamed("web"), !.ready = ExecProbe],
      [BaseCtr EXCEPT !.ports = <<Web>>, !.ready = HttpNamed("metrics")],
      [BaseCtr EXCEPT !.live = HttpPort(8080), !.env = EnvMix],
      [BaseCtr EXCEPT !.req = [cpu |-> 5, mem |-> 50000000]],
      [BaseCtr EXCEPT !.req = [cpu |-> 1000, mem |-> Absent], !.hasLim = TRUE,
                      !.lim = [NoLim EXCEPT !.gpu = 1]],
      [BaseCtr EXCEPT !.hasLim = TRUE, !.lim = [NoLim EXCEPT !.gpu = 0]] }

ValInits ==
    { <<>>, <<BaseInit>>, <<[BaseInit EXCEPT !.hasPorts = TRUE]>>,
      <<[BaseInit EXCEPT !.hasLim = TRUE]>>, <<[BaseInit EXCEPT !.hasReq = TRUE]>>,
      <<[BaseInit EXCEPT !.cmd = FALSE, !.args = TRUE, !.env = EnvMix]>> }

ValSecrets ==
    {<<>>} \cup {<<n>> : n \in {"cfg", "json", "missing", "opaque", "nokey", "badb64",
                                  "nocolon", "emptyjson", "nouser"}}

ValGpuTypes == {NoGpuType, [set |-> TRUE, word |-> P100Lower], [set |-> TRUE, word |-> K80]}

ValidationPods ==
    { [BasePod EXCEPT !.ctrs = cs, !.inits = is, !.pullSecrets = ss, !.gpuType = g] :
        cs \in {<<c>> : c \in ValCtrs} \cup {<<c, d>> : c, d \in ValCtrs},
        is \in ValInits, ss \in ValSecrets, g \in ValGpuTypes }

(***************************************************************************)
(* Resources: one container, boundary quantities, with and without limits. *)
(***************************************************************************)
CpuVals == {Absent, 5, 12, 15, 250, 1000}
MemVals == {Absent, 50000000, 150000000, 1000000000}
Covers(l, r) == l = Absent \/ r = Absent \/ l >= r
Default(r, l) == IF r = Absent THEN l ELSE r

ResCtr(rc, lc, rm, lm, hl) ==
    [BaseCtr EXCEPT !.req = [cpu |-> Default(rc, lc), mem |-> Default(rm, lm)],
                    !.hasLim = hl, !.lim = [cpu |-> lc, mem |-> lm, gpu |-> Absent]]

ResourcePods ==
    { [BasePod EXCEPT !.ctrs = <<ResCtr(rc, lc, rm, lm, hl)>>] :
        <<rc, lc, rm, lm, hl>> \in
          { t \in CpuVals \X CpuVals \X MemVals \X MemVals \X BOOLEAN :
              /\ Covers(t[2], t[1]) /\ Covers(t[4], t[3])
              /\ ~t[5] => t[2] = Absent /\ t[4] = Absent } }

(***************************************************************************)
(* Windows: the service-account token volume, mounted (as the admission   *)
(* plugin does) by containers and init containers, and a data volume.     *)
(***************************************************************************)
SAMountIn == [vol |-> "token", path |-> <<"serviceaccount", 1>>]
TokenData == [vol |-> "token", path |-> <<"data", 0>>]
DataMount == [vol |-> "data", path |-> <<"data", 0>>]
MountSets == {<<>>, <<SAMountIn>>, <<DataMount>>, <<SAMountIn, DataMount>>, <<TokenData>>}

WindowsPods ==
    { [BasePod EXCEPT !.ctrs = cs, !.inits = is, !.vols = {"token", "data"}] :
        cs \in {<<[BaseCtr EXCEPT !.mounts = m]>> : m \in MountSets}
               \cup {<<[BaseCtr EXCEPT !.mounts = m], [BaseCtr EXCEPT !.mounts = n]>> :
                       m, n \in MountSets},
        is \in {<<>>} \cup {<<[BaseInit EXCEPT !.mounts = m]>> : m \in MountSets} }

(***************************************************************************)
(* Ports: containers exposing TCP and UDP ports.                           *)
(***************************************************************************)
PortSets == {<<>>, <<Web>>, <<Dns>>, <<Web, Dns>>}

PortPods ==
    { [BasePod EXCEPT !.ctrs = cs] :
        cs \in {<<[BaseCtr EXCEPT !.ports = q]>> : q \in PortSets}
               \cup {<<[BaseCtr EXCEPT !.ports = q], [BaseCtr EXCEPT !.ports = r]>> :
                       q, r \in PortSets} }

(***************************************************************************)
(* Pull secrets, including an auth whose password holds a colon.           *)
(***************************************************************************)
SecretPods ==
    { [BasePod EXCEPT !.pullSecrets = ss] :
        ss \in {<<>>} \cup {<<n>> : n \in DOMAIN MCSecretStore}
               \cup {<<"cfg", n>> : n \in DOMAIN MCSecretStore} }

=============================================================================
