----------------------------- MODULE FilesProofs ------------------------------
(***************************************************************************)
(* Proofs about Files, for an archive of any length with                   *)
(* ggml-rpc-server.exe anywhere in it, and any models.  Both invariants    *)
(* need to know what a run finds: what is whole once ggml-rpc-server.exe   *)
(* is there (EngineInv), and that the client works only when the engine is *)
(* unpacked, with a temporary file of the model it fetches (ClientInv).    *)
(***************************************************************************)
EXTENDS Files, TLAPS

EngineInv ==
  /\ main = "copying" => entry <= Entries
  /\ Unpacking =>
       /\ ~ cut
       /\ \A i \in 1 .. Entries : i < entry => engine[i] = "whole"
       /\ engine[RpcEntry] # "absent" =>
            RpcEntry < entry \/ (RpcEntry = entry /\ main = "copying")
  /\ engine[RpcEntry] # "absent" =>
       \A i \in 1 .. Entries : i < RpcEntry => engine[i] = "whole"
  /\ ~ Unpacking /\ ~ cut /\ engine[RpcEntry] # "absent" =>
       \A i \in 1 .. Entries : engine[i] = "whole"
  /\ cut \/ Unpacked => engine[RpcEntry] # "absent"

ClientInv ==
  /\ Unpacking => client = "off" /\ config = None
  /\ client = "fetching" => /\ model \in Model
                            /\ tmp[model] \in File
                            /\ tmp[model].of \in {model, Page}
  /\ config # None => config \in Model /\ Exists(dest[config])
  /\ main = "running" => config # None
  /\ main = "off" => client = "off" /\ config = None

IInv == TypeOK /\ EngineInv /\ ClientInv /\ ModelIsWhole

\* Before the first run there is no file.
LEMMA InitInv == Init => IInv
<1> SUFFICES ASSUME Init PROVE IInv
  OBVIOUS
<1> USE EntriesAssumption, ModelsAssumption DEF Init
<1>1. TypeOK
  <2>1. entry \in 1 .. Entries + 1
    OBVIOUS
  <2>2. /\ engine \in [1 .. Entries -> {"absent", "partial", "whole"}]
        /\ tmp \in [Model -> File \cup {NoFile}] /\ dest \in [Model -> File \cup {NoFile}]
    BY Zenon
  <2>3. QED
    BY <2>1, <2>2 DEF TypeOK
<1>2. EngineInv
  BY DEF EngineInv, Unpacking, Unpacked
<1>3. ClientInv
  BY DEF ClientInv, Unpacking
<1>4. ModelIsWhole
  BY DEF ModelIsWhole, Exists
<1>5. QED
  BY <1>1, <1>2, <1>3, <1>4 DEF IInv

LEMMA TypeStep == TypeOK /\ EngineInv /\ ClientInv /\ [Next]_vars => TypeOK'
<1> SUFFICES ASSUME TypeOK, EngineInv, ClientInv, [Next]_vars PROVE TypeOK'
  OBVIOUS
<1> USE EntriesAssumption, ModelsAssumption DEF TypeOK, vars, mainVars, clientVars
<1>1. CASE Main
  BY <1>1 DEF Main, Start, Create, Copy, Extracted, Launch, EngineInv
<1>2. CASE Stop
  BY <1>2 DEF Stop
<1>3. ASSUME NEW m \in Model, Skip(m) PROVE TypeOK'
  BY <1>3 DEF Skip, Ready
<1>4. ASSUME NEW m \in Model, NEW body \in {m, Page}, Fetch(m, body) PROVE TypeOK'
  BY <1>4 DEF Fetch, File
<1>5. CASE Receive
  <2>1. [of |-> tmp[model].of, chunks |-> tmp[model].chunks + 1] \in File
    BY <1>5 DEF Receive, ClientInv, File
  <2>2. tmp' \in [Model -> File \cup {NoFile}]
    BY <1>5, <2>1 DEF Receive
  <2>3. QED
    BY <1>5, <2>2 DEF Receive
<1>6. CASE Rename
  BY <1>6 DEF Rename, Ready, ClientInv
<1>7. CASE Fail \/ LoseMaster \/ UNCHANGED vars
  BY <1>7 DEF Fail, LoseMaster
<1>8. QED
  BY <1>1, <1>2, <1>3, <1>4, <1>5, <1>6, <1>7 DEF Next, Register, Download

\* An extraction that is repeated makes whole what it passes, and is repeated
\* until it has passed ggml-rpc-server.exe.
LEMMA EngineStep == TypeOK /\ EngineInv /\ ClientInv /\ [Next]_vars => EngineInv'
<1> SUFFICES ASSUME TypeOK, EngineInv, ClientInv, [Next]_vars PROVE EngineInv'
  OBVIOUS
<1> USE EntriesAssumption DEF TypeOK, EngineInv, Unpacking, Unpacked, clientVars
<1>1. CASE Start
  BY <1>1 DEF Start
<1>2. CASE Create
  BY <1>2 DEF Create
<1>3. CASE Copy
  BY <1>3 DEF Copy
<1>4. CASE Extracted
  BY <1>4 DEF Extracted
<1>5. CASE Launch
  BY <1>5 DEF Launch
<1>6. CASE Stop
  BY <1>6 DEF Stop
<1>7. CASE Register \/ Download \/ LoseMaster \/ UNCHANGED vars
  <2>1. UNCHANGED mainVars
    BY <1>7 DEF Register, Skip, Fetch, Download, Receive, Rename, Fail, LoseMaster, vars
  <2>2. QED
    BY <2>1 DEF mainVars
<1>8. QED
  BY <1>1, <1>2, <1>3, <1>4, <1>5, <1>6, <1>7 DEF Next, Main

\* A file takes a model's name only when all of its body is there.
LEMMA ClientStep ==
  TypeOK /\ ClientInv /\ ModelIsWhole /\ [Next]_vars => ClientInv' /\ ModelIsWhole'
<1> SUFFICES ASSUME TypeOK, ClientInv, ModelIsWhole, [Next]_vars
             PROVE  ClientInv' /\ ModelIsWhole'
  OBVIOUS
<1> USE ModelsAssumption DEF TypeOK, ClientInv, ModelIsWhole, Unpacking, Exists, NoFile, mainVars
<1>1. CASE Main
  BY <1>1 DEF Main, Start, Create, Copy, Extracted, Launch, clientVars
<1>2. CASE Stop
  BY <1>2 DEF Stop
<1>3. ASSUME NEW m \in Model, Skip(m) PROVE ClientInv' /\ ModelIsWhole'
  BY <1>3 DEF Skip, Ready
<1>4. ASSUME NEW m \in Model, NEW body \in {m, Page}, Fetch(m, body)
      PROVE  ClientInv' /\ ModelIsWhole'
  BY <1>4 DEF Fetch, File
<1>5. CASE Receive
  <2>1. /\ tmp'[model] = [of |-> tmp[model].of, chunks |-> tmp[model].chunks + 1]
        /\ tmp'[model] \in File /\ tmp'[model].of = tmp[model].of
    BY <1>5 DEF Receive, File
  <2>2. QED
    BY <1>5, <2>1 DEF Receive
<1>6. CASE Rename
  BY <1>6 DEF Rename, Ready, File
<1>7. CASE Fail \/ LoseMaster \/ UNCHANGED vars
  BY <1>7 DEF Fail, LoseMaster, vars, clientVars
<1>8. QED
  BY <1>1, <1>2, <1>3, <1>4, <1>5, <1>6, <1>7 DEF Next, Register, Download
-----------------------------------------------------------------------------
\* The invariant holds initially and every step preserves it.
THEOREM Invariance == Spec => []IInv
<1>1. Init => IInv
  BY InitInv
<1>2. IInv /\ [Next]_vars => IInv'
  BY TypeStep, EngineStep, ClientStep DEF IInv
<1>3. QED
  BY <1>1, <1>2, PTL DEF Spec

\* The variables keep their kinds, whatever an earlier run has left.
THEOREM TypeCorrect == Spec => []TypeOK
<1>1. IInv => TypeOK
  BY DEF IInv
<1>2. QED
  BY <1>1, Invariance, PTL

\* A file under a model's name is all of one answer, wherever downloads and
\* runs were cut short, and llama-server is launched on such a file only.
THEOREM ModelsAreWhole == Spec => []ModelIsWhole
<1>1. IInv => ModelIsWhole
  BY DEF IInv
<1>2. QED
  BY <1>1, Invariance, PTL

\* For any archive the engine that is launched is whole, unless a run was cut
\* short with ggml-rpc-server.exe there: then it is so up to that file.
THEOREM EnginesAreWhole == Spec => []EngineIsWhole
<1>1. IInv => EngineIsWhole
  BY DEF IInv, EngineInv, EngineIsWhole, Unpacked, Unpacking
<1>2. QED
  BY <1>1, Invariance, PTL
=============================================================================
