-------------------------- MODULE CallGraphProofs --------------------------
(* analyze_call_cycles() reports the calls on the cycles of every module,   *)
(* and of a module whose joins are broken nothing.                          *)
EXTENDS CallGraph, SequenceTheorems, WellFoundedInduction, TLAPS

(***************************************************************************)
(* The inductive invariant                                                 *)
(***************************************************************************)
Seen == IF pc = "Functions" THEN 1 .. at - 1 ELSE DOMAIN Functions
Key(i) == Functions[i].canonical_function
Joined(i) == ~Functions[i].is_entry /\ Identified(Functions[i])
Placed(i) == Joined(i) /\ Defines(Functions[i])

Messages ==
  {"invalid canonical identity", "signatures disagree", "two local definitions",
   "no owned source range", "invalid direct target", "no valid target layout",
   "ambiguous list", "list target disagrees", "table slot disagrees", "no contract"}

TypeInv ==
  /\ module \in Modules
  /\ pc \in {"Functions", "Calls", "Done"}
  /\ at \in Nat \ {0} /\ at <= Len(Functions) + 1
  /\ call \in Nat \ {0}
  /\ diagnostics \in Seq(Messages)
  /\ has_open_boundaries \in BOOLEAN
  /\ pc = "Done" => at > Len(Functions)

(* Each signature is that of a function seen, and each function seen has one. *)
SignaturesInv ==
  /\ \A k \in DOMAIN signatures :
       \E i \in Seen : Joined(i) /\ Key(i) = k /\ Functions[i].signature = signatures[k]
  /\ \A i \in Seen : Joined(i) => Key(i) \in DOMAIN signatures

(* Vertices and defined keys correspond, one to one. *)
DefinitionsInv ==
  /\ owners \in Seq(DOMAIN Functions)
  /\ \A k \in DOMAIN definitions : definitions[k] \in Vertices /\ Key(owners[definitions[k]]) = k
  /\ \A v \in Vertices :
       /\ owners[v] \in Seen /\ Placed(owners[v])
       /\ Key(owners[v]) \in DOMAIN definitions /\ definitions[Key(owners[v])] = v
  /\ \A i \in Seen : Placed(i) => Key(i) \in DOMAIN definitions

(* What a registered function can break *)
Alike(i, j) ==
  ~Functions[i].is_entry /\ ~Functions[j].is_entry /\ Key(i) = Key(j)
  => /\ Functions[i].signature = Functions[j].signature
     /\ Defines(Functions[i]) /\ Defines(Functions[j]) => i = j
Agree(S) ==
  /\ \A i \in S : ~Functions[i].is_entry => Identified(Functions[i])
  /\ \A i, j \in S : Alike(i, j)

(* The calls behind the loop, and what they can break *)
Passed(i, j) ==
  /\ i \in DOMAIN Functions /\ j \in Places(i) /\ ~Functions[i].is_prototype
  /\ pc # "Functions" /\ (i < at \/ (i = at /\ j < call))
Sound == \A i, j \in Nat : Passed(i, j) => Meaningful(i, j)

(* A diagnostic is a broken join, and every broken join that the loops have  *)
(* passed has made one.                                                      *)
DiagnosticsInv == diagnostics = <<>> <=> (Agree(Seen) /\ Sound)

(* The memo holds what a look found for some use. *)
MemoInv ==
  \A id \in DOMAIN finite : \E use : Looked(id, use).ok /\ finite[id] = Looked(id, use).values

(* It serves the contracts of calls that were passed, and of those every list. *)
ServedInv ==
  /\ \A id \in DOMAIN finite : \E i, j \in Nat : Passed(i, j) /\ Contracted(i, j, id)
  /\ diagnostics = <<>> =>
       \A i, j \in Nat : \A id :
         Passed(i, j) /\ Contracted(i, j, id) /\ Lists(id) # {} => id \in DOMAIN finite

(* Every edge comes from a call behind the loop, and every such call is there. *)
Edge(i, j, t) ==
  [from |-> definitions[Key(i)], to |-> definitions[t], range |-> <<i, j>>,
   candidate |-> Functions[i].body[j].indirect]
Opens(c) ==
  \/ c.indirect /\ Lists(c.metadata) = {} /\ Tables(c.metadata) = {}
  \/ ~(MayInvoke(c) \subseteq DefinedKeys)
EdgesInv ==
  diagnostics = <<>> =>
    /\ \A e \in edges : \E i, j \in Nat : \E t \in DefinedKeys :
         /\ Passed(i, j) /\ i \in Definitions
         /\ t \in MayInvoke(Functions[i].body[j]) /\ e = Edge(i, j, t)
    /\ \A i, j \in Nat : \A t \in DefinedKeys :
         Passed(i, j) /\ i \in Definitions /\ t \in MayInvoke(Functions[i].body[j])
         => Edge(i, j, t) \in edges
    /\ has_open_boundaries <=>
         \E i, j \in Nat : Passed(i, j) /\ Opens(Functions[i].body[j])

StartInv ==
  pc = "Functions" => finite = <<>> /\ edges = {} /\ ~has_open_boundaries

ReportInv ==
  recursive_calls =
    IF pc = "Done" /\ diagnostics = <<>> THEN Witnesses(Components(FALSE), Components(TRUE))
    ELSE {}

IInv ==
  /\ TypeInv /\ SignaturesInv /\ DefinitionsInv /\ DiagnosticsInv /\ MemoInv
  /\ ServedInv /\ EdgesInv /\ StartInv /\ ReportInv

-----------------------------------------------------------------------------
(* What a step that keeps the module keeps *)

LEMMA Shape ==
  ASSUME module \in Modules
  PROVE  /\ None \notin DOMAIN Symbols
         /\ Len(Functions) \in Nat /\ DOMAIN Functions = 1 .. Len(Functions)
         /\ \A i \in DOMAIN Functions :
              /\ Functions[i].is_entry \in BOOLEAN /\ Functions[i].is_prototype \in BOOLEAN
              /\ Len(Functions[i].body) \in Nat
              /\ Places(i) = 1 .. Len(Functions[i].body)
              /\ \A j \in Places(i) : /\ Functions[i].body[j].indirect \in BOOLEAN
                                      /\ Functions[i].body[j].ranged \in BOOLEAN
              /\ \A k \in DOMAIN Functions[i].call_target_sets :
                   Functions[i].call_target_sets[k].symbol # None
         /\ DOMAIN module.call_tables \subseteq Nat
         /\ \A k \in DOMAIN module.call_tables : module.call_tables[k].symbol # None
  BY ModulesAssumption DEF Symbols, Functions, Places

LEMMA KeptFunctions ==
  ASSUME module' = module
  PROVE  /\ Functions' = Functions /\ Symbols' = Symbols
         /\ Definitions' = Definitions /\ DefinedKeys' = DefinedKeys
         /\ \A i : Places(i)' = Places(i) /\ Key(i)' = Key(i)
         /\ \A i : Joined(i)' <=> Joined(i)
         /\ \A i : Placed(i)' <=> Placed(i)
         /\ \A i, j : Alike(i, j)' <=> Alike(i, j)
  <1>1. Functions' = Functions /\ Symbols' = Symbols
    BY DEF Functions, Symbols
  <1>2. \A id : canonical(id)' = canonical(id)
    BY <1>1 DEF canonical, IsDevice
  <1>3. \A function : Identified(function)' <=> Identified(function)
    BY <1>2 DEF Identified
  <1>4. \A i : Joined(i)' <=> Joined(i)
    BY <1>1, <1>3 DEF Joined
  <1> QED BY <1>1, <1>4 DEF Definitions, DefinedKeys, Places, Key, Placed, Alike

LEMMA KeptCalls ==
  ASSUME module' = module
  PROVE  /\ \A id : canonical(id)' = canonical(id)
         /\ \A id : Lists(id)' = Lists(id) /\ Tables(id)' = Tables(id)
         /\ \A c : MayInvoke(c)' = MayInvoke(c)
         /\ \A c : Opens(c)' <=> Opens(c)
         /\ \A i, j, id : Contracted(i, j, id)' <=> Contracted(i, j, id)
         /\ \A i, j : Meaningful(i, j)' <=> Meaningful(i, j)
  <1>1. Functions' = Functions /\ Symbols' = Symbols /\ DefinedKeys' = DefinedKeys
    BY KeptFunctions
  <1>2. \A id : canonical(id)' = canonical(id)
    BY <1>1 DEF canonical, IsDevice
  <1>3. \A id : Lists(id)' = Lists(id) /\ Tables(id)' = Tables(id)
    BY <1>1 DEF Lists, Sets, Tables
  <1>4. \A id : FirstTable(id)' = FirstTable(id)
    BY <1>3 DEF FirstTable, First
  <1>5. \A members : Keys(members)' = Keys(members)
    BY <1>2 DEF Keys
  <1>6. \A c : MayInvoke(c)' = MayInvoke(c)
    BY <1>2, <1>3, <1>4, <1>5 DEF MayInvoke
  <1>7. \A key, signature : Signed(key, signature)' <=> Signed(key, signature)
    BY <1>1 DEF Signed
  <1>8. \A list, use : /\ ListMeans(list)' <=> ListMeans(list)
                       /\ ListSeen(list, use)' <=> ListSeen(list, use)
    BY <1>1, <1>2, <1>7 DEF ListMeans, ListSeen, VisibleFrom
  <1>9. \A table : TableMeans(table)' <=> TableMeans(table)
    BY <1>2, <1>7 DEF TableMeans
  <1>10. \A id : ContractMeans(id)' <=> ContractMeans(id)
    BY <1>1, <1>3, <1>4, <1>8, <1>9 DEF ContractMeans
  <1>11. \A i, j, id : Contracted(i, j, id)' <=> Contracted(i, j, id)
    BY <1>1 DEF Contracted
  <1>12. \A i, j : Leads(i, j)' <=> Leads(i, j)
    BY <1>1, <1>11 DEF Leads, Places
  <1>13. \A i, j : Sees(i, j)' <=> Sees(i, j)
    BY <1>1, <1>3, <1>8, <1>12 DEF Sees
  <1>14. \A i, j : Meaningful(i, j)' <=> Meaningful(i, j)
    BY <1>1, <1>6, <1>10, <1>13 DEF Meaningful
  <1> QED BY <1>1, <1>2, <1>3, <1>6, <1>11, <1>14 DEF Opens

LEMMA BothEmpty ==
  ASSUME NEW s \in Seq(Messages), NEW t \in Seq(Messages)
  PROVE  s \o t \in Seq(Messages) /\ (s \o t = <<>> <=> s = <<>> /\ t = <<>>)
  OBVIOUS

LEMMA Reported ==
  ASSUME TypeInv, NEW what \in Messages
  PROVE  Append(diagnostics, what) \in Seq(Messages) /\ Append(diagnostics, what) # <<>>
  <1>1. diagnostics \in Seq(Messages)
    BY DEF TypeInv
  <1> QED BY <1>1, AppendProperties

-----------------------------------------------------------------------------
(* Registering functions *)

LEMMA InitInv == Init => IInv
  <1> SUFFICES ASSUME Init PROVE IInv
    OBVIOUS
  <1> USE DEF Init
  <1>1. Len(Functions) \in Nat
    BY Shape
  <1>2. Seen = {}
    BY DEF Seen
  <1>3. TypeInv
    <2>1. <<>> \in Seq(Messages)
      OBVIOUS
    <2>2. 1 \in Nat \ {0} /\ 1 <= Len(Functions) + 1
      BY <1>1
    <2> QED BY <2>1, <2>2 DEF TypeInv
  <1>4. SignaturesInv
    BY <1>2 DEF SignaturesInv
  <1>5. Vertices = {}
    BY DEF Vertices
  <1>6. DefinitionsInv
    BY <1>2, <1>5 DEF DefinitionsInv
  <1>7. DiagnosticsInv
    BY <1>2 DEF DiagnosticsInv, Agree, Sound, Passed
  <1>8. EdgesInv
    BY DEF EdgesInv, Passed
  <1>9. MemoInv /\ ServedInv /\ StartInv /\ ReportInv
    BY DEF MemoInv, ServedInv, Passed, StartInv, ReportInv
  <1> QED BY <1>3, <1>4, <1>6, <1>7, <1>8, <1>9 DEF IInv

(* The next function is seen, and nothing else changes that is not in graph. *)
Registers ==
  /\ pc = "Functions" /\ at <= Len(Functions)
  /\ at' = at + 1 /\ call' = 1 /\ pc' = pc /\ module' = module
  /\ finite' = finite /\ edges' = edges /\ has_open_boundaries' = has_open_boundaries
  /\ recursive_calls' = recursive_calls

LEMMA RegistersSees ==
  ASSUME IInv, Registers
  PROVE  /\ Seen' = Seen \cup {at} /\ at \in DOMAIN Functions
         /\ at \notin Seen /\ Seen \subseteq DOMAIN Functions
         /\ Sound /\ Sound'
         /\ diagnostics' \in Seq(Messages) => TypeInv'
         /\ MemoInv' /\ ServedInv' /\ EdgesInv' /\ StartInv' /\ ReportInv'
  <1> USE DEF Registers
  <1>1. /\ at \in Nat \ {0} /\ module \in Modules /\ finite = <<>> /\ edges = {}
        /\ ~has_open_boundaries /\ recursive_calls = {}
    BY DEF IInv, TypeInv, StartInv, ReportInv
  <1>2. Len(Functions) \in Nat /\ DOMAIN Functions = 1 .. Len(Functions) /\ Functions' = Functions
    BY <1>1, Shape, KeptFunctions
  <1>3. Seen' = Seen \cup {at} /\ at \in DOMAIN Functions /\ at \notin Seen
        /\ Seen \subseteq DOMAIN Functions
    BY <1>1, <1>2 DEF Seen
  <1>4. \A i, j : ~Passed(i, j) /\ ~Passed(i, j)'
    BY DEF Passed
  <1>5. Sound /\ Sound'
    BY <1>4 DEF Sound
  <1>6. diagnostics' \in Seq(Messages) => TypeInv'
    BY <1>1, <1>2 DEF IInv, TypeInv
  <1>7. EdgesInv'
    BY <1>1, <1>4 DEF EdgesInv
  <1>8. MemoInv' /\ ServedInv' /\ StartInv' /\ ReportInv'
    BY <1>1, <1>4 DEF MemoInv, ServedInv, StartInv, ReportInv
  <1> QED BY <1>3, <1>5, <1>6, <1>7, <1>8

LEMMA AgreeOneMore ==
  ASSUME module \in Modules, NEW S, NEW n \in DOMAIN Functions
  PROVE  Agree(S \cup {n}) <=> /\ Agree(S)
                               /\ ~Functions[n].is_entry => Identified(Functions[n])
                               /\ \A i \in S : Alike(i, n)
  <1>1. \A i, j : Alike(i, j) => Alike(j, i)
    BY DEF Alike
  <1>2. Alike(n, n)
    BY DEF Alike
  <1> QED BY <1>1, <1>2 DEF Agree

LEMMA KeptAgree ==
  ASSUME module' = module
  PROVE  Agree(Seen)' <=> Agree(Seen')
  <1>1. \A function : Identified(function)' <=> Identified(function)
    BY DEF Identified, canonical, IsDevice, Symbols
  <1> QED BY <1>1, KeptFunctions DEF Agree

LEMMA RegisterEntryInv == IInv /\ RegisterEntry => IInv'
  <1> SUFFICES ASSUME IInv, RegisterEntry PROVE IInv'
    OBVIOUS
  <1>1. Registers /\ diagnostics' = diagnostics /\ UNCHANGED graph
    BY DEF RegisterEntry, NextFunction, Registers
  <1> USE RegistersSees
  <1>2. module \in Modules /\ module' = module /\ diagnostics' \in Seq(Messages)
    BY <1>1 DEF IInv, TypeInv, Registers
  <1>3. ~Joined(at) /\ ~Placed(at) /\ \A i : Alike(i, at)
    BY DEF RegisterEntry, Function, Joined, Placed, Alike
  <1>4. Seen' = Seen \cup {at} /\ Seen \subseteq DOMAIN Functions
    BY <1>1
  <1>5. SignaturesInv'
    <2>1. SignaturesInv /\ signatures' = signatures
      BY <1>1 DEF IInv, graph
    <2> QED BY <1>2, <1>3, <1>4, <2>1, KeptFunctions DEF SignaturesInv
  <1>6. DefinitionsInv'
    <2>1. DefinitionsInv /\ definitions' = definitions /\ owners' = owners
      BY <1>1 DEF IInv, graph
    <2>2. Vertices' = Vertices
      BY <2>1 DEF Vertices
    <2> QED BY <1>2, <1>3, <1>4, <2>1, <2>2, KeptFunctions DEF DefinitionsInv
  <1>7. DiagnosticsInv'
    <2>1. Agree(Seen)' <=> Agree(Seen')
      BY <1>2, KeptAgree
    <2>2. Agree(Seen') <=> Agree(Seen)
      <3>1. at \in DOMAIN Functions /\ Functions[at].is_entry
        BY <1>1 DEF RegisterEntry, Function
      <3> QED BY <1>2, <1>3, <1>4, <3>1, AgreeOneMore
    <2> QED BY <1>1, <2>1, <2>2 DEF IInv, DiagnosticsInv
  <1> QED BY <1>1, <1>2, <1>5, <1>6, <1>7 DEF IInv

LEMMA RegisterInvalidInv == IInv /\ RegisterInvalid => IInv'
  <1> SUFFICES ASSUME IInv, RegisterInvalid PROVE IInv'
    OBVIOUS
  <1>1. Registers /\ UNCHANGED graph
        /\ diagnostics' = Append(diagnostics, "invalid canonical identity")
    BY DEF RegisterInvalid, NextFunction, Registers, Report
  <1> USE RegistersSees
  <1>2. module \in Modules /\ module' = module
        /\ diagnostics' \in Seq(Messages) /\ diagnostics' # <<>>
    <2>1. TypeInv /\ "invalid canonical identity" \in Messages
      BY DEF IInv, Messages
    <2>2. Append(diagnostics, "invalid canonical identity") \in Seq(Messages)
          /\ Append(diagnostics, "invalid canonical identity") # <<>>
      BY <2>1, Reported
    <2> QED BY <1>1, <2>1, <2>2 DEF TypeInv, Registers
  <1>3. ~Joined(at) /\ ~Placed(at)
    BY DEF RegisterInvalid, Function, Joined, Placed
  <1>4. Seen' = Seen \cup {at} /\ Seen \subseteq DOMAIN Functions
    BY <1>1
  <1>5. SignaturesInv'
    <2>1. SignaturesInv /\ signatures' = signatures
      BY <1>1 DEF IInv, graph
    <2> QED BY <1>2, <1>3, <1>4, <2>1, KeptFunctions DEF SignaturesInv
  <1>6. DefinitionsInv'
    <2>1. DefinitionsInv /\ definitions' = definitions /\ owners' = owners
      BY <1>1 DEF IInv, graph
    <2>2. Vertices' = Vertices
      BY <2>1 DEF Vertices
    <2> QED BY <1>2, <1>3, <1>4, <2>1, <2>2, KeptFunctions DEF DefinitionsInv
  <1>7. DiagnosticsInv'
    <2>1. ~Agree(Seen')
      BY <1>4 DEF RegisterInvalid, Function, Agree
    <2>2. Agree(Seen)' <=> Agree(Seen')
      BY <1>2, KeptAgree
    <2> QED BY <1>2, <2>1, <2>2 DEF DiagnosticsInv
  <1> QED BY <1>1, <1>2, <1>5, <1>6, <1>7 DEF IInv

(* The sequences that registering appends are empty exactly when the new     *)
(* function is like every function seen.                                     *)
LEMMA RegisterNotices ==
  ASSUME IInv, Register
  PROVE  /\ diagnostics' \in Seq(Messages)
         /\ diagnostics' = <<>> <=> diagnostics = <<>> /\ \A i \in Seen : Alike(i, at)
  <1> DEFINE key == Key(at)
  <1>1. diagnostics \in Seq(Messages) /\ at \in DOMAIN Functions /\ at \notin Seen
        /\ Functions[at].is_prototype \in BOOLEAN
    <2>1. Registers
      BY DEF Register, NextFunction, Registers
    <2> QED BY <2>1, RegistersSees, Shape DEF IInv, TypeInv
  <1>2. diagnostics' = diagnostics \o Disagreement(key) \o Duplicate(key)
        /\ Function = Functions[at] /\ Joined(at)
    BY DEF Register, Function, Key, Joined
  <1>3. Disagreement(key) \in Seq(Messages) /\ Duplicate(key) \in Seq(Messages)
    <2>1. /\ <<"signatures disagree">> \in Seq(Messages) /\ <<"two local definitions">> \in Seq(Messages)
          /\ <<>> \in Seq(Messages)
      BY DEF Messages
    <2> QED BY <2>1 DEF Disagreement, Duplicate
  <1>4. diagnostics \o Disagreement(key) \in Seq(Messages)
        /\ (diagnostics \o Disagreement(key) = <<>>
            <=> diagnostics = <<>> /\ Disagreement(key) = <<>>)
    BY <1>1, <1>3, BothEmpty
  <1>5. diagnostics' \in Seq(Messages)
        /\ (diagnostics' = <<>>
            <=> diagnostics = <<>> /\ Disagreement(key) = <<>> /\ Duplicate(key) = <<>>)
    BY <1>2, <1>3, <1>4, BothEmpty
  <1>6. Disagreement(key) = <<>> <=> (key \in DOMAIN signatures
                                      => signatures[key] = Functions[at].signature)
    BY <1>2 DEF Disagreement
  <1>7. Duplicate(key) = <<>> <=> ~(Defines(Functions[at]) /\ key \in DOMAIN definitions)
    BY <1>1, <1>2 DEF Duplicate, Defines, Joined
  <1>8. ASSUME diagnostics = <<>>
        PROVE  (Disagreement(key) = <<>> /\ Duplicate(key) = <<>>) <=> \A i \in Seen : Alike(i, at)
    <2>1. Agree(Seen)
      BY <1>8 DEF IInv, DiagnosticsInv
    <2>2. \A i \in Seen : ~Functions[i].is_entry => Joined(i)
      BY <2>1 DEF Agree, Joined
    <2>3. ASSUME NEW i \in Seen, Disagreement(key) = <<>>, Duplicate(key) = <<>> PROVE Alike(i, at)
      <3> SUFFICES ASSUME ~Functions[i].is_entry, Key(i) = key
                   PROVE  /\ Functions[i].signature = Functions[at].signature
                          /\ ~(Defines(Functions[i]) /\ Defines(Functions[at]))
        BY DEF Alike
      <3>1. Joined(i) /\ key \in DOMAIN signatures
        BY <2>2 DEF IInv, SignaturesInv
      <3>2. PICK n \in Seen : Joined(n) /\ Key(n) = key /\ Functions[n].signature = signatures[key]
        BY <3>1 DEF IInv, SignaturesInv
      <3>3. Functions[i].signature = Functions[n].signature
        BY <2>1, <3>1, <3>2 DEF Agree, Alike, Joined
      <3>4. Functions[i].signature = Functions[at].signature
        BY <1>6, <2>3, <3>1, <3>2, <3>3
      <3>5. Defines(Functions[i]) => key \in DOMAIN definitions
        BY <3>1 DEF IInv, DefinitionsInv, Placed
      <3> QED BY <1>7, <2>3, <3>4, <3>5
    <2>4. ASSUME \A i \in Seen : Alike(i, at), key \in DOMAIN signatures
          PROVE  signatures[key] = Functions[at].signature
      <3>1. PICK n \in Seen : Joined(n) /\ Key(n) = key /\ Functions[n].signature = signatures[key]
        BY <2>4 DEF IInv, SignaturesInv
      <3> QED BY <1>2, <2>4, <3>1 DEF Alike, Joined
    <2>5. ASSUME \A i \in Seen : Alike(i, at), key \in DOMAIN definitions, Defines(Functions[at])
          PROVE  FALSE
      <3>1. definitions[key] \in Vertices /\ Key(owners[definitions[key]]) = key
        BY <2>5 DEF IInv, DefinitionsInv
      <3>2. owners[definitions[key]] \in Seen /\ Placed(owners[definitions[key]])
        BY <3>1 DEF IInv, DefinitionsInv
      <3> QED BY <1>1, <1>2, <2>5, <3>1, <3>2 DEF Alike, Placed, Joined
    <2> QED BY <1>6, <1>7, <2>3, <2>4, <2>5
  <1> QED BY <1>5, <1>8

LEMMA RegisterSignatures ==
  ASSUME IInv, Register
  PROVE  SignaturesInv'
  <1>1. Registers
    BY DEF Register, NextFunction, Registers
  <1>2. Seen' = Seen \cup {at} /\ Joined(at) /\ module' = module
    BY <1>1, RegistersSees DEF Register, Function, Joined
  <1>3. signatures' = emplace(signatures, Key(at), Functions[at].signature)
    BY DEF Register, Function, Key
  <1>4. /\ DOMAIN signatures' = DOMAIN signatures \cup {Key(at)}
        /\ \A x \in DOMAIN signatures : signatures'[x] = signatures[x]
        /\ Key(at) \notin DOMAIN signatures => signatures'[Key(at)] = Functions[at].signature
    BY <1>3 DEF emplace
  <1>5. SignaturesInv
    BY DEF IInv
  <1>6. ASSUME NEW k \in DOMAIN signatures'
        PROVE  \E i \in Seen' : Joined(i) /\ Key(i) = k /\ Functions[i].signature = signatures'[k]
    <2>1. CASE k \in DOMAIN signatures
      BY <1>2, <1>4, <1>5, <2>1 DEF SignaturesInv
    <2>2. CASE k \notin DOMAIN signatures
      <3>1. k = Key(at) /\ signatures'[k] = Functions[at].signature
        BY <1>4, <1>6, <2>2
      <3> QED BY <1>2, <3>1
    <2> QED BY <2>1, <2>2
  <1>7. \A i \in Seen' : Joined(i) => Key(i) \in DOMAIN signatures'
    BY <1>2, <1>4, <1>5 DEF SignaturesInv
  <1> QED BY <1>2, <1>6, <1>7, KeptFunctions DEF SignaturesInv

LEMMA RegisterDefinitions ==
  ASSUME IInv, Register
  PROVE  DefinitionsInv'
  <1>1. Registers
    BY DEF Register, NextFunction, Registers
  <1>2. /\ Seen' = Seen \cup {at} /\ at \in DOMAIN Functions
        /\ Joined(at) /\ module' = module /\ Functions[at].is_prototype \in BOOLEAN
    BY <1>1, RegistersSees, Shape DEF Register, Function, Joined, IInv, TypeInv
  <1>3. DefinitionsInv
    BY DEF IInv
  <1>4. CASE Placed(at) /\ Key(at) \notin DOMAIN definitions
    <2>1. definitions' = emplace(definitions, Key(at), NewVertex) /\ owners' = Append(owners, at)
      BY <1>4 DEF Register, Function, Key, Placed, Defines
    <2>2. /\ DOMAIN definitions' = DOMAIN definitions \cup {Key(at)}
          /\ \A x \in DOMAIN definitions : definitions'[x] = definitions[x]
          /\ definitions'[Key(at)] = NewVertex
      BY <1>4, <2>1 DEF emplace
    <2>3. /\ owners' \in Seq(DOMAIN Functions) /\ Len(owners') = Len(owners) + 1
          /\ \A v \in Vertices : owners'[v] = owners[v]
          /\ owners'[NewVertex] = at /\ Len(owners) \in Nat
      BY <1>2, <1>3, <2>1, AppendProperties DEF DefinitionsInv, Vertices, NewVertex
    <2>4. Vertices' = Vertices \cup {NewVertex}
      BY <2>3 DEF Vertices, NewVertex
    <2>5. ASSUME NEW k \in DOMAIN definitions'
          PROVE  definitions'[k] \in Vertices' /\ Key(owners'[definitions'[k]]) = k
      BY <1>3, <2>2, <2>3, <2>4, <2>5 DEF DefinitionsInv
    <2>6. ASSUME NEW v \in Vertices'
          PROVE  /\ owners'[v] \in Seen' /\ Placed(owners'[v])
                 /\ Key(owners'[v]) \in DOMAIN definitions' /\ definitions'[Key(owners'[v])] = v
      BY <1>2, <1>3, <1>4, <2>2, <2>3, <2>4, <2>6 DEF DefinitionsInv
    <2>7. \A i \in Seen' : Placed(i) => Key(i) \in DOMAIN definitions'
      BY <1>2, <1>3, <2>2 DEF DefinitionsInv
    <2> HIDE DEF Vertices
    <2> QED BY <1>2, <2>3, <2>5, <2>6, <2>7, KeptFunctions DEF DefinitionsInv
  <1>5. CASE ~(Placed(at) /\ Key(at) \notin DOMAIN definitions)
    <2>1. definitions' = definitions /\ owners' = owners
      BY <1>2, <1>5 DEF Register, Function, Key, Placed, Defines, Joined
    <2>2. Vertices' = Vertices
      BY <2>1 DEF Vertices
    <2>3. \A i \in Seen' : Placed(i) => Key(i) \in DOMAIN definitions
      BY <1>2, <1>3, <1>5 DEF DefinitionsInv
    <2> QED BY <1>2, <1>3, <2>1, <2>2, <2>3, KeptFunctions DEF DefinitionsInv
  <1> QED BY <1>4, <1>5

LEMMA RegisterInv == IInv /\ Register => IInv'
  <1> SUFFICES ASSUME IInv, Register PROVE IInv'
    OBVIOUS
  <1>1. Registers
    BY DEF Register, NextFunction, Registers
  <1>2. /\ Seen' = Seen \cup {at} /\ at \in DOMAIN Functions /\ module' = module
        /\ module \in Modules /\ Identified(Functions[at])
    BY <1>1, RegistersSees DEF Register, Function, IInv, TypeInv
  <1>3. Agree(Seen)' <=> Agree(Seen')
    BY <1>2, KeptAgree
  <1>4. Agree(Seen') <=> Agree(Seen) /\ \A i \in Seen : Alike(i, at)
    BY <1>2, AgreeOneMore
  <1>5. diagnostics' = <<>> <=> Agree(Seen') /\ Sound'
    BY <1>1, <1>4, RegistersSees, RegisterNotices DEF IInv, DiagnosticsInv
  <1>6. DiagnosticsInv'
    BY <1>3, <1>5 DEF DiagnosticsInv
  <1> QED BY <1>1, <1>6, RegistersSees, RegisterNotices, RegisterSignatures,
             RegisterDefinitions DEF IInv

-----------------------------------------------------------------------------
(* The loop over calls *)

(* A step of the second loop, or the one before it or after it *)
KeepsGraph ==
  /\ module' = module /\ UNCHANGED graph
  /\ pc = "Functions" => at > Len(Functions)
  /\ pc' \in {"Calls", "Done"}

LEMMA GraphKept ==
  ASSUME IInv, KeepsGraph
  PROVE  /\ Seen' = Seen /\ Seen = DOMAIN Functions
         /\ SignaturesInv' /\ DefinitionsInv'
         /\ Agree(Seen)' <=> Agree(Seen)
         /\ \A i, j, t : Edge(i, j, t)' = Edge(i, j, t)
  <1> USE DEF KeepsGraph
  <1>1. module \in Modules /\ at \in Nat /\ at <= Len(Functions) + 1
    BY DEF IInv, TypeInv
  <1>2. Len(Functions) \in Nat /\ DOMAIN Functions = 1 .. Len(Functions) /\ Functions' = Functions
    BY <1>1, Shape, KeptFunctions
  <1>3. Seen = DOMAIN Functions
    BY <1>1, <1>2 DEF Seen
  <1>4. Seen' = DOMAIN Functions
    BY <1>2 DEF Seen
  <1>5. definitions' = definitions /\ owners' = owners /\ signatures' = signatures
    BY DEF graph
  <1>6. Vertices' = Vertices
    BY <1>5 DEF Vertices
  <1>7. SignaturesInv'
    BY <1>3, <1>4, <1>5, KeptFunctions DEF IInv, SignaturesInv
  <1>8. DefinitionsInv'
    BY <1>3, <1>4, <1>5, <1>6, KeptFunctions DEF IInv, DefinitionsInv
  <1>9. \A i, j, t : Edge(i, j, t)' = Edge(i, j, t)
    BY <1>2, <1>5 DEF Edge, Key
  <1> QED BY <1>3, <1>4, <1>7, <1>8, <1>9, KeptAgree

(* The cases of a look, and what keeps them *)
ListValid(list, use) == \A k \in DOMAIN list.targets : ListTargetValid(list, list.targets[k], use)
TableValid(table) == \A k \in DOMAIN table.slots : SlotValid(table, table.slots[k])

LEMMA LookedIs ==
  ASSUME NEW id, NEW use
  PROVE  /\ (\E s, t \in Lists(id) : s # t) => Looked(id, use) = Failed(<<"ambiguous list">>)
         /\ \A s : Lists(id) = {s} =>
              Looked(id, use) = IF ListValid(s.set, use) THEN Found(Keys(s.set.targets))
                           ELSE Failed(<<"list target disagrees">>)
         /\ Lists(id) = {} /\ Tables(id) # {} =>
              Looked(id, use) = IF TableValid(FirstTable(id)) THEN Found(Keys(FirstTable(id).slots))
                           ELSE Failed(<<"table slot disagrees">>)
         /\ Lists(id) = {} /\ Tables(id) = {} =>
              Looked(id, use) = IF id \in DOMAIN Symbols /\ Symbols[id].kind = "CallPrototype"
                           THEN Failed(<<>>) ELSE Failed(<<"no contract">>)
         /\ \/ \E s, t \in Lists(id) : s # t
            \/ \E s : Lists(id) = {s}
            \/ Lists(id) = {} /\ Tables(id) # {}
            \/ Lists(id) = {} /\ Tables(id) = {}
  <1>1. Lists(id) # {} => (\E s, t \in Lists(id) : s # t) \/ (\E s : Lists(id) = {s})
    OBVIOUS
  <1>2. (\E s, t \in Lists(id) : s # t) => Looked(id, use) = Failed(<<"ambiguous list">>)
    BY DEF Looked
  <1>4. ASSUME NEW s, Lists(id) = {s}
        PROVE  Looked(id, use) = IF ListValid(s.set, use) THEN Found(Keys(s.set.targets))
                            ELSE Failed(<<"list target disagrees">>)
    <2>1. {s} # {} /\ ~\E x, y \in {s} : x # y
      OBVIOUS
    <2>2. (CHOOSE x \in {s} : TRUE) = s
      OBVIOUS
    <2>3. Looked(id, use) = IF \A k \in DOMAIN s.set.targets : ListTargetValid(s.set, s.set.targets[k], use)
                       THEN Found(Keys(s.set.targets))
                       ELSE Failed(<<"list target disagrees">>)
      BY <1>4, <2>1, <2>2 DEF Looked, Found, Failed
    <2> QED BY <2>3 DEF ListValid
  <1>5. Lists(id) = {} /\ Tables(id) # {} =>
          Looked(id, use) = IF TableValid(FirstTable(id)) THEN Found(Keys(FirstTable(id).slots))
                       ELSE Failed(<<"table slot disagrees">>)
    BY DEF Looked, TableValid
  <1>6. Lists(id) = {} /\ Tables(id) = {} =>
          Looked(id, use) = IF id \in DOMAIN Symbols /\ Symbols[id].kind = "CallPrototype"
                       THEN Failed(<<>>) ELSE Failed(<<"no contract">>)
    BY DEF Looked
  <1> QED BY <1>1, <1>2, <1>4, <1>5, <1>6

LEMMA LookedKept ==
  ASSUME module' = module, signatures' = signatures, NEW id, NEW use
  PROVE  Looked(id, use)' = Looked(id, use)
  <1>1. Symbols' = Symbols /\ canonical(id)' = canonical(id)
    BY KeptCalls, KeptFunctions
  <1>2. \A list, target : ListTargetValid(list, target, use)' <=> ListTargetValid(list, target, use)
    BY <1>1, KeptCalls DEF ListTargetValid, hasPriorDeclaration
  <1>3. \A table, slot : SlotValid(table, slot)' <=> SlotValid(table, slot)
    BY KeptCalls DEF SlotValid
  <1>4. \A members : Keys(members)' = Keys(members)
    BY KeptCalls DEF Keys
  <1>5. Lists(id)' = Lists(id) /\ Tables(id)' = Tables(id)
    BY KeptCalls
  <1>6. FirstTable(id)' = FirstTable(id)
    BY <1>5 DEF FirstTable, First
  <1>7. ASSUME NEW s, Lists(id) = {s} PROVE Looked(id, use)' = Looked(id, use)
    <2>1. Lists(id)' = {s} /\ (CHOOSE x \in {s} : TRUE) = s /\ ~\E x, y \in {s} : x # y
      BY <1>5, <1>7
    <2>2. Looked(id, use)' = IF \A k \in DOMAIN s.set.targets : ListTargetValid(s.set, s.set.targets[k], use)
                        THEN Found(Keys(s.set.targets))
                        ELSE Failed(<<"list target disagrees">>)
      BY <1>2, <1>4, <2>1 DEF Looked, Found, Failed
    <2> QED BY <1>7, <2>2, LookedIs DEF ListValid
  <1>8. ASSUME \E s, t \in Lists(id) : s # t PROVE Looked(id, use)' = Looked(id, use)
    <2>1. Looked(id, use)' = Failed(<<"ambiguous list">>)
      BY <1>5, <1>8 DEF Looked, Failed
    <2> QED BY <1>8, <2>1, LookedIs
  <1>9. ASSUME Lists(id) = {}, Tables(id) # {} PROVE Looked(id, use)' = Looked(id, use)
    <2>1. Looked(id, use)' = IF \A k \in DOMAIN FirstTable(id).slots :
                             SlotValid(FirstTable(id), FirstTable(id).slots[k])
                        THEN Found(Keys(FirstTable(id).slots))
                        ELSE Failed(<<"table slot disagrees">>)
      BY <1>3, <1>4, <1>5, <1>6, <1>9 DEF Looked, Found, Failed
    <2> QED BY <1>9, <2>1, LookedIs DEF TableValid
  <1>10. ASSUME Lists(id) = {}, Tables(id) = {} PROVE Looked(id, use)' = Looked(id, use)
    BY <1>1, <1>5, <1>10 DEF Looked, Found, Failed
  <1> QED BY <1>7, <1>8, <1>9, <1>10, LookedIs

LEMMA MemoKept ==
  ASSUME IInv, module' = module, UNCHANGED graph, finite' = finite
  PROVE  MemoInv'
  <1>1. \A id, use : Looked(id, use)' = Looked(id, use)
    BY LookedKept DEF graph
  <1> QED BY <1>1 DEF IInv, MemoInv

(* A step that passes no call, and keeps what came of the ones passed *)
PassesNone ==
  /\ \A i, j \in Nat : Passed(i, j)' <=> Passed(i, j)
  /\ UNCHANGED <<finite, edges, has_open_boundaries, diagnostics>>

LEMMA PassesNoneInv ==
  ASSUME IInv, KeepsGraph, PassesNone
  PROVE  DiagnosticsInv' /\ MemoInv' /\ ServedInv' /\ EdgesInv' /\ StartInv'
  <1> USE DEF PassesNone
  <1>1. Functions' = Functions /\ module' = module
    BY KeptFunctions DEF KeepsGraph
  <1>2. Sound' <=> Sound
    BY <1>1, KeptCalls DEF Sound
  <1>3. DiagnosticsInv'
    BY <1>2, GraphKept DEF IInv, DiagnosticsInv
  <1>4. EdgesInv'
    <2>1. EdgesInv
      BY DEF IInv
    <2>2. /\ Definitions' = Definitions /\ DefinedKeys' = DefinedKeys
          /\ \A c : MayInvoke(c)' = MayInvoke(c) /\ (Opens(c)' <=> Opens(c))
          /\ \A i, j, t : Edge(i, j, t)' = Edge(i, j, t)
      BY <1>1, KeptFunctions, KeptCalls, GraphKept
    <2> QED BY <1>1, <2>1, <2>2 DEF EdgesInv
  <1>5. StartInv'
    BY DEF KeepsGraph, StartInv
  <1>6. MemoInv'
    BY MemoKept DEF KeepsGraph
  <1>7. ServedInv'
    BY KeptCalls DEF KeepsGraph, IInv, ServedInv
  <1> QED BY <1>3, <1>4, <1>5, <1>6, <1>7

LEMMA RegisteredInv == IInv /\ Registered => IInv'
  <1> SUFFICES ASSUME IInv, Registered PROVE IInv'
    OBVIOUS
  <1> USE DEF Registered
  <1>1. KeepsGraph
    BY DEF KeepsGraph
  <1>2. module \in Modules /\ Len(Functions) \in Nat /\ Functions' = Functions
    BY Shape, KeptFunctions DEF IInv, TypeInv
  <1>3. \A i, j : j \in Places(i) /\ i \in DOMAIN Functions => i \in Nat \ {0} /\ j \in Nat \ {0}
    BY <1>2, Shape
  <1>4. \A i, j \in Nat : Passed(i, j)' <=> Passed(i, j)
    BY <1>3, KeptFunctions DEF Passed
  <1>5. PassesNone
    BY <1>4 DEF PassesNone
  <1>6. TypeInv'
    BY <1>2 DEF IInv, TypeInv
  <1>7. ReportInv'
    BY DEF IInv, ReportInv
  <1> QED BY <1>1, <1>5, <1>6, <1>7, GraphKept, PassesNoneInv DEF IInv

LEMMA SkipFunctionInv == IInv /\ SkipFunction => IInv'
  <1> SUFFICES ASSUME IInv, SkipFunction PROVE IInv'
    OBVIOUS
  <1> USE DEF SkipFunction, NextFunction
  <1>1. KeepsGraph
    BY DEF KeepsGraph
  <1>2. /\ module \in Modules /\ Len(Functions) \in Nat /\ Functions' = Functions
        /\ at \in Nat \ {0} /\ call \in Nat \ {0} /\ signatures' = signatures
    BY Shape, KeptFunctions DEF IInv, TypeInv, graph
  <1>3. \A i, j : j \in Places(i) /\ i \in DOMAIN Functions =>
          i \in Nat \ {0} /\ j \in Nat \ {0} /\ Places(i) = 1 .. Len(Functions[i].body)
    BY <1>2, Shape
  <1>4. ASSUME NEW i \in Nat, NEW j \in Nat PROVE Passed(i, j)' <=> Passed(i, j)
    <2>1. Passed(i, j)' <=>
            /\ i \in DOMAIN Functions /\ j \in Places(i) /\ ~Functions[i].is_prototype
            /\ i < at + 1 \/ (i = at + 1 /\ j < 1)
      BY KeptFunctions DEF Passed
    <2>2. Passed(i, j) <=>
            /\ i \in DOMAIN Functions /\ j \in Places(i) /\ ~Functions[i].is_prototype
            /\ i < at \/ (i = at /\ j < call)
      BY DEF Passed
    <2>3. ASSUME i = at, i \in DOMAIN Functions, j \in Places(i), ~Functions[i].is_prototype
          PROVE  j < call
      <3>1. call > Len(Functions[at].body) /\ Len(Functions[at].body) \in Nat
        BY <1>2, <2>3, Shape DEF Function
      <3> QED BY <1>2, <1>3, <2>3, <3>1
    <2> QED BY <1>2, <1>3, <2>1, <2>2, <2>3
  <1>5. PassesNone
    BY <1>4 DEF PassesNone
  <1>6. TypeInv'
    BY <1>2 DEF IInv, TypeInv
  <1>7. ReportInv'
    BY DEF IInv, ReportInv
  <1> QED BY <1>1, <1>5, <1>6, <1>7, GraphKept, PassesNoneInv DEF IInv

(* A call is passed: what it may invoke becomes edges, and a diagnostic says *)
(* that it has no meaning.                                                   *)
Passes ==
  /\ AtCall /\ NextCall /\ UNCHANGED <<module, pc, graph, recursive_calls>>
  /\ diagnostics' \in Seq(Messages) /\ has_open_boundaries' \in BOOLEAN /\ MemoInv'
  /\ DOMAIN finite \subseteq DOMAIN finite'
  /\ \A id \in DOMAIN finite' : id \in DOMAIN finite \/ (Call.indirect /\ Call.metadata = id)
  /\ diagnostics' = <<>> /\ Call.indirect /\ Lists(Call.metadata) # {} =>
       Call.metadata \in DOMAIN finite'
  /\ diagnostics # <<>> => diagnostics' # <<>>
  /\ diagnostics = <<>> =>
       /\ diagnostics' = <<>> <=> Meaningful(at, call)
       /\ Meaningful(at, call) =>
            /\ \A e : e \in edges' <=>
                 e \in edges \/ (at \in Definitions
                                 /\ \E t \in MayInvoke(Call) \cap DefinedKeys : e = Edge(at, call, t))
            /\ has_open_boundaries' <=> has_open_boundaries \/ Opens(Call)

LEMMA AtCallIs ==
  ASSUME IInv, AtCall
  PROVE  /\ module \in Modules /\ at \in DOMAIN Functions /\ call \in Places(at)
         /\ at \in Nat /\ call \in Nat /\ Call = Functions[at].body[call]
         /\ ~Functions[at].is_prototype
         /\ Call.indirect \in BOOLEAN /\ Call.ranged \in BOOLEAN
         /\ Functions[at].is_entry \in BOOLEAN
  <1>1. module \in Modules /\ at \in Nat \ {0} /\ call \in Nat \ {0}
    BY DEF IInv, TypeInv
  <1>2. at \in DOMAIN Functions
    BY <1>1, Shape DEF AtCall
  <1>3. call \in Places(at)
    BY <1>1, <1>2, Shape DEF AtCall, Function
  <1> QED BY <1>1, <1>2, <1>3, Shape DEF AtCall, Call, Function

LEMMA PassesInv ==
  ASSUME IInv, Passes
  PROVE  IInv'
  <1> USE DEF Passes
  <1>1. KeepsGraph /\ pc = "Calls" /\ pc' = "Calls" /\ at' = at /\ call' = call + 1
    BY DEF KeepsGraph, AtCall, NextCall
  <1>2. /\ module \in Modules /\ at \in DOMAIN Functions /\ call \in Places(at)
        /\ at \in Nat /\ call \in Nat /\ Call = Functions[at].body[call]
        /\ ~Functions[at].is_prototype
    BY AtCallIs
  <1>3. Functions' = Functions /\ module' = module /\ Definitions' = Definitions
        /\ DefinedKeys' = DefinedKeys
    BY KeptFunctions
  <1>4. \A i, j \in Nat : Passed(i, j)' <=> Passed(i, j) \/ (i = at /\ j = call)
    <2>1. \A i : Places(i)' = Places(i)
      BY <1>3, KeptFunctions
    <2> QED BY <1>1, <1>2, <1>3, <2>1 DEF Passed
  <1>5. Sound' <=> Sound /\ Meaningful(at, call)
    <2>1. Sound' <=> \A i, j \in Nat : Passed(i, j)' => Meaningful(i, j)
      BY <1>3, KeptCalls DEF Sound
    <2> QED BY <1>2, <1>4, <2>1 DEF Sound
  <1>6. DiagnosticsInv'
    BY <1>1, <1>5, GraphKept DEF IInv, DiagnosticsInv
  <1>7. ASSUME diagnostics' = <<>>
        PROVE  /\ \A e \in edges' : \E i, j \in Nat : \E t \in DefinedKeys :
                    /\ Passed(i, j)' /\ i \in Definitions
                    /\ t \in MayInvoke(Functions[i].body[j]) /\ e = Edge(i, j, t)
               /\ \A i, j \in Nat : \A t \in DefinedKeys :
                    Passed(i, j)' /\ i \in Definitions /\ t \in MayInvoke(Functions[i].body[j])
                    => Edge(i, j, t) \in edges'
               /\ has_open_boundaries' <=>
                    \E i, j \in Nat : Passed(i, j)' /\ Opens(Functions[i].body[j])
    <2>1. diagnostics = <<>> /\ Meaningful(at, call)
      BY <1>7
    <2>2. EdgesInv
      BY DEF IInv
    <2>3. \A e : e \in edges' <=>
                 e \in edges \/ (at \in Definitions
                                 /\ \E t \in MayInvoke(Call) \cap DefinedKeys : e = Edge(at, call, t))
      BY <2>1
    <2>4. ASSUME NEW e \in edges'
          PROVE  \E i, j \in Nat : \E t \in DefinedKeys :
                    /\ Passed(i, j)' /\ i \in Definitions
                    /\ t \in MayInvoke(Functions[i].body[j]) /\ e = Edge(i, j, t)
      <3>1. CASE e \in edges
        BY <1>4, <2>1, <2>2, <3>1 DEF EdgesInv
      <3>2. CASE e \notin edges
        BY <1>2, <1>4, <2>3, <2>4, <3>2
      <3> QED BY <3>1, <3>2
    <2>5. ASSUME NEW i \in Nat, NEW j \in Nat, NEW t \in DefinedKeys,
                 Passed(i, j)', i \in Definitions, t \in MayInvoke(Functions[i].body[j])
          PROVE  Edge(i, j, t) \in edges'
      <3>1. CASE Passed(i, j)
        BY <2>1, <2>2, <2>3, <2>5, <3>1 DEF EdgesInv
      <3>2. CASE i = at /\ j = call
        BY <1>2, <2>3, <2>5, <3>2
      <3> QED BY <1>4, <2>5, <3>1, <3>2
    <2>6. has_open_boundaries' <=>
            \E i, j \in Nat : Passed(i, j)' /\ Opens(Functions[i].body[j])
      BY <1>2, <1>4, <2>1, <2>2 DEF EdgesInv
    <2> QED BY <2>4, <2>5, <2>6
  <1>8. EdgesInv'
    BY <1>1, <1>3, <1>7, KeptCalls, GraphKept DEF EdgesInv
  <1>9. TypeInv'
    BY <1>1, <1>2, <1>3 DEF IInv, TypeInv
  <1>10. StartInv' /\ ReportInv'
    BY <1>1 DEF IInv, StartInv, ReportInv
  <1>11. ServedInv'
    <2>1. \A id : Contracted(at, call, id) <=> Call.indirect /\ Call.metadata = id
      BY <1>2 DEF Contracted
    <2>2. /\ \A i, j, id : Contracted(i, j, id)' <=> Contracted(i, j, id)
          /\ \A id : Lists(id)' = Lists(id)
      BY <1>3, KeptCalls
    <2>3. ASSUME NEW id \in DOMAIN finite'
          PROVE  \E i, j \in Nat : Passed(i, j)' /\ Contracted(i, j, id)
      BY <1>2, <1>4, <2>1, <2>3 DEF IInv, ServedInv
    <2>4. ASSUME diagnostics' = <<>>, NEW i \in Nat, NEW j \in Nat, NEW id,
                 Passed(i, j)', Contracted(i, j, id), Lists(id) # {}
          PROVE  id \in DOMAIN finite'
      BY <1>4, <2>1, <2>4 DEF IInv, ServedInv
    <2> QED BY <2>2, <2>3, <2>4 DEF ServedInv
  <1> QED BY <1>1, <1>6, <1>8, <1>9, <1>10, <1>11, GraphKept DEF IInv

(* Of functions that agree, the maps say all there is to say. *)
LEMMA MapsAreComplete ==
  ASSUME IInv, pc # "Functions", diagnostics = <<>>
  PROVE  /\ DOMAIN definitions = DefinedKeys
         /\ \A k, s : Signed(k, s) <=> k \in DOMAIN signatures /\ signatures[k] = s
         /\ \A i \in DOMAIN Functions : ~Functions[i].is_entry => Joined(i)
         /\ \A i \in Definitions : Placed(i) /\ Key(i) \in DOMAIN definitions
         /\ \A i \in Definitions : owners[definitions[Key(i)]] = i
  <1>1. Agree(DOMAIN Functions) /\ Seen = DOMAIN Functions
    BY DEF IInv, DiagnosticsInv, Seen
  <1>2. \A i \in DOMAIN Functions : ~Functions[i].is_entry => Joined(i)
    BY <1>1 DEF Agree, Joined
  <1>3. \A i \in Definitions : Placed(i) /\ Key(i) \in DOMAIN definitions
    BY <1>1, <1>2 DEF Definitions, Defines, Placed, IInv, DefinitionsInv
  <1>4. ASSUME NEW k \in DOMAIN definitions PROVE k \in DefinedKeys
    <2>1. definitions[k] \in Vertices /\ Key(owners[definitions[k]]) = k
      BY DEF IInv, DefinitionsInv
    <2>2. owners[definitions[k]] \in DOMAIN Functions /\ Placed(owners[definitions[k]])
      BY <1>1, <2>1 DEF IInv, DefinitionsInv
    <2> QED BY <2>1, <2>2 DEF DefinedKeys, Definitions, Placed, Key
  <1>5. DOMAIN definitions = DefinedKeys
    BY <1>3, <1>4 DEF DefinedKeys, Key
  <1>6. ASSUME NEW k, NEW s, Signed(k, s) PROVE k \in DOMAIN signatures /\ signatures[k] = s
    <2>1. PICK i \in DOMAIN Functions :
            ~Functions[i].is_entry /\ Key(i) = k /\ Functions[i].signature = s
      BY <1>6 DEF Signed, Key
    <2>2. k \in DOMAIN signatures
      BY <1>1, <1>2, <2>1 DEF IInv, SignaturesInv
    <2>3. PICK n \in DOMAIN Functions :
            Joined(n) /\ Key(n) = k /\ Functions[n].signature = signatures[k]
      BY <1>1, <2>2 DEF IInv, SignaturesInv
    <2> QED BY <1>1, <2>1, <2>2, <2>3 DEF Agree, Alike, Joined
  <1>7. ASSUME NEW k \in DOMAIN signatures PROVE Signed(k, signatures[k])
    BY <1>1 DEF IInv, SignaturesInv, Signed, Joined, Key
  <1>8. ASSUME NEW i \in Definitions PROVE owners[definitions[Key(i)]] = i
    <2>1. definitions[Key(i)] \in Vertices /\ Key(owners[definitions[Key(i)]]) = Key(i)
      BY <1>3 DEF IInv, DefinitionsInv
    <2>2. owners[definitions[Key(i)]] \in DOMAIN Functions /\ Placed(owners[definitions[Key(i)]])
      BY <1>1, <2>1 DEF IInv, DefinitionsInv
    <2>3. Alike(owners[definitions[Key(i)]], i) /\ i \in DOMAIN Functions
      BY <1>1, <2>2 DEF Agree, Definitions
    <2> QED BY <1>3, <2>1, <2>2, <2>3 DEF Alike, Placed, Joined
  <1> QED BY <1>2, <1>3, <1>5, <1>6, <1>7, <1>8

(* What the diagnostics of a contract say is what the contract means. *)
LEMMA ListMeaning ==
  ASSUME IInv, AtCall, diagnostics = <<>>, NEW list, NEW use
  PROVE  ListValid(list, use) <=> /\ ListMeans(list) /\ ListSeen(list, use)
                                  /\ None \notin Keys(list.targets)
  <1>1. \A k, s : Signed(k, s) <=> k \in DOMAIN signatures /\ signatures[k] = s
    <2>1. pc # "Functions"
      BY DEF AtCall
    <2> QED BY <2>1, MapsAreComplete
  <1> QED BY <1>1
    DEF ListValid, ListTargetValid, ListMeans, ListSeen, Keys, VisibleFrom, hasPriorDeclaration

LEMMA TableMeaning ==
  ASSUME IInv, AtCall, diagnostics = <<>>, NEW table
  PROVE  TableValid(table) <=> TableMeans(table) /\ None \notin Keys(table.slots)
  <1>1. \A k, s : Signed(k, s) <=> k \in DOMAIN signatures /\ signatures[k] = s
    <2>1. pc # "Functions"
      BY DEF AtCall
    <2> QED BY <2>1, MapsAreComplete
  <1> QED BY <1>1 DEF TableValid, SlotValid, TableMeans, Keys

(* A look answers one of two things. *)
LEMMA LookAnswers ==
  ASSUME NEW id, NEW use
  PROVE  /\ Looked(id, use).ok \in BOOLEAN /\ Looked(id, use).why \in Seq(Messages)
         /\ Looked(id, use).ok => Looked(id, use) = Found(Looked(id, use).values)
  <1>1. /\ <<"ambiguous list">> \in Seq(Messages) /\ <<"list target disagrees">> \in Seq(Messages)
        /\ <<"table slot disagrees">> \in Seq(Messages) /\ <<"no contract">> \in Seq(Messages)
        /\ <<>> \in Seq(Messages)
    BY DEF Messages
  <1>2. \A values : /\ Found(values).ok = TRUE /\ Found(values).why = <<>>
                    /\ Found(values).values = values
    BY DEF Found
  <1>3. \A why : Failed(why).ok = FALSE /\ Failed(why).why = why
    BY DEF Failed
  <1>4. \/ \E values : Looked(id, use) = Found(values)
        \/ \E why \in Seq(Messages) : Looked(id, use) = Failed(why)
    BY <1>1, LookedIs
  <1> QED BY <1>1, <1>2, <1>3, <1>4

(* What the diagnostics of a contract say is what the contract means, with   *)
(* its targets seen from the use that it was looked up for.                  *)
LEMMA ContractMeaning ==
  ASSUME IInv, AtCall, diagnostics = <<>>, Call.indirect, Call.metadata # None, NEW use
  PROVE  LET found == Looked(Call.metadata, use)
             Behind == \A s \in Lists(Call.metadata) : ListSeen(s.set, use)
         IN /\ found.ok => /\ ContractMeans(Call.metadata) /\ Behind
                           /\ None \notin MayInvoke(Call) /\ found.values = MayInvoke(Call)
                           /\ ~(Lists(Call.metadata) = {} /\ Tables(Call.metadata) = {})
            /\ ~found.ok /\ found.why = <<>> =>
                  /\ ContractMeans(Call.metadata) /\ MayInvoke(Call) = {}
                  /\ Lists(Call.metadata) = {} /\ Tables(Call.metadata) = {}
            /\ ~found.ok /\ found.why # <<>> =>
                  ~(ContractMeans(Call.metadata) /\ None \notin MayInvoke(Call) /\ Behind)
  <1> DEFINE id == Call.metadata
             found == Looked(id, use)
             Behind == \A s \in Lists(id) : ListSeen(s.set, use)
  <1>1. \A values : Found(values).ok /\ Found(values).values = values
    BY DEF Found
  <1>2. \A why : Failed(why).ok = FALSE /\ Failed(why).why = why
    BY DEF Failed
  <1>3. /\ <<"ambiguous list">> # <<>> /\ <<"list target disagrees">> # <<>>
        /\ <<"table slot disagrees">> # <<>> /\ <<"no contract">> # <<>>
    OBVIOUS
  <1>4. CASE \E s, t \in Lists(id) : s # t
    <2>1. ~found.ok /\ found.why # <<>>
      BY <1>2, <1>3, <1>4, LookedIs
    <2>2. ~ContractMeans(id)
      BY <1>4 DEF ContractMeans
    <2> QED BY <2>1, <2>2
  <1>5. ASSUME NEW s, Lists(id) = {s}
        PROVE  /\ found.ok => ContractMeans(id) /\ Behind /\ None \notin MayInvoke(Call)
                              /\ found.values = MayInvoke(Call)
               /\ ~found.ok => found.why # <<>>
                               /\ ~(ContractMeans(id) /\ None \notin MayInvoke(Call) /\ Behind)
    <2>1. MayInvoke(Call) = Keys(s.set.targets)
      BY <1>5 DEF MayInvoke
    <2>2. (ContractMeans(id) <=> ListMeans(s.set)) /\ (Behind <=> ListSeen(s.set, use))
      BY <1>5 DEF ContractMeans
    <2>3. ListValid(s.set, use) <=> /\ ListMeans(s.set) /\ ListSeen(s.set, use)
                                    /\ None \notin Keys(s.set.targets)
      BY ListMeaning
    <2>4. found = IF ListValid(s.set, use) THEN Found(Keys(s.set.targets))
                  ELSE Failed(<<"list target disagrees">>)
      BY <1>5, LookedIs
    <2> HIDE DEF found, Behind
    <2> QED BY <1>1, <1>2, <1>3, <2>1, <2>2, <2>3, <2>4
  <1>6. CASE Lists(id) = {} /\ Tables(id) # {}
    <2>1. MayInvoke(Call) = Keys(FirstTable(id).slots)
      BY <1>6 DEF MayInvoke
    <2>2. (ContractMeans(id) <=> TableMeans(FirstTable(id))) /\ Behind
      BY <1>6 DEF ContractMeans
    <2>3. TableValid(FirstTable(id)) <=>
            TableMeans(FirstTable(id)) /\ None \notin Keys(FirstTable(id).slots)
      BY TableMeaning
    <2>4. found = IF TableValid(FirstTable(id)) THEN Found(Keys(FirstTable(id).slots))
                  ELSE Failed(<<"table slot disagrees">>)
      BY <1>6, LookedIs
    <2> HIDE DEF found, Behind
    <2> QED BY <1>1, <1>2, <1>3, <1>6, <2>1, <2>2, <2>3, <2>4 DEF found, Behind
  <1>7. CASE Lists(id) = {} /\ Tables(id) = {}
    <2>1. MayInvoke(Call) = {}
      BY <1>7 DEF MayInvoke
    <2>2. ContractMeans(id) <=> id \in DOMAIN Symbols /\ Symbols[id].kind = "CallPrototype"
      BY <1>7 DEF ContractMeans
    <2>3. found = IF id \in DOMAIN Symbols /\ Symbols[id].kind = "CallPrototype"
                  THEN Failed(<<>>) ELSE Failed(<<"no contract">>)
      BY <1>7, LookedIs
    <2> QED BY <1>2, <1>3, <1>7, <2>1, <2>2, <2>3
  <1>8. ASSUME NEW s, Lists(id) = {s} PROVE ~(Lists(id) = {} /\ Tables(id) = {})
    BY <1>8
  <1> QED BY <1>4, <1>5, <1>6, <1>7, <1>8, LookedIs

(* Of a list, the memo answers every use but the first. *)
LEMMA MemoServesOthers ==
  ASSUME IInv, AtCall, Call.indirect
  PROVE  /\ Call.metadata \in DOMAIN finite => ~Leads(at, call)
         /\ diagnostics = <<>> /\ Lists(Call.metadata) # {}
            /\ Call.metadata \notin DOMAIN finite => Leads(at, call)
  <1>1. /\ module \in Modules /\ at \in DOMAIN Functions /\ at \in Nat /\ call \in Nat
        /\ Call = Functions[at].body[call] /\ pc # "Functions"
    BY AtCallIs DEF AtCall
  <1>2. /\ DOMAIN Functions = 1 .. Len(Functions) /\ Len(Functions) \in Nat
        /\ \A k \in DOMAIN Functions : \A l \in Places(k) : l \in Nat
    BY <1>1, Shape
  <1>3. \A k, l : /\ k \in 1 .. at /\ ~Functions[k].is_prototype /\ l \in Places(k)
                  /\ k < at \/ l < call
                  <=> Passed(k, l)
    BY <1>1, <1>2 DEF Passed
  <1>4. ASSUME Call.metadata \in DOMAIN finite PROVE ~Leads(at, call)
    <2>1. PICK i \in Nat, j \in Nat : Passed(i, j) /\ Contracted(i, j, Call.metadata)
      BY <1>4 DEF IInv, ServedInv
    <2> QED BY <1>1, <1>3, <2>1 DEF Leads
  <1>5. ASSUME diagnostics = <<>>, Lists(Call.metadata) # {}, Call.metadata \notin DOMAIN finite
        PROVE  Leads(at, call)
    <2>1. ASSUME NEW k \in 1 .. at, ~Functions[k].is_prototype, NEW l \in Places(k),
                 k < at \/ l < call, Contracted(k, l, Call.metadata)
          PROVE  FALSE
      <3>1. Passed(k, l) /\ k \in Nat /\ l \in Nat
        BY <1>1, <1>2, <1>3, <2>1
      <3> QED BY <1>5, <2>1, <3>1 DEF IInv, ServedInv
    <2> QED BY <1>1, <2>1 DEF Leads
  <1> QED BY <1>4, <1>5

(* candidates() answers as a look does for some use, and with the meaning of *)
(* the call.                                                                 *)
LEMMA CandidatesAreMeant ==
  ASSUME IInv, AtCall, Call.ranged, Len(Call.direct) = 0, Call.indirect, Call.metadata # None
  PROVE  LET found == candidates(Call.metadata, Call.use)
         IN /\ found.ok \in BOOLEAN /\ found.why \in Seq(Messages)
            /\ \E use : found = Looked(Call.metadata, use)
            /\ diagnostics = <<>> =>
                 /\ found.ok => /\ Meaningful(at, call) /\ found.values = MayInvoke(Call)
                                /\ ~(Lists(Call.metadata) = {} /\ Tables(Call.metadata) = {})
                 /\ ~found.ok /\ found.why = <<>> =>
                       /\ Meaningful(at, call) /\ MayInvoke(Call) = {} /\ Opens(Call)
                       /\ Lists(Call.metadata) = {}
                 /\ ~found.ok /\ found.why # <<>> => ~Meaningful(at, call)
  <1> DEFINE id == Call.metadata
             found == candidates(id, Call.use)
             Behind(use) == \A s \in Lists(id) : ListSeen(s.set, use)
  <1>1. Call = Functions[at].body[call]
    BY AtCallIs
  <1>2. Meaningful(at, call) <=> /\ ContractMeans(id) /\ None \notin MayInvoke(Call)
                                 /\ Leads(at, call) => Behind(Call.use)
    BY <1>1 DEF Meaningful, Sees
  <1>3. CASE id \in DOMAIN finite
    <2>1. PICK use : Looked(id, use).ok /\ finite[id] = Looked(id, use).values
      BY <1>3 DEF IInv, MemoInv
    <2>2. found = Looked(id, use)
      BY <1>3, <2>1, LookAnswers DEF candidates
    <2>3. ~Leads(at, call)
      BY <1>3, MemoServesOthers
    <2>4. diagnostics = <<>> => /\ Meaningful(at, call) /\ found.values = MayInvoke(Call)
                                /\ ~(Lists(id) = {} /\ Tables(id) = {})
      BY <1>2, <2>1, <2>2, <2>3, ContractMeaning
    <2> HIDE DEF found
    <2> QED BY <2>1, <2>2, <2>4, LookAnswers DEF found
  <1>4. CASE id \notin DOMAIN finite
    <2>1. found = Looked(id, Call.use)
      BY <1>4 DEF candidates
    <2>2. diagnostics = <<>> =>
            (Meaningful(at, call) <=> /\ ContractMeans(id) /\ None \notin MayInvoke(Call)
                                      /\ Behind(Call.use))
      BY <1>2, <1>4, MemoServesOthers
    <2>3. diagnostics = <<>> =>
            /\ found.ok => /\ ContractMeans(id) /\ Behind(Call.use)
                           /\ None \notin MayInvoke(Call) /\ found.values = MayInvoke(Call)
                           /\ ~(Lists(id) = {} /\ Tables(id) = {})
            /\ ~found.ok /\ found.why = <<>> =>
                  /\ ContractMeans(id) /\ MayInvoke(Call) = {}
                  /\ Lists(id) = {} /\ Tables(id) = {}
            /\ ~found.ok /\ found.why # <<>> =>
                  ~(ContractMeans(id) /\ None \notin MayInvoke(Call) /\ Behind(Call.use))
      BY <2>1, ContractMeaning
    <2>4. found.ok \in BOOLEAN /\ found.why \in Seq(Messages)
      BY <2>1, LookAnswers
    <2>5. Lists(id) = {} => Behind(Call.use)
      OBVIOUS
    <2> HIDE DEF found, Behind
    <2> QED BY <2>1, <2>2, <2>3, <2>4, <2>5 DEF found, Opens
  <1> QED BY <1>3, <1>4

LEMMA AddIsExact ==
  ASSUME IInv, AtCall, diagnostics = <<>>, Add(MayInvoke(Call), Call.indirect),
         Call.indirect => ~(Lists(Call.metadata) = {} /\ Tables(Call.metadata) = {})
  PROVE  /\ \A e : e \in edges' <=>
                 e \in edges \/ (at \in Definitions
                                 /\ \E t \in MayInvoke(Call) \cap DefinedKeys : e = Edge(at, call, t))
         /\ has_open_boundaries' <=> has_open_boundaries \/ Opens(Call)
         /\ has_open_boundaries' \in BOOLEAN
  <1>1. /\ at \in DOMAIN Functions /\ Call = Functions[at].body[call]
        /\ ~Functions[at].is_prototype /\ Functions[at].is_entry \in BOOLEAN
    BY AtCallIs
  <1>2. DOMAIN definitions = DefinedKeys
        /\ \A i \in Definitions : Key(i) \in DOMAIN definitions
    BY MapsAreComplete DEF AtCall
  <1>3. Local <=> at \in Definitions
    BY <1>1, <1>2 DEF Local, Definitions, Defines, Function, Key
  <1>4. \A t : Edge(at, call, t) =
          [from |-> definitions[Function.canonical_function], to |-> definitions[t],
           range |-> <<at, call>>, candidate |-> Call.indirect]
    BY <1>1 DEF Edge, Key, Function
  <1>5. \A e : e \in EdgesTo(MayInvoke(Call), Call.indirect) <=>
          at \in Definitions /\ \E t \in MayInvoke(Call) \cap DefinedKeys : e = Edge(at, call, t)
    BY <1>2, <1>3, <1>4 DEF EdgesTo
  <1>6. Leaves(MayInvoke(Call)) <=> Opens(Call)
    BY <1>2 DEF Leaves, Opens
  <1> QED BY <1>5, <1>6 DEF Add, IInv, TypeInv

LEMMA ReportedBroken ==
  ASSUME IInv, NEW what \in Messages
  PROVE  Append(diagnostics, what) \in Seq(Messages) /\ Append(diagnostics, what) # <<>>
         /\ has_open_boundaries \in BOOLEAN
  BY Reported DEF IInv, TypeInv

LEMMA CallUnplacedInv == IInv /\ CallUnplaced => IInv'
  <1> SUFFICES ASSUME IInv, CallUnplaced PROVE IInv'
    OBVIOUS
  <1> USE DEF CallUnplaced
  <1>1. ~Meaningful(at, call)
    BY AtCallIs DEF Meaningful
  <1>2. "no owned source range" \in Messages
    BY DEF Messages
  <1>3. diagnostics' \in Seq(Messages) /\ diagnostics' # <<>> /\ has_open_boundaries \in BOOLEAN
    BY <1>2, ReportedBroken DEF Report
  <1>4. MemoInv'
    BY MemoKept DEF NextCall
  <1>5. Passes
    BY <1>1, <1>3, <1>4 DEF Passes
  <1> QED BY <1>5, PassesInv

LEMMA CallMalformedInv == IInv /\ CallMalformed => IInv'
  <1> SUFFICES ASSUME IInv, CallMalformed PROVE IInv'
    OBVIOUS
  <1> USE DEF CallMalformed
  <1>1. ~Meaningful(at, call)
    BY AtCallIs DEF Meaningful
  <1>2. "no valid target layout" \in Messages
    BY DEF Messages
  <1>3. diagnostics' \in Seq(Messages) /\ diagnostics' # <<>> /\ has_open_boundaries \in BOOLEAN
    BY <1>2, ReportedBroken DEF Report
  <1>4. MemoInv'
    BY MemoKept DEF NextCall
  <1>5. Passes
    BY <1>1, <1>3, <1>4 DEF Passes
  <1> QED BY <1>5, PassesInv

LEMMA CallDirectInv == IInv /\ CallDirect => IInv'
  <1> SUFFICES ASSUME IInv, CallDirect PROVE IInv'
    OBVIOUS
  <1> USE DEF CallDirect
  <1>1. MayInvoke(Call) = {canonical(Call.direct[1])} /\ Call.indirect = FALSE
    BY AtCallIs DEF MayInvoke
  <1>2. MemoInv'
    BY MemoKept DEF NextCall
  <1>3. Meaningful(at, call) <=> canonical(Call.direct[1]) # None
    BY <1>1, AtCallIs DEF Meaningful
  <1>4. CASE canonical(Call.direct[1]) # None
    <2>1. Add(MayInvoke(Call), Call.indirect) /\ diagnostics' = diagnostics
      BY <1>1, <1>4
    <2>2. diagnostics' \in Seq(Messages) /\ has_open_boundaries' \in BOOLEAN
      BY <2>1 DEF Add, IInv, TypeInv
    <2>3. Passes
      BY <1>1, <1>2, <1>3, <1>4, <2>1, <2>2, AddIsExact DEF Passes
    <2> QED BY <2>3, PassesInv
  <1>5. CASE canonical(Call.direct[1]) = None
    <2>1. "invalid direct target" \in Messages
      BY DEF Messages
    <2>2. diagnostics' \in Seq(Messages) /\ diagnostics' # <<>> /\ has_open_boundaries' \in BOOLEAN
      BY <1>5, <2>1, ReportedBroken DEF Report
    <2>3. Passes
      BY <1>2, <1>3, <1>5, <2>2 DEF Passes
    <2> QED BY <2>3, PassesInv
  <1> QED BY <1>4, <1>5

LEMMA CallOpenInv == IInv /\ CallOpen => IInv'
  <1> SUFFICES ASSUME IInv, CallOpen PROVE IInv'
    OBVIOUS
  <1> USE DEF CallOpen
  <1>1. Lists(None) = {} /\ Tables(None) = {}
    BY Shape DEF IInv, TypeInv, Lists, Sets, Tables
  <1>2. MayInvoke(Call) = {}
    BY <1>1 DEF MayInvoke
  <1>3. Meaningful(at, call) /\ Opens(Call)
    BY <1>1, <1>2, AtCallIs DEF Meaningful, ContractMeans, Sees, Opens
  <1>4. MemoInv'
    BY MemoKept DEF NextCall
  <1>5. diagnostics \in Seq(Messages)
    BY DEF IInv, TypeInv
  <1>6. Passes
    BY <1>1, <1>2, <1>3, <1>4, <1>5 DEF Passes
  <1> QED BY <1>6, PassesInv

LEMMA CallCandidatesInv == IInv /\ CallCandidates => IInv'
  <1> SUFFICES ASSUME IInv, CallCandidates PROVE IInv'
    OBVIOUS
  <1> USE DEF CallCandidates
  <1> DEFINE found == candidates(Call.metadata, Call.use)
  <1>1. /\ found.ok \in BOOLEAN /\ found.why \in Seq(Messages) /\ diagnostics \in Seq(Messages)
        /\ \E use : found = Looked(Call.metadata, use)
    BY CandidatesAreMeant DEF IInv, TypeInv
  <1>2. diagnostics = <<>> =>
          /\ found.ok => /\ Meaningful(at, call) /\ found.values = MayInvoke(Call)
                         /\ ~(Lists(Call.metadata) = {} /\ Tables(Call.metadata) = {})
          /\ ~found.ok /\ found.why = <<>> =>
                /\ Meaningful(at, call) /\ MayInvoke(Call) = {} /\ Opens(Call)
                /\ Lists(Call.metadata) = {}
          /\ ~found.ok /\ found.why # <<>> => ~Meaningful(at, call)
    BY CandidatesAreMeant
  <1>3. \A id, use : Looked(id, use)' = Looked(id, use)
    BY LookedKept DEF graph
  <1>4. AtCall /\ NextCall /\ UNCHANGED <<module, pc, graph, recursive_calls>>
        /\ Call.indirect = TRUE
    BY AtCallIs
  <1>5. CASE found.ok
    <2>1. /\ Add(found.values, TRUE) /\ diagnostics' = diagnostics
          /\ finite' = emplace(finite, Call.metadata, found.values)
      BY <1>5 DEF CandidateEdges
    <2> HIDE DEF CallCandidates, found
    <2>2. /\ DOMAIN finite' = DOMAIN finite \cup {Call.metadata}
          /\ \A id \in DOMAIN finite : finite'[id] = finite[id]
          /\ Call.metadata \notin DOMAIN finite => finite'[Call.metadata] = found.values
      BY <2>1 DEF emplace
    <2>3. MemoInv'
      <3>1. ASSUME NEW id \in DOMAIN finite'
            PROVE  \E use : Looked(id, use).ok /\ finite'[id] = Looked(id, use).values
        <4>1. CASE id \in DOMAIN finite
          BY <2>2, <4>1 DEF IInv, MemoInv
        <4>2. CASE id \notin DOMAIN finite
          BY <1>1, <1>5, <2>2, <3>1, <4>2
        <4> QED BY <4>1, <4>2
      <3> QED BY <1>3, <3>1 DEF MemoInv
    <2>4. has_open_boundaries' \in BOOLEAN
      BY <2>1 DEF Add, IInv, TypeInv
    <2>5. diagnostics = <<>> =>
            /\ \A e : e \in edges' <=>
                 e \in edges \/ (at \in Definitions
                                 /\ \E t \in MayInvoke(Call) \cap DefinedKeys : e = Edge(at, call, t))
            /\ has_open_boundaries' <=> has_open_boundaries \/ Opens(Call)
      BY <1>2, <1>4, <1>5, <2>1, AddIsExact
    <2>6. Passes
      BY <1>1, <1>2, <1>4, <1>5, <2>1, <2>2, <2>3, <2>4, <2>5 DEF Passes
    <2> QED BY <2>6, PassesInv
  <1>6. CASE ~found.ok
    <2>1. /\ diagnostics' = diagnostics \o found.why /\ has_open_boundaries' = TRUE
          /\ finite' = finite /\ edges' = edges
      BY <1>6
    <2> HIDE DEF CallCandidates, found
    <2>2. diagnostics' \in Seq(Messages)
          /\ (diagnostics' = <<>> <=> diagnostics = <<>> /\ found.why = <<>>)
      BY <1>1, <2>1, BothEmpty
    <2>3. MemoInv'
      BY <1>4, <2>1, MemoKept
    <2>4. Passes
      BY <1>1, <1>2, <1>4, <1>6, <2>1, <2>2, <2>3 DEF Passes
    <2> QED BY <2>4, PassesInv
  <1> QED BY <1>1, <1>5, <1>6

LEMMA WitnessesKept ==
  ASSUME owners' = owners, edges' = edges
  PROVE  Witnesses(Components(FALSE), Components(TRUE))'
         = Witnesses(Components(FALSE), Components(TRUE))
  <1>1. \A all, direct : Witnesses(all, direct)' = Witnesses(all, direct)
    BY DEF Witnesses, OnComponent
  <1>2. \A b : Followed(b)' = Followed(b)
    BY DEF Followed
  <1>3. \A b : Components(b)' = Components(b)
    BY <1>2 DEF Components, Vertices
  <1> QED BY <1>1, <1>3

LEMMA EndInv == IInv /\ (Refuse \/ Classify \/ Returned \/ UNCHANGED vars) => IInv'
  <1> SUFFICES ASSUME IInv, Refuse \/ Classify \/ Returned \/ UNCHANGED vars PROVE IInv'
    OBVIOUS
  <1>1. ASSUME Refuse \/ Classify PROVE IInv'
    <2> USE <1>1 DEF Refuse, Classify
    <2>1. KeepsGraph /\ pc = "Calls" /\ pc' = "Done" /\ at' = at /\ call' = call
          /\ diagnostics' = diagnostics
      BY DEF KeepsGraph
    <2>2. PassesNone
      BY <2>1, KeptFunctions DEF PassesNone, Passed
    <2>3. TypeInv'
      BY <2>1, KeptFunctions DEF IInv, TypeInv
    <2>5. Witnesses(Components(FALSE), Components(TRUE))'
          = Witnesses(Components(FALSE), Components(TRUE))
      BY <2>1, WitnessesKept DEF KeepsGraph, graph
    <2>6. ReportInv'
      BY <2>1, <2>5 DEF IInv, ReportInv
    <2> QED BY <2>1, <2>2, <2>3, <2>6, GraphKept, PassesNoneInv DEF IInv
  <1>2. ASSUME UNCHANGED vars PROVE IInv'
    <2> USE <1>2 DEF vars, graph
    <2>1. module' = module
      OBVIOUS
    <2>2. Seen' = Seen /\ Vertices' = Vertices
      BY KeptFunctions DEF Seen, Vertices
    <2>3. TypeInv' /\ SignaturesInv' /\ DefinitionsInv'
      BY <2>2, KeptFunctions DEF IInv, TypeInv, SignaturesInv, DefinitionsInv
    <2>4. \A i, j : Passed(i, j)' <=> Passed(i, j)
      BY KeptFunctions DEF Passed
    <2>5. Sound' <=> Sound
      BY <2>4, KeptFunctions, KeptCalls DEF Sound
    <2>6. DiagnosticsInv'
      BY <2>2, <2>5, KeptAgree DEF IInv, DiagnosticsInv
    <2>7. EdgesInv'
      BY <2>4, KeptFunctions, KeptCalls DEF IInv, EdgesInv, Edge
    <2>8. MemoInv' /\ ServedInv'
      BY <2>4, KeptCalls, MemoKept DEF IInv, ServedInv
    <2>9. Witnesses(Components(FALSE), Components(TRUE))'
          = Witnesses(Components(FALSE), Components(TRUE))
      BY WitnessesKept
    <2>10. StartInv' /\ ReportInv'
      BY <2>9 DEF IInv, StartInv, ReportInv
    <2> QED BY <2>3, <2>6, <2>7, <2>8, <2>10 DEF IInv
  <1> QED BY <1>1, <1>2 DEF Returned

LEMMA NextInv == IInv /\ [Next]_vars => IInv'
  BY RegisterEntryInv, RegisterInvalidInv, RegisterInv, RegisteredInv, SkipFunctionInv,
     CallUnplacedInv, CallDirectInv, CallOpenInv, CallCandidatesInv, CallMalformedInv, EndInv
  DEF Next

-----------------------------------------------------------------------------
(* Reachability in the graph and in the module *)

LEMMA ReachesAnEdge ==
  ASSUME NEW V, NEW E, NEW u \in V, NEW v \in V, <<u, v>> \in E
  PROVE  Reaches(V, E, u, v)
  <1>1. <<u, v>> \in Within(V, E)
    BY DEF Within
  <1> QED BY <1>1 DEF Reaches, Closed

LEMMA ReachesOn ==
  ASSUME NEW V, NEW E, NEW u, NEW w, NEW v, Reaches(V, E, u, w), Reaches(V, E, w, v)
  PROVE  Reaches(V, E, u, v)
  BY DEF Reaches

(* What one graph reaches, a graph that it maps into reaches. *)
LEMMA ReachesMapped ==
  ASSUME NEW V, NEW E, NEW W, NEW F, NEW f, \A x \in V : f[x] \in W,
         \A x, y \in V : <<x, y>> \in E => <<f[x], f[y]>> \in F,
         NEW u \in V, NEW v \in V, Reaches(V, E, u, v)
  PROVE  Reaches(W, F, f[u], f[v])
  <1> SUFFICES ASSUME NEW S \in SUBSET W, f[u] \in S, Closed(S, Within(W, F)) PROVE f[v] \in S
    BY DEF Reaches
  <1> DEFINE T == {x \in V : f[x] \in S}
  <1>1. Closed(T, Within(V, E))
    <2> SUFFICES ASSUME NEW e \in Within(V, E), e[1] \in T PROVE e[2] \in T
      BY DEF Closed
    <2>1. e[1] \in V /\ e[2] \in V /\ <<e[1], e[2]>> \in E
      BY DEF Within
    <2>2. <<f[e[1]], f[e[2]]>> \in Within(W, F)
      BY <2>1 DEF Within
    <2>3. f[e[2]] \in S
      BY <2>2 DEF Closed
    <2> QED BY <2>1, <2>3
  <1>2. T \in SUBSET V /\ u \in T
    OBVIOUS
  <1>3. v \in T
    <2> HIDE DEF T
    <2> QED BY <1>1, <1>2 DEF Reaches
  <1> QED BY <1>3

(* When the analysis ends without a diagnostic, every call is an edge. *)
LEMMA AllPassed ==
  ASSUME IInv, Accepted
  PROVE  /\ \A i, j : Passed(i, j) <=> /\ i \in DOMAIN Functions /\ j \in Places(i)
                                       /\ ~Functions[i].is_prototype
         /\ \A i, j : Passed(i, j) => i \in Nat /\ j \in Nat
         /\ DOMAIN definitions = DefinedKeys
         /\ \A i \in Definitions : /\ i \in DOMAIN Functions /\ ~Functions[i].is_prototype
                                   /\ Key(i) \in DefinedKeys
                                   /\ owners[definitions[Key(i)]] = i
         /\ \A k \in DefinedKeys :
              definitions[k] \in Vertices /\ Key(owners[definitions[k]]) = k
         /\ \A v \in Vertices :
              Key(owners[v]) \in DefinedKeys /\ definitions[Key(owners[v])] = v
  <1>1. pc = "Done" /\ diagnostics = <<>> /\ at > Len(Functions) /\ at \in Nat /\ module \in Modules
    BY DEF Accepted, IInv, TypeInv
  <1>2. Len(Functions) \in Nat /\ DOMAIN Functions = 1 .. Len(Functions)
    BY <1>1, Shape
  <1>3. \A i, j : i \in DOMAIN Functions /\ j \in Places(i) => i \in Nat /\ i < at /\ j \in Nat
    BY <1>1, <1>2, Shape
  <1>4. \A i, j : Passed(i, j) <=> /\ i \in DOMAIN Functions /\ j \in Places(i)
                                   /\ ~Functions[i].is_prototype
    BY <1>1, <1>3 DEF Passed
  <1>5. DOMAIN definitions = DefinedKeys
        /\ \A i \in Definitions : owners[definitions[Key(i)]] = i
    BY <1>1, MapsAreComplete
  <1>6. \A i \in Definitions : /\ i \in DOMAIN Functions /\ ~Functions[i].is_prototype
                               /\ Key(i) \in DefinedKeys
    BY DEF Definitions, Defines, DefinedKeys, Key
  <1> QED BY <1>3, <1>4, <1>5, <1>6 DEF IInv, DefinitionsInv

LEMMA EdgesAreCalls ==
  ASSUME IInv, Accepted
  PROVE  /\ \A e \in edges : \E i \in Definitions : \E j \in Places(i) :
              \E t \in MayInvoke(Functions[i].body[j]) \cap DefinedKeys : e = Edge(i, j, t)
         /\ \A i \in Definitions : \A j \in Places(i) :
              \A t \in MayInvoke(Functions[i].body[j]) \cap DefinedKeys : Edge(i, j, t) \in edges
  <1>1. EdgesInv /\ diagnostics = <<>>
    BY DEF IInv, Accepted
  <1>2. ASSUME NEW e \in edges
        PROVE  \E i \in Definitions : \E j \in Places(i) :
                 \E t \in MayInvoke(Functions[i].body[j]) \cap DefinedKeys : e = Edge(i, j, t)
    <2>1. PICK i, j \in Nat : \E t \in DefinedKeys :
            /\ Passed(i, j) /\ i \in Definitions
            /\ t \in MayInvoke(Functions[i].body[j]) /\ e = Edge(i, j, t)
      BY <1>1 DEF EdgesInv
    <2> QED BY <2>1, AllPassed
  <1>3. ASSUME NEW i \in Definitions, NEW j \in Places(i),
               NEW t \in MayInvoke(Functions[i].body[j]) \cap DefinedKeys
        PROVE  Edge(i, j, t) \in edges
    <2>1. Passed(i, j) /\ i \in Nat /\ j \in Nat
      BY AllPassed
    <2> QED BY <1>1, <2>1 DEF EdgesInv
  <1> QED BY <1>2, <1>3

LEMMA EdgeParts ==
  ASSUME NEW i, NEW j, NEW t
  PROVE  /\ Edge(i, j, t).from = definitions[Key(i)] /\ Edge(i, j, t).to = definitions[t]
         /\ Edge(i, j, t).range = <<i, j>>
         /\ Edge(i, j, t).candidate = Functions[i].body[j].indirect
  BY DEF Edge

LEMMA GraphIsModule ==
  ASSUME IInv, Accepted, NEW b \in BOOLEAN
  PROVE  \A x, y \in DefinedKeys :
           <<x, y>> \in Invokes(b) <=> <<definitions[x], definitions[y]>> \in Followed(b)
  <1> TAKE x, y \in DefinedKeys
  <1>1. ASSUME <<x, y>> \in Invokes(b)
        PROVE  <<definitions[x], definitions[y]>> \in Followed(b)
    <2>1. PICK i \in Definitions : \E j \in Places(i) :
            /\ b => ~Functions[i].body[j].indirect
            /\ x = Key(i) /\ y \in MayInvoke(Functions[i].body[j])
      BY <1>1 DEF Invokes, Key
    <2>2. PICK j \in Places(i) :
            /\ b => ~Functions[i].body[j].indirect
            /\ x = Key(i) /\ y \in MayInvoke(Functions[i].body[j])
      BY <2>1
    <2>3. Edge(i, j, y) \in edges
      BY <2>2, EdgesAreCalls
    <2> QED BY <2>2, <2>3, EdgeParts DEF Followed
  <1>2. ASSUME <<definitions[x], definitions[y]>> \in Followed(b)
        PROVE  <<x, y>> \in Invokes(b)
    <2>1. PICK e \in edges : /\ ~b \/ ~e.candidate
                             /\ e.from = definitions[x] /\ e.to = definitions[y]
      BY <1>2 DEF Followed
    <2>2. PICK i \in Definitions : \E j \in Places(i) :
            \E t \in MayInvoke(Functions[i].body[j]) \cap DefinedKeys : e = Edge(i, j, t)
      BY EdgesAreCalls
    <2> PICK j \in Places(i) :
          \E t \in MayInvoke(Functions[i].body[j]) \cap DefinedKeys : e = Edge(i, j, t)
      BY <2>2
    <2>3. PICK t \in MayInvoke(Functions[i].body[j]) \cap DefinedKeys : e = Edge(i, j, t)
      OBVIOUS
    <2>4. definitions[Key(i)] = definitions[x] /\ definitions[t] = definitions[y]
          /\ (b => ~Functions[i].body[j].indirect)
      BY <2>1, <2>3, EdgeParts
    <2>5. Key(i) = x /\ t = y
      BY <2>4, AllPassed
    <2> QED BY <2>3, <2>4, <2>5 DEF Invokes, Key
  <1> QED BY <1>1, <1>2

LEMMA ReachesInBoth ==
  ASSUME IInv, Accepted, NEW b \in BOOLEAN, NEW x \in DefinedKeys, NEW y \in DefinedKeys
  PROVE  Reaches(Vertices, Followed(b), definitions[x], definitions[y])
         <=> Reaches(DefinedKeys, Invokes(b), x, y)
  <1> DEFINE g == [v \in Vertices |-> Key(owners[v])]
  <1>1. /\ \A k \in DefinedKeys : definitions[k] \in Vertices /\ g[definitions[k]] = k
        /\ \A v \in Vertices : g[v] \in DefinedKeys /\ definitions[g[v]] = v
    BY AllPassed
  <1>2. \A k, l \in DefinedKeys :
           <<k, l>> \in Invokes(b) => <<definitions[k], definitions[l]>> \in Followed(b)
    BY GraphIsModule
  <1>3. \A v, w \in Vertices : <<v, w>> \in Followed(b) => <<g[v], g[w]>> \in Invokes(b)
    <2> HIDE DEF g
    <2> QED BY <1>1, GraphIsModule
  <1>4. definitions[x] \in Vertices /\ definitions[y] \in Vertices
        /\ g[definitions[x]] = x /\ g[definitions[y]] = y
    BY <1>1
  <1> HIDE DEF g
  <1>5. Reaches(DefinedKeys, Invokes(b), x, y)
        => Reaches(Vertices, Followed(b), definitions[x], definitions[y])
    BY <1>1, <1>2, ReachesMapped
  <1>6. Reaches(Vertices, Followed(b), definitions[x], definitions[y])
        => Reaches(DefinedKeys, Invokes(b), g[definitions[x]], g[definitions[y]])
    BY <1>1, <1>3, <1>4, ReachesMapped
  <1> QED BY <1>4, <1>5, <1>6

(* An edge lies within a component when its end reaches its start. *)
LEMMA OnComponentIsCycle ==
  ASSUME IInv, Accepted, NEW b \in BOOLEAN, NEW i \in Definitions, NEW j \in Places(i),
         NEW t \in MayInvoke(Functions[i].body[j]) \cap DefinedKeys,
         b => ~Functions[i].body[j].indirect
  PROVE  Components(b)[Edge(i, j, t).from] = Components(b)[Edge(i, j, t).to]
         <=> Reaches(DefinedKeys, Invokes(b), t, Key(i))
  <1> DEFINE u == definitions[Key(i)]
             v == definitions[t]
  <1>1. u \in Vertices /\ v \in Vertices /\ Key(i) \in DefinedKeys /\ t \in DefinedKeys
    BY AllPassed
  <1>2. <<u, v>> \in Followed(b)
    <2>1. Edge(i, j, t) \in edges
      BY EdgesAreCalls
    <2> QED BY <2>1, EdgeParts DEF Followed
  <1>3. Reaches(Vertices, Followed(b), u, v)
    BY <1>1, <1>2, ReachesAnEdge
  <1>4. Reaches(Vertices, Followed(b), v, u) <=> Reaches(DefinedKeys, Invokes(b), t, Key(i))
    BY <1>1, ReachesInBoth
  <1>5. Components(b)[u] = Components(b)[v] <=> Mutual(Vertices, Followed(b), u, v)
    <2> HIDE DEF u, v
    <2>1. Components(b)[u] = {w \in Vertices : Mutual(Vertices, Followed(b), u, w)}
          /\ Components(b)[v] = {w \in Vertices : Mutual(Vertices, Followed(b), v, w)}
      BY <1>1 DEF Components
    <2>2. Mutual(Vertices, Followed(b), v, v)
      BY DEF Mutual, Reaches
    <2>3. Mutual(Vertices, Followed(b), u, v) =>
            \A w : Mutual(Vertices, Followed(b), u, w) <=> Mutual(Vertices, Followed(b), v, w)
      BY ReachesOn DEF Mutual
    <2> QED BY <1>1, <2>1, <2>2, <2>3
  <1> QED BY <1>3, <1>4, <1>5, EdgeParts DEF Mutual

-----------------------------------------------------------------------------
(* The results *)

(* IInv holds from the first function to the end of the analysis. *)
THEOREM CallGraphInvariant == Spec => []IInv
  BY InitInv, NextInv, PTL DEF Spec

LEMMA WitnessIs ==
  ASSUME IInv, Accepted
  PROVE  recursive_calls =
           {[function |-> owners[e.from], range |-> e.range,
             possible |-> e.candidate \/ Components(TRUE)[e.from] # Components(TRUE)[e.to]] :
              e \in {d \in edges : Components(FALSE)[d.from] = Components(FALSE)[d.to]}}
  BY DEF IInv, ReportInv, Accepted, Witnesses, OnComponent

(* Every report is of a call, and says what the search said of its edge. *)
LEMMA ReportIs ==
  ASSUME IInv, Accepted, NEW w \in recursive_calls
  PROVE  \E i \in Definitions : \E j \in Places(i) :
           \E t \in MayInvoke(Functions[i].body[j]) \cap DefinedKeys :
             /\ w.function = i /\ w.range = <<i, j>>
             /\ Reaches(DefinedKeys, Invokes(FALSE), t, Key(i))
             /\ w.possible <=>
                  Functions[i].body[j].indirect
                    \/ Components(TRUE)[Edge(i, j, t).from] # Components(TRUE)[Edge(i, j, t).to]
  <1>1. PICK e \in edges :
          /\ Components(FALSE)[e.from] = Components(FALSE)[e.to]
          /\ w.function = owners[e.from] /\ w.range = e.range
          /\ w.possible = (e.candidate \/ Components(TRUE)[e.from] # Components(TRUE)[e.to])
    <2>1. PICK e \in {d \in edges : Components(FALSE)[d.from] = Components(FALSE)[d.to]} :
            w = [function |-> owners[e.from], range |-> e.range,
                 possible |-> e.candidate \/ Components(TRUE)[e.from] # Components(TRUE)[e.to]]
      BY WitnessIs, Zenon
    <2> QED BY <2>1, Zenon
  <1>2. PICK i \in Definitions : \E j \in Places(i) :
          \E t \in MayInvoke(Functions[i].body[j]) \cap DefinedKeys : e = Edge(i, j, t)
    BY EdgesAreCalls
  <1> PICK j \in Places(i) :
        \E t \in MayInvoke(Functions[i].body[j]) \cap DefinedKeys : e = Edge(i, j, t)
    BY <1>2
  <1>3. PICK t \in MayInvoke(Functions[i].body[j]) \cap DefinedKeys : e = Edge(i, j, t)
    OBVIOUS
  <1>4. owners[e.from] = i /\ e.range = <<i, j>>
        /\ e.candidate = Functions[i].body[j].indirect
    BY <1>3, EdgeParts, AllPassed
  <1>5. Reaches(DefinedKeys, Invokes(FALSE), t, Key(i))
    BY <1>1, <1>3, OnComponentIsCycle
  <1>6. w.possible <=> Functions[i].body[j].indirect
                       \/ Components(TRUE)[Edge(i, j, t).from] # Components(TRUE)[Edge(i, j, t).to]
    BY <1>1, <1>3, <1>4, Zenon
  <1>7. w.function = i /\ w.range = <<i, j>>
    BY <1>1, <1>4
  <1> QED BY <1>5, <1>6, <1>7, Zenon

(* A call is reported exactly when it lies on a cycle of the functions that  *)
(* the module defines.                                                       *)
THEOREM ReportsTheCycles == Spec => []ReportsAreCycles
  <1>1. IInv => ReportsAreCycles
    <2> SUFFICES ASSUME IInv, Accepted
                 PROVE  {<<w.function, w.range>> : w \in recursive_calls} =
                        UNION {{<<i, <<i, j>>>> : j \in {k \in Places(i) : OnCycle(i, k, FALSE)}} :
                                 i \in Definitions}
      BY DEF ReportsAreCycles
    <2>1. ASSUME NEW w \in recursive_calls
          PROVE  \E i \in Definitions : \E j \in Places(i) :
                   OnCycle(i, j, FALSE) /\ <<w.function, w.range>> = <<i, <<i, j>>>>
      BY ReportIs DEF OnCycle, Key
    <2>2. ASSUME NEW i \in Definitions, NEW j \in Places(i), OnCycle(i, j, FALSE)
          PROVE  \E w \in recursive_calls : <<w.function, w.range>> = <<i, <<i, j>>>>
      <3>1. PICK t \in MayInvoke(Functions[i].body[j]) \cap DefinedKeys :
              Reaches(DefinedKeys, Invokes(FALSE), t, Key(i))
        BY <2>2 DEF OnCycle, Key
      <3> DEFINE e == Edge(i, j, t)
                 w == [function |-> owners[e.from], range |-> e.range,
                       possible |-> e.candidate
                                    \/ Components(TRUE)[e.from] # Components(TRUE)[e.to]]
      <3>2. e \in edges /\ Components(FALSE)[e.from] = Components(FALSE)[e.to]
        BY <3>1, EdgesAreCalls, OnComponentIsCycle
      <3>3. w \in recursive_calls
        <4> HIDE DEF e
        <4> QED BY <3>2, WitnessIs
      <3>4. w.function = i /\ w.range = <<i, j>>
        BY EdgeParts, AllPassed
      <3> HIDE DEF w
      <3> QED BY <3>3, <3>4
    <2> DEFINE calls(i) == {k \in Places(i) : OnCycle(i, k, FALSE)}
               reported == {<<w.function, w.range>> : w \in recursive_calls}
               cycles == UNION {{<<i, <<i, j>>>> : j \in calls(i)} : i \in Definitions}
    <2>3. ASSUME NEW x \in reported PROVE x \in cycles
      <3>1. PICK w \in recursive_calls : x = <<w.function, w.range>>
        BY <2>3
      <3>2. PICK i \in Definitions : \E j \in Places(i) :
              OnCycle(i, j, FALSE) /\ x = <<i, <<i, j>>>>
        BY <2>1, <3>1
      <3>3. PICK j \in Places(i) : OnCycle(i, j, FALSE) /\ x = <<i, <<i, j>>>>
        BY <3>2
      <3>4. x \in {<<i, <<i, k>>>> : k \in calls(i)}
        BY <3>3
      <3> HIDE DEF calls
      <3> QED BY <3>4
    <2>4. ASSUME NEW x \in cycles PROVE x \in reported
      <3>1. PICK i \in Definitions : x \in {<<i, <<i, j>>>> : j \in calls(i)}
        BY <2>4
      <3>2. PICK j \in Places(i) : OnCycle(i, j, FALSE) /\ x = <<i, <<i, j>>>>
        BY <3>1
      <3>3. PICK w \in recursive_calls : <<w.function, w.range>> = x
        BY <2>2, <3>2
      <3> QED BY <3>3
    <2> HIDE DEF reported, cycles
    <2>5. reported = cycles
      BY <2>3, <2>4
    <2> QED BY <2>5 DEF reported, cycles
  <1> QED BY <1>1, CallGraphInvariant, PTL

(* Recursion is reported as certain exactly when direct calls alone close    *)
(* the cycle.                                                                *)
THEOREM CertainRecursionIsDirect == Spec => []CertainIsDirect
  <1>1. IInv => CertainIsDirect
    <2> SUFFICES ASSUME IInv, Accepted, NEW w \in recursive_calls
                 PROVE  LET j == w.range[2]
                        IN ~w.possible <=> /\ ~Functions[w.function].body[j].indirect
                                           /\ OnCycle(w.function, j, TRUE)
      BY DEF CertainIsDirect
    <2>1. PICK i \in Definitions : \E j \in Places(i) :
           \E t \in MayInvoke(Functions[i].body[j]) \cap DefinedKeys :
             /\ w.function = i /\ w.range = <<i, j>>
             /\ w.possible <=>
                  Functions[i].body[j].indirect
                    \/ Components(TRUE)[Edge(i, j, t).from] # Components(TRUE)[Edge(i, j, t).to]
      BY ReportIs
    <2>2. PICK j \in Places(i) :
           \E t \in MayInvoke(Functions[i].body[j]) \cap DefinedKeys :
             /\ w.function = i /\ w.range = <<i, j>>
             /\ w.possible <=>
                  Functions[i].body[j].indirect
                    \/ Components(TRUE)[Edge(i, j, t).from] # Components(TRUE)[Edge(i, j, t).to]
      BY <2>1
    <2>3. PICK t \in MayInvoke(Functions[i].body[j]) \cap DefinedKeys :
             /\ w.function = i /\ w.range = <<i, j>>
             /\ w.possible <=>
                  Functions[i].body[j].indirect
                    \/ Components(TRUE)[Edge(i, j, t).from] # Components(TRUE)[Edge(i, j, t).to]
      BY <2>2
    <2>4. ASSUME ~Functions[i].body[j].indirect
          PROVE  Components(TRUE)[Edge(i, j, t).from] = Components(TRUE)[Edge(i, j, t).to]
                 <=> OnCycle(i, j, TRUE)
      <3>1. MayInvoke(Functions[i].body[j]) = {t}
        BY <2>4 DEF MayInvoke
      <3>2. Components(TRUE)[Edge(i, j, t).from] = Components(TRUE)[Edge(i, j, t).to]
            <=> Reaches(DefinedKeys, Invokes(TRUE), t, Key(i))
        BY <2>4, OnComponentIsCycle
      <3> QED BY <3>1, <3>2 DEF OnCycle, Key
    <2>5. w.range[2] = j
      BY <2>3
    <2> QED BY <2>3, <2>4, <2>5
  <1> QED BY <1>1, CallGraphInvariant, PTL

(* The analysis says that calls may leave the module exactly when a body has *)
(* a call that may.                                                          *)
THEOREM OpenBoundariesAreTold == Spec => []OpenIsOpen
  <1>1. IInv => OpenIsOpen
    <2> SUFFICES ASSUME IInv, Accepted
                 PROVE  has_open_boundaries <=>
                          \E i \in DOMAIN Functions : ~Functions[i].is_prototype /\
                            \E j \in Places(i) : Opens(Functions[i].body[j])
      BY DEF OpenIsOpen, Opens
    <2>1. EdgesInv /\ diagnostics = <<>>
      BY DEF IInv, Accepted
    <2>2. has_open_boundaries <=>
            \E i, j \in Nat : Passed(i, j) /\ Opens(Functions[i].body[j])
      BY <2>1 DEF EdgesInv
    <2> QED BY <2>2, AllPassed
  <1> QED BY <1>1, CallGraphInvariant, PTL

(* The analysis accepts exactly the modules whose functions and calls mean   *)
(* something, and reports recursion of no other.                             *)
THEOREM AcceptsTheConsistent == Spec => []OnlyConsistent
  <1>1. IInv => OnlyConsistent
    <2> SUFFICES ASSUME IInv, pc = "Done"
                 PROVE  /\ diagnostics = <<>> <=> Consistent
                        /\ recursive_calls # {} => Consistent
      BY DEF OnlyConsistent
    <2>1. /\ at > Len(Functions) /\ at \in Nat /\ Len(Functions) \in Nat
          /\ DOMAIN Functions = 1 .. Len(Functions) /\ module \in Modules
      BY Shape DEF IInv, TypeInv
    <2>2. \A i, j : Passed(i, j) <=> /\ i \in DOMAIN Functions /\ j \in Places(i)
                                     /\ ~Functions[i].is_prototype
      BY <2>1 DEF Passed
    <2>3. \A i, j : i \in DOMAIN Functions /\ j \in Places(i) => i \in Nat /\ j \in Nat
      BY <2>1, Shape
    <2>4. Sound <=> \A i \in DOMAIN Functions : ~Functions[i].is_prototype =>
                      \A j \in Places(i) : Meaningful(i, j)
      BY <2>2, <2>3 DEF Sound
    <2>5. Seen = DOMAIN Functions
      BY DEF Seen
    <2>6. Consistent <=> Agree(Seen) /\ Sound
      BY <2>4, <2>5 DEF Consistent, Agree, Alike, Key
    <2>7. diagnostics = <<>> <=> Consistent
      BY <2>6 DEF IInv, DiagnosticsInv
    <2> QED BY <2>7 DEF IInv, ReportInv
  <1> QED BY <1>1, CallGraphInvariant, PTL
=============================================================================
