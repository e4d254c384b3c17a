-------------------------- MODULE MCModulePipeline --------------------------
(* Small modules, by families that each vary what one phase decides on. *)
EXTENDS ModuleHolder

(* Numbers and expressions *)
Dec(n) == [form |-> "dec", value |-> n]
Hex(n) == [form |-> "hex", value |-> n]
Lit(n) == [node |-> "Literal", kind |-> "Integer", text |-> Dec(n)]
HexLit(n) == [node |-> "Literal", kind |-> "Integer", text |-> Hex(n)]
ULit(n) == [node |-> "Literal", kind |-> "Integer", text |-> [form |-> "u", value |-> n]]
Real(a, b) == [node |-> "Literal", kind |-> "Float", value |-> Some(<<a, b>>)]
F32Hex == [node |-> "Literal", kind |-> "F32", prefixed |-> FALSE]
Sym(name) == [node |-> "Symbol", name |-> name]
Neg(e) == [node |-> "Unary", operation |-> "-", operand |-> e]
Op(operation, left, right) ==
  [node |-> "Binary", operation |-> operation, left |-> left, right |-> right]
Generic(e) == [node |-> "Call", callee |-> Sym(GenericName), argument |-> e]
If(c, a, b) == [node |-> "Conditional", condition |-> c, true |-> a, false |-> b]

Of(e) == [form |-> "Value", value |-> e]
Braces(elements) == [form |-> "List", elements |-> elements]
Named(name, e) == [form |-> "Named", name |-> name, value |-> e]

(* Directives *)
Version(v) == [kind |-> "Version", value |-> Some(v)]
BadVersion == [kind |-> "Version", value |-> None]
AddressSize(n) == [kind |-> "AddressSize", bits |-> Dec(n)]
Sm(n) == <<"sm", n, "">>
Target(targets) == [kind |-> "Target", targets |-> targets]
Alias(alias, aliasee) == [kind |-> "Alias", alias |-> alias, aliasee |-> aliasee]

(* Declarations *)
Declarator(name) == [name |-> name, count |-> None, dimensions |-> <<>>, initializer |-> None]
Variables(space, type, declarators) ==
  [kind |-> "Variable", space |-> space, type |-> type, vector |-> None, alignment |-> None,
   qualifiers |-> <<>>, legacy_texture |-> FALSE, attributes |-> <<>>, declarators |-> declarators]
Var(space, type, name) == Variables(space, type, <<Declarator(name)>>)
Array(space, type, name, dimensions) ==
  Variables(space, type, <<[Declarator(name) EXCEPT !.dimensions = dimensions]>>)
Init1(space, type, name, initializer) ==
  Variables(space, type, <<[Declarator(name) EXCEPT !.initializer = Some(initializer)]>>)
InitArray(space, type, name, dimensions, initializer) ==
  Variables(space, type, <<[Declarator(name) EXCEPT !.initializer = Some(initializer),
                                                    !.dimensions = dimensions]>>)
Group(type, name, count) ==
  Variables("Register", type, <<[Declarator(name) EXCEPT !.count = Some(Dec(count))]>>)

Param(space, type, name) ==
  [name |-> name, space |-> space, type |-> type, vector |-> None, alignment |-> None,
   is_pointer |-> FALSE, pointer_space |-> None, pointer_alignment |-> None, dimensions |-> <<>>]
ArrayParam(type, name, dimensions) == [Param("Parameter", type, name) EXCEPT !.dimensions = dimensions]
Func(name, returns, parameters, body) ==
  [kind |-> "Function", name |-> name, is_entry |-> FALSE, is_prototype |-> FALSE,
   is_noreturn |-> FALSE, qualifiers |-> <<>>, returns |-> returns, parameters |-> parameters,
   resources |-> <<>>, attributes |-> <<>>, abi_preserve |-> None, abi_preserve_control |-> None,
   blocks_are_clusters |-> FALSE, language |-> None, body |-> body]
Entry(name, parameters, body) == [Func(name, <<>>, parameters, body) EXCEPT !.is_entry = TRUE]
Declares(function) == [function EXCEPT !.is_prototype = TRUE, !.body = <<>>]
Extern(item) == [item EXCEPT !.qualifiers = <<".extern">>]
Weak(item) == [item EXCEPT !.qualifiers = <<".weak">>]

(* Bodies *)
Label(name) == [kind |-> "Label", name |-> name]
Block(body) == [kind |-> "Block", body |-> body]
Prototype(name, returns, parameters) ==
  [kind |-> "CallPrototype", name |-> name, is_entry |-> FALSE, is_noreturn |-> FALSE,
   returns |-> returns, parameters |-> parameters, abi_preserve |-> None,
   abi_preserve_control |-> None]
CallTargets(name, targets) == [kind |-> "CallTargets", name |-> name, targets |-> targets]
To(name) == [name |-> name, count |-> None]
Compact(name, count) == [name |-> name, count |-> Some(Dec(count))]
BranchTargets(name, targets) == [kind |-> "BranchTargets", name |-> name, targets |-> targets]
Indexed(list) == [kind |-> "Indexed", list |-> list]
Other == [kind |-> "Other"]

(* Instructions *)
Arg(name) == [form |-> "Name", name |-> name]
MemberArg(name, component) == [form |-> "Member", name |-> name, component |-> component]
LiteralArg(e) == [form |-> "Literal", value |-> e]
CallThrough(target, metadata, returns, inputs) ==
  [kind |-> "Call", target |-> target, metadata |-> metadata, returns |-> returns,
   inputs |-> inputs, predicate |-> None]
CallOf(target, returns, inputs) == CallThrough(target, None, returns, inputs)
Access(kind, base) ==
  [kind |-> kind, space |-> "Parameter", qualifier |-> "None", base |-> base, offset |-> 0,
   index |-> None, predicate |-> None]
Store(base) == Access("Store", base)
Load(base) == Access("Load", base)
When1(predicate, instruction) == [instruction EXCEPT !.predicate = Some(predicate)]
Branch(target) == [kind |-> "Branch", target |-> target]

-----------------------------------------------------------------------------

f == <<"f">> g == <<"g">> h == <<"h">> k == <<"k">>
a == <<"a">> b == <<"b">> c == <<"c">> d == <<"d">> e == <<"e">>
p == <<"p">> r == <<"r">> t == <<"t">> v == <<"v">> m == <<"m">> x == <<"x">>
L0 == <<"L", "0">> L1 == <<"L", "1">> LL == <<"L">>

Modern78 == <<Version(78), Target(<<Sm(80)>>)>>
Early == <<Version(13), Target(<<Sm(10)>>)>>
UpTo(n, S) == UNION {[1 .. i -> S] : i \in 0 .. n}

-----------------------------------------------------------------------------
(* Direct calls: one formal, one argument, and where the callee stands *)

Formals ==
  {Param("Register", ".u32", a), Param("Register", ".f32", a), Param("Parameter", ".u32", a),
   [Param("Register", ".u32", a) EXCEPT !.vector = Some(".v2")], Param("Register", ".pred", a),
   Param("Register", ".f16x2", a),
   ArrayParam(".b8", a, <<Some(Lit(4))>>), ArrayParam(".b8", a, <<None>>)}

Locals ==
  <<Var("Register", ".u32", r), Var("Parameter", ".u32", p), Var("Register", ".pred", x),
    [Var("Register", ".u32", v) EXCEPT !.vector = Some(".v2")],
    Array("Parameter", ".b8", b, <<Some(Lit(4))>>)>>

Arguments ==
  {Arg(r), Arg(p), Arg(b), Arg(v), Arg(m), Arg(c), Arg(x), MemberArg(v, ".y"), MemberArg(v, ".w"),
   MemberArg(r, ".x"), LiteralArg(Lit(5)), LiteralArg(Neg(Lit(5))), LiteralArg(F32Hex),
   LiteralArg(Op("/", Lit(5), Lit(0)))}

DirectCalls ==
  UNION {
    LET callee == Func(f, <<>>, <<formal>>, <<>>)
        Caller(body) == Func(g, <<>>, <<Param("Parameter", ".u32", c)>>, Locals \o body)
    IN {Modern78 \o <<callee, Caller(<<CallOf(f, None, Some(<<argument>>))>>)>> :
          argument \in Arguments}
       \cup {Modern78 \o <<callee, Caller(<<CallOf(f, None, inputs)>>)>> :
               inputs \in {None, Some(<<>>), Some(<<Arg(r), Arg(r)>>)}}
       \cup {Modern78 \o <<Caller(<<CallOf(f, None, Some(<<Arg(r)>>))>>), callee>>,
             Modern78 \o <<Declares(callee), Caller(<<CallOf(f, None, Some(<<Arg(r)>>))>>), callee>>}
    : formal \in Formals}

(* Results, and a register of the module, which early versions have *)
Results ==
  {Modern78 \o <<Func(f, <<result>>, <<>>, <<>>),
                 Func(g, <<>>, <<>>, Locals \o <<CallOf(f, returns, None)>>)>> :
     result \in Formals, returns \in {None} \cup {Some(<<argument>>) : argument \in Arguments}}
ModuleRegisters ==
  {<<Version(20), Target(<<Sm(10)>>), Var("Register", ".u32", m),
     Func(f, <<>>, <<Param("Register", ".u32", a)>>, <<>>),
     Func(g, <<>>, <<>>, local \o <<CallOf(f, None, Some(<<argument>>))>>)>> :
     local \in {<<>>, <<Var("Register", ".u32", m)>>}, argument \in {Arg(m), LiteralArg(Lit(5))}}

-----------------------------------------------------------------------------
(* Calls through a register: a prototype, a list, or a table of callees *)

U32 == <<Param("Register", ".u32", a)>>
F32 == <<Param("Register", ".f32", a)>>
Callees ==
  <<Func(f, <<>>, U32, <<>>), Func(h, <<>>, U32, <<>>), Func(d, <<>>, F32, <<>>),
    Entry(k, <<>>, <<>>), Declares(Func(m, <<>>, U32, <<>>)), Alias(m, f)>>
Caller(metadata) ==
  Func(g, <<>>, <<>>,
       <<Var("Register", ".u64", r), Var("Register", ".u32", x)>> \o metadata
       \o <<CallThrough(r, Some(t), None, Some(<<Arg(x)>>))>>)

FunctionLists ==
  {<<>>, <<Of(Sym(f))>>, <<Of(Sym(f)), Of(Sym(h))>>, <<Of(Sym(f)), Of(Sym(d))>>, <<Of(Sym(d))>>,
   <<Of(Sym(k))>>, <<Of(Sym(m)), Of(Sym(h))>>, <<Of(Lit(5))>>, <<Of(Op("+", Sym(f), Lit(4)))>>,
   <<Of(Sym(f)), Of(Lit(0))>>, <<Of(Sym(t))>>}
Table(list) == InitArray("Constant", ".u64", t, <<None>>, Braces(list))
Tables ==
  {Table(list) : list \in FunctionLists}
  \cup {[Table(<<Of(Sym(f))>>) EXCEPT !.space = space, !.type = type] :
          space \in {"Global", "Constant", "Shared"}, type \in {".u64", ".u32", ".u16", ".s64"}}
  \cup {InitArray("Global", ".u64", t, dimensions, Braces(<<Of(Sym(f)), Of(Sym(h))>>)) :
          dimensions \in {<<>>, <<Some(Lit(1))>>, <<Some(Lit(3))>>}}
  \cup {InitArray("Global", ".u64", t, <<None, Some(Lit(1))>>, Braces(<<Braces(<<Of(Sym(f))>>)>>)),
        Var("Global", ".u64", t), Array("Global", ".u64", t, <<Some(Lit(2))>>),
        Extern(Array("Global", ".u64", t, <<Some(Lit(2))>>)),
        [Table(<<Braces(<<Of(Sym(f)), Of(Sym(h))>>)>>) EXCEPT !.vector = Some(".v2")]}
LocalMetadata ==
  {Prototype(t, <<>>, U32), Prototype(t, <<>>, F32), Prototype(t, <<>>, <<>>),
   Prototype(t, <<>>, <<Param("Register", ".u32", <<"_">>)>>)}
  \cup {CallTargets(t, list) : list \in {<<f>>, <<f, h>>, <<f, d>>, <<d>>, <<k>>, <<f, f>>, <<m, h>>,
                                         <<e>>, <<r>>}}
IndirectCalls ==
  {Modern78 \o Callees \o <<stored, Caller(<<>>)>> : stored \in Tables}
  \cup {Modern78 \o Callees \o <<Caller(<<>>), stored>> : stored \in Tables}
  \cup {Modern78 \o <<stored>> \o Callees \o <<Caller(<<>>)>> : stored \in Tables}
  \cup {Modern78 \o Callees \o <<Caller(<<metadata>>)>> : metadata \in LocalMetadata}
  \cup {Modern78 \o Callees
        \o <<Table(<<Of(Sym(f))>>),
             Func(g, <<>>, <<>>, <<register, CallThrough(r, Some(t), None, inputs),
                                   CallThrough(r, Some(t), None, inputs)>>)>> :
          register \in {Var("Register", ".u64", r), Var("Register", ".f64", r),
                        Var("Register", ".u32", r), Group(".b64", <<>>, 2)},
          inputs \in {None, Some(<<>>), Some(<<Arg(r)>>), Some(<<LiteralArg(Lit(5))>>)}}

-----------------------------------------------------------------------------
(* Arguments and results that .param objects carry *)

Moves ==
  {Store(p), Load(p), Load(b), CallOf(f, Some(<<Arg(b)>>), Some(<<Arg(p)>>)), Other,
   When1(x, Store(p)), When1(x, Load(b))}
Objects == <<Var("Parameter", ".u32", p), Var("Parameter", ".u32", b), Var("Register", ".pred", x)>>
Carrier == Func(f, <<Param("Parameter", ".u32", c)>>, <<Param("Parameter", ".u32", a)>>, <<>>)
Transfers ==
  {Modern78 \o <<Carrier, Func(g, <<>>, <<>>, Objects \o body)>> : body \in UpTo(3, Moves)}
  \cup {Modern78 \o <<Carrier, Entry(k, <<>>, Objects \o body)>> :
          body \in UpTo(2, Moves \cup {Block(<<Store(p)>>), Block(<<Load(b)>>),
                                       Block(<<CallOf(f, Some(<<Arg(b)>>), Some(<<Arg(p)>>))>>)})}

(* Where an access goes, and how it is qualified *)
Addressed == <<Var("Global", ".u32", v), Array("Global", ".u32", t, <<Some(Lit(4))>>)>>
Accesses ==
  {[Access(kind, base) EXCEPT !.qualifier = qualifier, !.space = space] :
     kind \in {"Load", "Store"}, qualifier \in {"None", "Entry", "Function"},
     space \in {"Parameter", "Global"}, base \in {a, p, r, v}}
  \cup {[Load(base) EXCEPT !.offset = offset, !.space = "Global", !.index = index] :
          base \in {v, t, r, e, f, p}, offset \in {0, -HalfWord, HalfWord \div 2},
          index \in {None, Some(r), Some(v), Some(x)}}
AccessBodies ==
  {<<version, Target(<<Sm(20)>>)>> \o Addressed
   \o <<[Func(k, <<>>, <<Param("Parameter", ".u64", a)>>, body) EXCEPT !.is_entry = is_entry]>> :
     version \in {Version(14), Version(20)}, is_entry \in BOOLEAN,
     body \in {<<Var("Register", ".u64", r), Var("Parameter", ".u32", p), Var("Register", ".f32", x),
                 access>> : access \in Accesses}}

(* Kernels of the first versions: the sum of the inputs in their bodies *)
Inputs ==
  {Array("Parameter", ".b8", p, <<Some(Lit(n))>>) : n \in {4, 16382, 20000, 32763, 32764, 32765}}
  \cup {[Variables("Parameter", type, <<[Declarator(p) EXCEPT !.count = Some(Dec(n))]>>)
           EXCEPT !.vector = vector] :
          type \in {".u8", ".u64"}, n \in {0, 1, 100, 127, 1023, 1024}, vector \in {None, Some(".v4")}}
  \cup {Array("Parameter", ".u32", p, <<None>>), Var("Parameter", ".pred", p),
        Array("Parameter", ".u32", p, <<Some(Lit(0))>>)}
Renamed(variable, name) == [variable EXCEPT !.declarators[1].name = name]
LegacyInputSums ==
  {Early \o <<Entry(k, <<>>, <<first, Renamed(second, b)>>)>> : first \in Inputs, second \in Inputs}
  \cup {Early \o <<Entry(k, <<>>, <<Var("Register", ".u32", r), first, access>>)>> :
          first \in {Array("Parameter", ".b8", p, <<Some(Lit(4))>>)},
          access \in {[Access(kind, p) EXCEPT !.qualifier = qualifier] :
                        kind \in {"Load", "Store"}, qualifier \in {"None", "Entry", "Function"}}}

(* The parameters of a kernel, against the limit of its version *)
KernelFormals(name) ==
  {ArrayParam(".b8", name, <<Some(Lit(n))>>) : n \in {1, 252, 256, 257, 4348, 32763}}
  \cup {[Param("Parameter", type, name) EXCEPT !.alignment = alignment] :
          type \in {".u16", ".u32", ".texref"}, alignment \in {None, Some(Dec(16)), Some(Dec(3))}}
KernelParameters ==
  {<<Version(version), Target(<<Sm(80)>>), Entry(k, parameters, <<>>)>> :
     version \in {13, 14, 15, 80, 81},
     parameters \in {<<one>> : one \in KernelFormals(a)}
                    \cup {<<one, two>> : one \in KernelFormals(a), two \in KernelFormals(b)}}

-----------------------------------------------------------------------------
(* Headers *)


HeaderDirectives ==
  {Version(13), Version(78), BadVersion, AddressSize(64), AddressSize(48), Target(<<Sm(10)>>),
   Target(<<Sm(80), <<"debug">>>>), Target(<<Sm(77)>>), Target(<<>>), Target(<<Sm(80), Unified>>),
   Target(<<Sm(80), Independent>>), Target(<<Sm(10), Unified, Independent>>)}
Headers ==
  {header_items \o <<Entry(k, <<>>, body)>> :
     header_items \in UpTo(2, HeaderDirectives)
                      \cup {<<Version(78)>> \o more : more \in UpTo(2, HeaderDirectives)},
     body \in {<<>>, <<Var("Parameter", ".u32", p)>>}}
  \cup {<<Version(78), one, Func(f, <<>>, U32, <<>>), two, Entry(k, <<>>, <<>>)>> :
          one \in HeaderDirectives, two \in HeaderDirectives}

-----------------------------------------------------------------------------
(* Storage, its initializers and its opaque objects *)

Bare(list) == [i \in DOMAIN list |-> Of(list[i])]
Values ==
  {Lit(5), Neg(Lit(5)), Lit(300), HexLit(32767), Real(1, 2), F32Hex, Sym(v), Op("+", Sym(v), Lit(4)),
   Op("-", Lit(4), Sym(v)), Op("+", Lit(4), Generic(Sym(v))), Generic(Sym(v)), Sym(f), Sym(h), Sym(e),
   [node |-> "Call", callee |-> Lit(255), argument |-> Sym(v)],
   [node |-> "Call", callee |-> HexLit(32512), argument |-> Sym(v)],
   [node |-> "Call", callee |-> Lit(7), argument |-> Sym(v)], Op("/", Lit(1), Lit(0)),
   If(Lit(1), Lit(2), Lit(3)), [node |-> "Parenthesized", operand |-> Sym(v)]}
Placed(variable) ==
  Modern78 \o <<Var("Global", ".u32", v), Func(f, <<>>, U32, <<>>), variable, Func(h, <<>>, U32, <<>>)>>
Scalars ==
  {Placed([Init1(space, type, t, Of(value)) EXCEPT !.qualifiers = qualifiers]) :
     space \in {"Global", "Constant"}, type \in {".u8", ".s32", ".u64", ".f32", ".b64", ".f16", ".pred"},
     value \in Values, qualifiers \in {<<>>, <<".visible">>}}
Lists ==
  {Of(Lit(1)), Braces(<<>>), Braces(Bare(<<Lit(1)>>)), Braces(Bare(<<Lit(1), Lit(2)>>)),
   Braces(Bare(<<Lit(1), Sym(e), Lit(3)>>)), Braces(<<Braces(Bare(<<Lit(1)>>)), Braces(<<>>)>>),
   Braces(<<Braces(Bare(<<Lit(1), Lit(2)>>)), Braces(Bare(<<Lit(3), Lit(4)>>))>>),
   Braces(<<Braces(<<Braces(Bare(<<Lit(1), Lit(2)>>))>>)>>), Braces(<<Named(<<"width">>, Lit(1))>>),
   Braces(<<Braces(<<>>), Braces(<<Braces(<<>>), Braces(Bare(<<Lit(1), Lit(2)>>))>>)>>)}
Shapes ==
  {<<>>, <<None>>, <<Some(Lit(2))>>, <<None, Some(Lit(2))>>, <<Some(Lit(2)), None>>,
   <<Some(Lit(0))>>, <<Some(Lit(2)), Some(Lit(2))>>, <<Some(Lit(256)), Some(Lit(128))>>,
   <<Some(Lit(256)), Some(Lit(64))>>, <<None, Some(Lit(255)), Some(Lit(200))>>}
Arrays ==
  {Placed([InitArray("Global", type, t, dimensions, list) EXCEPT !.vector = vector]) :
     type \in {".u8", ".u32"}, dimensions \in Shapes, list \in Lists, vector \in {None, Some(".v2")}}
  \cup {Placed([Array(space, ".u16", t, dimensions) EXCEPT !.qualifiers = qualifiers]) :
          space \in {"Global", "Shared", "Local", "Register"}, dimensions \in Shapes,
          qualifiers \in {<<>>, <<".extern">>}}

Fields ==
  {Named(<<"width">>, Lit(5)), Named(<<"width">>, Neg(Lit(5))), Named(<<"addr_mode_0">>, Sym(<<"wrap">>)),
   Named(<<"addr_mode_0">>, Lit(4)), Named(<<"addr_mode_0">>, Lit(5)),
   Named(<<"channel_order">>, Lit(4272)), Named(<<"normalized_coords">>, Lit(2)),
   Named(<<"filter_mode">>, Sym(<<"linear">>)), Named(<<"force_unnormalized_coords">>, Lit(1)),
   Named(<<"memory_layout">>, Lit(1)), Named(<<"sampler">>, Lit(1)), Of(Lit(1))}
Opaques ==
  {Placed(InitArray(space, type, t, <<>>, Braces(<<one, two>>))) :
     space \in {"Global", "Constant"}, type \in OpaqueTypes, one \in Fields, two \in Fields}
  \cup {Placed(Extern(Array("Global", ".samplerref", t, dimensions))) :
          dimensions \in {<<>>, <<None>>, <<Some(Lit(1))>>}}
  \cup {Placed(InitArray("Global", ".samplerref", t, dimensions, list)) :
          dimensions \in {<<>>, <<None>>, <<Some(Lit(1))>>, <<Some(Lit(2)), Some(Lit(1))>>},
          list \in {Braces(<<>>), Braces(<<Named(<<"filter_mode">>, Lit(0))>>),
                    Braces(<<Braces(<<Named(<<"filter_mode">>, Lit(1))>>)>>),
                    Braces(<<Braces(<<Braces(<<Named(<<"filter_mode">>, Lit(1))>>)>>)>>)}}

-----------------------------------------------------------------------------
(* Labels, lists of labels, blocks, and instructions without a resolution *)

Steps ==
  {Label(L0), Label(L1), Branch(L0), Branch(e), Block(<<Branch(L0)>>), Block(<<Label(L1), Other>>),
   BranchTargets(LL, <<To(L0)>>), BranchTargets(LL, <<Compact(LL, 2)>>),
   BranchTargets(LL, <<To(L1), Compact(LL, 1)>>), Indexed(LL), CallOf(f, None, None),
   When1(r, CallOf(f, None, Some(<<Arg(r)>>)))}
Bodies ==
  {Modern78 \o <<Func(f, <<>>, U32, <<>>), Func(g, <<>>, <<>>, first \o body)>> :
     first \in {<<>>, <<Label(L0)>>}, body \in UpTo(2, Steps)}
  \cup {Modern78 \o <<Func(f, <<>>, U32, <<>>),
                      Func(g, <<>>, <<>>, <<Label(L0), BranchTargets(LL, list), Label(L1)>> \o body)>> :
          list \in {<<To(L0)>>, <<To(L1), To(L0)>>, <<Compact(LL, 2)>>, <<Compact(LL, 3)>>},
          body \in UpTo(2, Steps)}

-----------------------------------------------------------------------------
(* Declarations of one name, and directives that belong together *)

Named2 ==
  {Var("Global", ".u32", a), Extern(Var("Global", ".u32", a)), Weak(Var("Global", ".u32", a)),
   [Var("Global", ".u32", a) EXCEPT !.qualifiers = <<".common">>],
   [Var("Global", ".u32", a) EXCEPT !.qualifiers = <<".visible", ".weak">>],
   Array("Global", ".u32", a, <<Some(Lit(2))>>), Extern(Array("Global", ".u32", a, <<None>>)),
   Var("Parameter", ".u32", a), Var("Register", ".u32", a), Group(".u32", a, 2),
   [Var("Global", ".u32", a) EXCEPT !.attributes = <<[kind |-> "Managed", values |-> <<>>]>>],
   [Var("Shared", ".u32", a) EXCEPT !.attributes = <<[kind |-> "Unified", values |-> <<Dec(1), Dec(2)>>]>>],
   [Var("Global", ".u32", a) EXCEPT !.attributes = <<[kind |-> "Unified", values |-> <<Dec(1), Dec(2)>>]>>],
   [Var("Global", ".u32", a) EXCEPT !.legacy_texture = TRUE],
   Func(a, <<>>, U32, <<>>), Declares(Func(a, <<>>, U32, <<>>)), Declares(Func(a, <<>>, F32, <<>>)),
   Extern(Declares(Func(a, <<>>, U32, <<>>))), Extern(Func(a, <<>>, U32, <<>>)), Entry(a, <<>>, <<>>),
   Weak(Func(a, <<>>, U32, <<>>)), Alias(a, f), Alias(f, a), Func(f, <<>>, U32, <<>>),
   Declares(Func(f, <<>>, U32, <<>>)),
   [Func(a, <<>>, U32, <<>>) EXCEPT !.is_noreturn = TRUE],
   [Func(a, U32, <<>>, <<>>) EXCEPT !.is_noreturn = TRUE],
   [Func(a, <<>>, U32, <<>>) EXCEPT !.abi_preserve = Some(Dec(4))],
   [Entry(a, <<>>, <<>>) EXCEPT !.blocks_are_clusters = TRUE]}
Resource(kind) == [kind |-> kind, values |-> <<Dec(4)>>]
Declarations ==
  {start \o <<one, two>> :
     start \in {<<Version(30), Target(<<Sm(10)>>)>>, Modern78}, one \in Named2, two \in Named2}
  \cup {<<Version(version), Target(<<Sm(90)>>), [Entry(k, <<>>, <<>>) EXCEPT !.resources = resources]>> :
          version \in {12, 20, 78},
          resources \in UpTo(2, {Resource(kind) : kind \in {"MaxNtid", "ReqNtid", "MaxNreg",
                                   "MinNctaPerSm", "ReqNctaPerCluster", "MaxClusterRank"}}
                                \cup {[kind |-> "MaxNreg", values |-> <<Dec(HalfWord)>>]})}

-----------------------------------------------------------------------------
(* A kernel without a version after a function of which something is said *)

Roleless ==
  {<<Target(<<Sm(80)>>), Func(f, <<>>, U32, <<>>),
     Func(g, <<>>, <<>>, <<Var("Register", ".u32", r)>> \o body),
     Entry(k, <<>>, <<Var("Parameter", ".u32", p)>>)>> :
     body \in UpTo(1, {When1(r, CallOf(f, None, Some(<<Arg(r)>>))),
                       CallOf(f, None, Some(<<Arg(r)>>))})}

-----------------------------------------------------------------------------
(* Sources whose modules the holder edits: one call each, of every form *)

Gives == <<Param("Parameter", ".u32", c)>>
Calling(metadata, call) ==
  Modern78
  \o <<Func(f, Gives, U32, <<>>), Func(h, Gives, U32, <<>>), Func(d, <<>>, F32, <<>>),
       Declares(Func(m, Gives, U32, <<>>)), Alias(m, f),
       InitArray("Global", ".u64", t, <<None>>, Braces(<<Of(Sym(f)), Of(Sym(h))>>)),
       Func(g, <<>>, <<>>, <<Var("Register", ".u32", r), Var("Register", ".u64", v),
                             Var("Parameter", ".u32", p), Var("Register", ".f32", x)>>
                           \o metadata \o <<call>>)>>
Through(metadata) == CallThrough(v, Some(metadata), Some(<<Arg(p)>>), Some(<<Arg(r)>>))
EditedSources ==
  {Calling(<<>>, CallOf(callee, Some(<<Arg(p)>>), Some(<<argument>>))) :
     callee \in {h, m}, argument \in {Arg(r), LiteralArg(Lit(5))}}
  \cup {Calling(<<>>, Through(t)), Calling(<<CallTargets(L0, <<f, h>>)>>, Through(L0)),
        Calling(<<Prototype(L0, Gives, U32)>>, Through(L0))}

(* Sources that are replaced by the same one for another version and target *)
Managed(kind, values) == <<[kind |-> kind, values |-> values]>>
Masked8(operand) ==
  Init1("Global", ".u8", t, Of([node |-> "Call", callee |-> Lit(255), argument |-> operand]))
VersionedStorage ==
  {Init1("Global", ".u64", t, Of(Sym(k))), Init1("Global", ".u64", t, Of(Sym(v))),
   Masked8(Sym(v)), Masked8(Lit(3)), Var("Global", ".texref", t), Var("Global", ".f64", t),
   Weak(Var("Global", ".u32", t)),
   [Var("Global", ".u32", t) EXCEPT !.attributes = Managed("Managed", <<>>)],
   [Var("Global", ".u32", t) EXCEPT !.attributes = Managed("Unified", <<Dec(1), Dec(2)>>)],
   [Var("Global", ".u32", t) EXCEPT !.qualifiers = <<".common">>]}
VersionedKernels ==
  {Entry(k, parameters, <<>>) :
     parameters \in {<<ArrayParam(".b8", a, <<Some(Lit(n))>>)>> : n \in {4, 256, 257, 4348}}
                    \cup {<<Param("Parameter", ".texref", a)>>}}
  \cup {Entry(k, <<Param("Parameter", ".u64", a)>>,
              <<Var("Register", ".u64", r), [Load(a) EXCEPT !.qualifier = "Entry"]>>)}
  \cup {Entry(k, <<>>, <<Var("Register", ".u64", r), Var("Parameter", ".u32", p)>> \o body) :
          body \in {<<>>, <<Load(p)>>}}
VersionedFunctions ==
  {Func(k, <<>>, <<Param("Parameter", ".u64", a)>>, body) :
     body \in {<<Var("Parameter", ".u32", p), Var("Register", ".u64", r),
                 [Store(p) EXCEPT !.qualifier = "Function"],
                 CallOf(f, Some(<<Arg(p)>>), Some(<<Arg(p)>>))>>,
               <<Var("Register", ".u32", r), CallOf(f, Some(<<Arg(r)>>), Some(<<Arg(r)>>))>>}}
FunctionCalling(name, target) == Func(name, <<>>, <<>>, <<CallOf(target, None, None)>>)
VersionedRecursion ==
  {<<FunctionCalling(f, f)>>,
   <<Declares(Func(g, <<>>, <<>>, <<>>)), FunctionCalling(f, g), FunctionCalling(g, f)>>,
   <<FunctionCalling(f, f), Target(<<Sm(80)>>), FunctionCalling(g, g)>>,
   <<Func(f, <<>>, <<>>, <<Var("Register", ".u64", r), CallTargets(L0, <<f>>),
                           CallThrough(r, Some(L0), None, None)>>)>>}
Versioned(version, target, items) ==
  <<Version(version), Target(<<Sm(target)>>), Var("Global", ".u32", v)>> \o items
StoredItems == {<<Entry(k, <<>>, <<>>), stored>> : stored \in VersionedStorage}
Items ==
  {<<function>> : function \in VersionedKernels}
  \cup {<<Func(f, Gives, <<Param("Parameter", ".u32", a)>>, <<>>), function>> :
          function \in VersionedFunctions}
  \cup (StoredItems \cup VersionedRecursion)
Settings == {13, 14, 20, 30, 31, 71, 73, 78} \X {10, 80}
Set(items) == {Versioned(setting[1], setting[2], items) : setting \in Settings}
Sources(families) ==
  {Versioned(version, target, items) : version \in {13, 31, 78}, target \in {10, 80},
                                       items \in families}
OtherSettings(families) ==
  [source \in Sources(families) |-> Set(SubSeq(source, 4, Len(source))) \ {source}]
Retargeted == OtherSettings(Items)
RetargetedStorage == OtherSettings(StoredItems)
SourcesOfStorage == Sources(StoredItems)
Unchanged == {}
NotReplaced == <<>>

Resupplied == UNION {Set(items) : items \in Items}
CallSources ==
  DirectCalls \cup (Results \cup (ModuleRegisters \cup (IndirectCalls \cup EditedSources)))
BodySources == Bodies \cup (Transfers \cup (AccessBodies \cup LegacyInputSums))
StorageSources == Scalars \cup (Arrays \cup Opaques)
HeaderSources == Headers \cup (KernelParameters \cup (Roleless \cup Resupplied))
Instances ==
  CallSources \cup (BodySources \cup (StorageSources \cup (HeaderSources \cup Declarations)))
=============================================================================
