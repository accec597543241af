-------------------------------- MODULE D3d11 --------------------------------
(***************************************************************************)
(* Direct3D 11 over Metal: the COM objects wg_d3d11.c hands to the guest,    *)
(* the wrappers of Metal objects they lead to (WGMetalBackend.m), the        *)
(* pipeline state a draw reads, and the GPU, which executes what was         *)
(* committed to a queue in order but later.  A buffer has two cells and a    *)
(* draw reads one of them; a texture holds one ink, that of the last thing   *)
(* drawn on it.  The slots of the pipeline that only name an object (depth   *)
(* view, index and constant buffers, shaders, layout) are set like "vbuf".   *)
(***************************************************************************)
EXTENDS Naturals, FiniteSets, Sequences, Functions, SequencesExt, FiniteSetsExt

CONSTANTS
    Dyes,           \* what the guest draws with
    MaxCom,         \* WG_MAX_COM
    MaxWrappers,    \* bound: wrappers of Metal objects
    MaxTextures,    \* bound: Metal textures
    MaxInFlight,    \* bound: commands the GPU has not executed (a guest may have a lower one)
    MaxRefs,        \* bound: the guest's references to one object
    Gamers,         \* guests: [opening: its first calls, in order, calls: what it calls then,
                    \*          slots: what it binds, frees: the interfaces it gives back,
                    \*          buffers, textures: how many it makes, first: what is in them at first,
                    \*          chain: whether its device comes with a swap chain,
                    \*          writes: what it writes there,
                    \*          inFlight: how far it lets the GPU fall behind]
    SourcesLast,    \* whether the guest gives a resource up after its views and bindings
    OneDevice       \* whether the guest makes its swap chain on the factory of its device

Bindings == {"rtv", "vbuf", "tex"}
Cells == {1, 2}
Zeroed == "zeroed"      \* fresh guest memory, fresh Metal memory
AnyInk == "any"         \* what the guest has left undefined
NoInk == [c \in Cells |-> Zeroed]

ASSUME D3d11Assumption ==
    /\ {MaxCom, MaxWrappers, MaxTextures, MaxInFlight, MaxRefs} \subseteq Nat \ {0}
    /\ {Zeroed, AnyInk} \cap Dyes = {}
    /\ \A g \in Gamers : g.inFlight \in 1 .. MaxInFlight
    /\ {SourcesLast, OneDevice} \subseteq BOOLEAN

VARIABLES
    objs,       \* s_objs: [iface, refs, backend, owns, parent, aux, scratch]; a guest pointer is an index
    gpu,        \* wrappers of Metal objects: [kind, alive, tex, buf, ver, dev, cur]; a handle is an index
    store,      \* contents of Metal buffers, by wrapper and version
    pixels,     \* contents of Metal textures
    queue,      \* commands committed to a device's queue, by device
    screen,     \* the last frame on the layer, [shows, means]
    gamer,      \* the guest
    step,       \* how far it is in its opening
    owed,       \* history: the guest's references, by object
    stands,     \* history: the texture a guest's object is or shows
    plan,       \* history: the objects the guest has bound, by device and slot
    filled,     \* history: what the guest wrote into its buffers
    mapped,     \* history: the buffers the guest has mapped
    ideal,      \* history: what is on each texture if every call took effect at once
    contexts    \* history: the contexts handed out, <<device, context>>

d3dVars == <<objs, gpu, store, pixels, queue, screen, gamer, step, owed, stands, plan, filled, mapped, ideal, contexts>>
objectVars == <<objs, owed, stands>>
guestVars == <<plan, filled, mapped, ideal>>

NullPtr == 0
NoScratch == [got |-> FALSE, cells |-> NoInk]
Nothing == [x \in {} |-> 0]
Unbound == [s \in Bindings |-> NullPtr]
Com(iface, backend, owns, parent) ==
    [iface |-> iface, refs |-> 1, backend |-> backend, owns |-> owns, parent |-> parent, aux |-> NullPtr,
     scratch |-> NoScratch]
Wrapper(kind, tex, dev) ==
    [kind |-> kind, alive |-> TRUE, tex |-> tex, buf |-> FALSE, ver |-> 0, dev |-> dev, cur |-> Unbound]

D3d11Init ==
    /\ objs = <<>> /\ gpu = <<>> /\ store = Nothing /\ pixels = <<>> /\ queue = Nothing
    /\ screen = [shows |-> Zeroed, means |-> Zeroed]
    /\ gamer \in Gamers /\ step = 1
    /\ owed = Nothing /\ stands = Nothing /\ plan = Nothing /\ filled = Nothing
    /\ mapped = {} /\ ideal = <<>> /\ contexts = {}

---------------------------------------------------------------------------
(* Objects *)

\* com_new: an object in the next entry; a full table gives a null pointer, and
\* entries are never given back.
Made(os, o) == IF Len(os) < MaxCom THEN Append(os, o) ELSE os
Pointer(os) == IF Len(os) < MaxCom THEN Len(os) + 1 ELSE NullPtr
\* com_from_this
Behind(o) == IF o = NullPtr THEN NullPtr ELSE objs[o].backend

Calls0(name) ==
    IF step \in DOMAIN gamer.opening THEN gamer.opening[step] = name ELSE name \in gamer.calls
Has(o) == o \in DOMAIN owed /\ owed[o] > 0
HeldOf(iface) == {o \in DOMAIN objs : Has(o) /\ objs[o].iface = iface}
\* A call hands the guest the object o, which is or shows texture t.
Counted(h, o) == IF o = NullPtr THEN h ELSE [h @@ (o :> 0) EXCEPT ![o] = @ + 1]
Obtain(os, o, t) ==
    /\ objs' = Made(os, o)
    /\ owed' = Counted(owed, Pointer(os))
    /\ stands' = IF Pointer(os) = NullPtr THEN stands ELSE stands @@ (Pointer(os) :> t)

RoomFor(n) == Len(gpu) + n <= MaxWrappers

\* CreateDXGIFactory: a factory with a device of its own.
CreateDXGIFactory ==
    /\ Calls0("CreateDXGIFactory") /\ RoomFor(1) /\ HeldOf("FACTORY") = {}
    /\ gpu' = Append(gpu, Wrapper("device", 0, 0))
    /\ queue' = queue @@ (Len(gpu) + 1 :> <<>>)
    /\ plan' = plan @@ (Len(gpu) + 1 :> Unbound)
    /\ Obtain(objs, Com("FACTORY", Len(gpu) + 1, FALSE, NullPtr), 0)
    /\ UNCHANGED <<store, pixels, screen, gamer, filled, mapped, ideal, contexts>>

\* wg_gpu_create_swapchain: a back buffer of its own on the device it was made on; the
\* slate it is primed with is the first command of that queue, hence what it has at first.
SwapChain(dev, tex) == Wrapper("swapchain", tex, dev)

\* D3D11CreateDevice, D3D11CreateDeviceAndSwapChain: device, immediate context and
\* swap chain, each where the guest asked for it, in this order.
D3D11CreateDevice(withContext, withChain) ==
    /\ Calls0("D3D11CreateDevice") /\ HeldOf("DEVICE") = {}
    /\ RoomFor(2) /\ Len(pixels) < MaxTextures
    /\ withContext \/ "GetImmediateContext" \in gamer.calls
    /\ withChain <=> gamer.chain
    /\ LET dev == Len(gpu) + 1
           d == Pointer(objs)
           os1 == Made(objs, Com("DEVICE", dev, FALSE, NullPtr))
           ctx == IF withContext THEN Pointer(os1) ELSE NullPtr
           os2 == IF withContext THEN Made(os1, Com("CONTEXT", dev, FALSE, NullPtr)) ELSE os1
           os3 == IF d = NullPtr THEN os2 ELSE [os2 EXCEPT ![d].aux = ctx]
           sc == IF withChain THEN Pointer(os3) ELSE NullPtr
           tex == Len(pixels) + 1
       IN  /\ objs' = IF withChain THEN Made(os3, Com("SWAPCHAIN", dev + 1, FALSE, NullPtr)) ELSE os3
           /\ owed' = Counted(Counted(Counted(owed, d), ctx), sc)
           /\ stands' = stands @@ [o \in {d, ctx, sc} \ {NullPtr} |-> 0]
           /\ gpu' = gpu \o (IF withChain THEN <<Wrapper("device", 0, 0), SwapChain(dev, tex)>>
                                          ELSE <<Wrapper("device", 0, 0)>>)
           /\ IF withChain THEN pixels' = Append(pixels, Zeroed) /\ ideal' = Append(ideal, Zeroed)
                           ELSE UNCHANGED <<pixels, ideal>>
           /\ queue' = queue @@ (dev :> <<>>)
           /\ plan' = plan @@ (dev :> Unbound)
           /\ contexts' = contexts \union IF {d, ctx} \cap {NullPtr} = {} THEN {<<d, ctx>>} ELSE {}
    /\ UNCHANGED <<store, screen, gamer, filled, mapped>>

\* ID3D11Device::GetImmediateContext: the one context of this device, made at the
\* first call; no reference is counted for the caller.
GetImmediateContext(d) ==
    /\ Calls0("GetImmediateContext")
    /\ LET ctx == IF objs[d].aux = NullPtr THEN Pointer(objs) ELSE objs[d].aux
           os == IF objs[d].aux = NullPtr THEN Made(objs, Com("CONTEXT", objs[d].backend, FALSE, NullPtr)) ELSE objs
       IN  /\ ctx \in DOMAIN owed => owed[ctx] < MaxRefs
           /\ objs' = [os EXCEPT ![d].aux = ctx]
           /\ owed' = Counted(owed, ctx)
           /\ stands' = IF ctx = NullPtr THEN stands ELSE stands @@ (ctx :> 0)
           /\ contexts' = contexts \union IF ctx = NullPtr THEN {} ELSE {<<d, ctx>>}
    /\ UNCHANGED <<gpu, store, pixels, queue, screen, gamer, plan, filled, mapped, ideal>>

\* IUnknown::QueryInterface: a device has an IDXGIDevice, made anew, which shares its
\* backend; any other interface of an object is the object itself.
QueryInterface(o, dxgi) ==
    /\ Calls0("QueryInterface")
    /\ IF dxgi THEN objs[o].iface = "DEVICE" /\ HeldOf("DXGIDEVICE") = {}
       ELSE objs[o].iface \in gamer.frees /\ {owed[o], objs[o].refs} \subseteq 0 .. MaxRefs - 1
    /\ IF dxgi
       THEN Obtain(objs, Com("DXGIDEVICE", objs[o].backend, FALSE, NullPtr), 0)
       ELSE /\ objs' = [objs EXCEPT ![o].refs = @ + 1]
            /\ owed' = Counted(owed, o)
            /\ UNCHANGED stands
    /\ UNCHANGED <<gpu, store, pixels, queue, screen, gamer, guestVars, contexts>>

\* GetAdapter, GetParent, EnumAdapters, EnumOutputs: from each of these one gets to
\* the next, a new object over the same backend.
Ways == {<<"DXGIDEVICE", "ADAPTER">>, <<"ADAPTER", "FACTORY">>, <<"FACTORY", "ADAPTER">>, <<"ADAPTER", "OUTPUT">>}
GoTo(o, iface) ==
    /\ Calls0("GetParent") /\ <<objs[o].iface, iface>> \in Ways
    /\ HeldOf(iface) = {}
    /\ Obtain(objs, Com(iface, objs[o].backend, FALSE, NullPtr), 0)
    /\ UNCHANGED <<gpu, store, pixels, queue, screen, gamer, guestVars, contexts>>

\* IUnknown::Release: the last reference frees the backend of an object that owns it.
\* The guest keeps a resource while a view of it or a binding names it (SourcesLast).
Needed(o) ==
    \/ \E v \in DOMAIN objs : Has(v) /\ objs[v].parent = o
    \/ \E d \in DOMAIN plan : \E s \in Bindings : plan[d][s] = o
    \/ o \in mapped
AfterReleaseKept(o) == [o EXCEPT !.refs = IF @ > 0 THEN @ - 1 ELSE 0]
AfterRelease(o) == [o EXCEPT !.refs = IF @ > 0 THEN @ - 1 ELSE 0,
                         !.backend = IF o.refs <= 1 /\ o.owns THEN NullPtr ELSE @]
Freed0(o) == IF o.refs <= 1 /\ o.owns THEN {o.backend} \ {NullPtr} ELSE {}
Release(o) ==
    /\ Calls0("Release") /\ objs[o].iface \in gamer.frees
    /\ SourcesLast /\ owed[o] = 1 => ~Needed(o)
    /\ objs' = [objs EXCEPT ![o] = AfterRelease(@)]
    /\ gpu' = [w \in DOMAIN gpu |-> IF w \in Freed0(objs[o]) THEN [gpu[w] EXCEPT !.alive = FALSE] ELSE gpu[w]]
    /\ owed' = [owed EXCEPT ![o] = @ - 1]
    /\ UNCHANGED <<store, pixels, queue, screen, gamer, stands, guestVars, contexts>>

---------------------------------------------------------------------------
(* Resources and views *)

\* IDXGIFactory::CreateSwapChain: on the factory's device, whichever device the guest passes.
CreateSwapChain(f) ==
    /\ Calls0("CreateSwapChain") /\ RoomFor(1) /\ Len(pixels) < MaxTextures /\ HeldOf("SWAPCHAIN") = {}
    /\ OneDevice => \E d \in HeldOf("DEVICE") : objs[d].backend = objs[f].backend
    /\ gpu' = Append(gpu, SwapChain(objs[f].backend, Len(pixels) + 1))
    /\ pixels' = Append(pixels, Zeroed) /\ ideal' = Append(ideal, Zeroed)
    /\ Obtain(objs, Com("SWAPCHAIN", Len(gpu) + 1, FALSE, NullPtr), 0)
    /\ UNCHANGED <<store, queue, screen, gamer, plan, filled, mapped, contexts>>

\* IDXGISwapChain::GetBuffer: a new wrapper around the present back buffer, which no
\* object owns.
GetBuffer(s) ==
    /\ Calls0("GetBuffer") /\ RoomFor(1)
    /\ LET tex == gpu[objs[s].backend].tex
       IN  /\ \A o \in HeldOf("CHILD") : stands[o] # tex
           /\ gpu' = Append(gpu, Wrapper("resource", tex, 0))
           /\ Obtain(objs, Com("CHILD", Len(gpu) + 1, FALSE, NullPtr), tex)
    /\ UNCHANGED <<store, pixels, queue, screen, gamer, guestVars, contexts>>

\* IDXGISwapChain::ResizeBuffers: a new back buffer; who has the old one draws on that.
ResizeBuffers(s) ==
    /\ Calls0("ResizeBuffers") /\ Len(pixels) < MaxTextures
    /\ gpu' = [gpu EXCEPT ![objs[s].backend].tex = Len(pixels) + 1]
    /\ pixels' = Append(pixels, Zeroed) /\ ideal' = Append(ideal, Zeroed)
    /\ UNCHANGED <<objectVars, store, queue, screen, gamer, plan, filled, mapped, contexts>>

MadeBy(kind) == {w \in DOMAIN gpu : gpu[w].kind = "resource" /\ gpu[w].buf = (kind = "buffer") /\ gpu[w].dev # 0}

\* ID3D11Device::CreateBuffer: with the guest's bytes or without.
CreateBuffer(d, cells) ==
    /\ Calls0("CreateBuffer") /\ RoomFor(1) /\ Cardinality(MadeBy("buffer")) < gamer.buffers
    /\ LET b == Len(gpu) + 1
       IN  /\ gpu' = Append(gpu, [Wrapper("resource", 0, objs[d].backend) EXCEPT !.buf = TRUE])
           /\ store' = store @@ (<<b, 0>> :> cells)
           /\ filled' = IF Pointer(objs) = NullPtr THEN filled ELSE filled @@ (Pointer(objs) :> cells)
           /\ Obtain(objs, Com("CHILD", b, TRUE, NullPtr), 0)
    /\ UNCHANGED <<pixels, queue, screen, gamer, plan, mapped, ideal, contexts>>

\* ID3D11Device::CreateTexture2D
CreateTexture2D(d, ink) ==
    /\ Calls0("CreateTexture2D") /\ RoomFor(1) /\ Len(pixels) < MaxTextures
    /\ Cardinality(MadeBy("texture")) < gamer.textures
    /\ gpu' = Append(gpu, Wrapper("resource", Len(pixels) + 1, objs[d].backend))
    /\ pixels' = Append(pixels, ink) /\ ideal' = Append(ideal, ink)
    /\ Obtain(objs, Com("CHILD", Len(gpu) + 1, TRUE, NullPtr), Len(pixels) + 1)
    /\ UNCHANGED <<store, queue, screen, gamer, plan, filled, mapped, contexts>>

\* ID3D11Device::CreateRenderTargetView, CreateDepthStencilView: a wrapper of its own,
\* which keeps the texture.  CreateShaderResourceView: the wrapper of the resource.
IsResource(o) == objs[o].parent = NullPtr /\ (o \in DOMAIN filled \/ stands[o] # 0)
TextureOf(o) == IF Behind(o) = NullPtr THEN 0 ELSE gpu[Behind(o)].tex
Views(r) == {v \in HeldOf("CHILD") : objs[v].parent = r}
CreateRenderTargetView(r) ==
    /\ Calls0("CreateRenderTargetView") /\ RoomFor(1)
    /\ \A v \in Views(r) : ~objs[v].owns
    /\ gpu' = Append(gpu, Wrapper("view", TextureOf(r), 0))
    /\ Obtain(objs, Com("CHILD", Len(gpu) + 1, TRUE, r), stands[r])
    /\ UNCHANGED <<store, pixels, queue, screen, gamer, guestVars, contexts>>
CreateShaderResourceView(r) ==
    /\ Calls0("CreateShaderResourceView")
    /\ \A v \in Views(r) : objs[v].owns
    /\ Obtain(objs, Com("CHILD", Behind(r), FALSE, r), stands[r])
    /\ UNCHANGED <<gpu, store, pixels, queue, screen, gamer, guestVars, contexts>>

\* The other create methods: a child whose backend, if it has one, nobody owns.
CreateOther(d) ==
    /\ Calls0("CreateOther") /\ objs[d].iface = "DEVICE"
    /\ Obtain(objs, Com("CHILD", NullPtr, FALSE, NullPtr), 0)
    /\ UNCHANGED <<gpu, store, pixels, queue, screen, gamer, guestVars, contexts>>

\* ID3D11View::GetResource: the resource, with a reference counted.
GetResource(v) ==
    /\ Calls0("GetResource") /\ objs[v].parent # NullPtr
    /\ LET r == objs[v].parent
       IN  /\ owed[r] < MaxRefs
           /\ objs' = [objs EXCEPT ![r].refs = @ + 1]
           /\ owed' = [owed EXCEPT ![r] = @ + 1]
    /\ UNCHANGED <<gpu, store, pixels, queue, screen, gamer, stands, guestVars, contexts>>

---------------------------------------------------------------------------
(* Drawing *)

\* OMSetRenderTargets, IASetVertexBuffers, PSSetShaderResources: the device takes the
\* object's backend; a null object unbinds.
Bindable(s, o) ==
    \/ o = NullPtr
    \/ /\ Has(o) /\ objs[o].iface = "CHILD"
       /\ CASE s = "rtv" -> objs[o].parent # NullPtr /\ objs[o].owns
            [] s = "tex" -> objs[o].parent # NullPtr /\ ~objs[o].owns
            [] s = "vbuf" -> o \in DOMAIN filled
Bind(c, s, o) ==
    /\ Calls0("Bind") /\ s \in gamer.slots /\ Bindable(s, o)
    /\ LET dev == objs[c].backend
       IN  /\ plan[dev][s] # o
           /\ gpu' = [gpu EXCEPT ![dev].cur[s] = Behind(o)]
           /\ plan' = [plan EXCEPT ![dev][s] = o]
    /\ UNCHANGED <<objectVars, store, pixels, queue, screen, gamer, filled, mapped, ideal, contexts>>

InFlight == UNION {Range(queue[d]) : d \in DOMAIN queue}
Uncommitted == \A d \in DOMAIN queue : Len(queue[d]) < gamer.inFlight
Committed(dev, command) == queue' = [queue EXCEPT ![dev] = Append(@, command)]
Command(op, on, reads, samples, cell, ink) ==
    [op |-> op, on |-> on, reads |-> reads, samples |-> samples, cell |-> cell, ink |-> ink]

\* ClearRenderTargetView
Clear0(c, v, dye) ==
    /\ Calls0("ClearRenderTargetView") /\ Uncommitted /\ Bindable("rtv", v)
    /\ IF TextureOf(v) = 0 THEN UNCHANGED queue
       ELSE Committed(objs[c].backend, Command("clear", TextureOf(v), <<0, 0>>, 0, 1, dye))
    /\ ideal' = IF v = NullPtr THEN ideal ELSE [ideal EXCEPT ![stands[v]] = dye]
    /\ UNCHANGED <<objectVars, gpu, store, pixels, screen, gamer, plan, filled, mapped, contexts>>

\* wg_gpu_draw, wg_encode: nothing without a target or a vertex buffer; the command
\* names the Metal objects that are behind the bound wrappers now.
Of(w, field) == IF w = NullPtr THEN 0 ELSE gpu[w][field]
Encoded(cur, cell) ==
    IF Of(cur["rtv"], "tex") = 0 \/ cur["vbuf"] = NullPtr THEN <<>>
    ELSE IF ~gpu[cur["vbuf"]].buf THEN <<>>
    ELSE <<Command("draw", Of(cur["rtv"], "tex"), <<cur["vbuf"], gpu[cur["vbuf"]].ver>>,
                   Of(cur["tex"], "tex"), cell, Zeroed)>>
\* What the guest means by it, from the objects it has bound.
Intended(p, cell) == IF p["tex"] # NullPtr /\ stands[p["tex"]] # 0 THEN ideal[stands[p["tex"]]]
                  ELSE filled[p["vbuf"]][cell]
Draw(c, cell) ==
    /\ Calls0("Draw") /\ Uncommitted
    /\ LET dev == objs[c].backend
           p == plan[dev]
           draws == p["rtv"] # NullPtr /\ p["vbuf"] # NullPtr
       IN  /\ p["vbuf"] \notin mapped
           /\ draws => stands[p["rtv"]] # 0
           /\ draws /\ p["tex"] # NullPtr => stands[p["tex"]] # stands[p["rtv"]]
           /\ queue' = [queue EXCEPT ![dev] = @ \o Encoded(gpu[dev].cur, cell)]
           /\ ideal' = IF draws THEN [ideal EXCEPT ![stands[p["rtv"]]] = Intended(p, cell)] ELSE ideal
    /\ UNCHANGED <<objectVars, gpu, store, pixels, screen, gamer, plan, filled, mapped, contexts>>

\* ID3D11DeviceContext::Map: the object's scratch in guest memory, which is made at
\* the first call and keeps what was last written there.
Map(b, discard) ==
    /\ Calls0("Map") /\ Has(b) /\ b \in DOMAIN filled /\ b \notin mapped
    /\ discard \/ objs[b].scratch.got
    /\ objs' = [objs EXCEPT ![b].scratch.got = TRUE]
    /\ mapped' = mapped \union {b}
    /\ filled' = IF discard THEN [filled EXCEPT ![b] = [k \in Cells |-> AnyInk]] ELSE filled
    /\ UNCHANGED <<gpu, store, pixels, queue, screen, gamer, owed, stands, plan, ideal, contexts>>
\* The guest writes through the pointer it got.
Write(b, cell, dye) ==
    /\ b \in mapped /\ objs[b].scratch.cells[cell] # dye
    /\ objs' = [objs EXCEPT ![b].scratch.cells[cell] = dye]
    /\ filled' = [filled EXCEPT ![b][cell] = dye]
    /\ UNCHANGED <<gpu, store, pixels, queue, screen, gamer, owed, stands, plan, mapped, ideal, contexts>>

\* ID3D11DeviceContext::Unmap, wg_gpu_update_buffer: the scratch becomes a fresh Metal
\* buffer; Metal keeps the old one while a command reads it.
NextVersion(w) == CHOOSE v \in 0 .. MaxInFlight + 2 :
    /\ v # gpu[w].ver /\ \A k \in InFlight : k.reads # <<w, v>>
    /\ \A u \in 0 .. v - 1 : u = gpu[w].ver \/ \E k \in InFlight : k.reads = <<w, u>>
Kept(st, g) == [s \in {t \in DOMAIN st : g[t[1]].ver = t[2] \/ \E k \in InFlight : k.reads = t} |-> st[s]]
Unmap(b) ==
    /\ b \in mapped
    /\ mapped' = mapped \ {b}
    /\ LET w == objs[b].backend
       IN  IF w = NullPtr THEN UNCHANGED <<gpu, store>>
           ELSE LET g == [gpu EXCEPT ![w].ver = NextVersion(w)]
                IN  gpu' = g /\ store' = Kept((<<w, g[w].ver>> :> objs[b].scratch.cells) @@ store, g)
    /\ UNCHANGED <<objectVars, pixels, queue, screen, gamer, plan, filled, ideal, contexts>>

\* IDXGISwapChain::Present: the back buffer as it is now, on the swap chain's device.
Present(s) ==
    /\ Calls0("Present") /\ Uncommitted
    /\ LET w == objs[s].backend
       IN  Committed(gpu[w].dev, Command("present", gpu[w].tex, <<0, 0>>, gpu[w].tex, 1, ideal[gpu[w].tex]))
    /\ UNCHANGED <<objectVars, gpu, store, pixels, screen, gamer, guestVars, contexts>>

\* The GPU executes the next command of a queue.
Execute(d) ==
    /\ queue[d] # <<>>
    /\ LET k == Head(queue[d])
           paint == IF k.op = "clear" THEN k.ink ELSE IF k.samples # 0 THEN pixels[k.samples]
                    ELSE store[k.reads][k.cell]
       IN  IF k.op = "present"
           THEN screen' = [shows |-> paint, means |-> k.ink] /\ UNCHANGED pixels
           ELSE pixels' = [pixels EXCEPT ![k.on] = paint] /\ UNCHANGED screen
    /\ queue' = [queue EXCEPT ![d] = Tail(@)]
    /\ UNCHANGED <<objectVars, gpu, store, gamer, guestVars, contexts>>

GuestCalls ==
    \/ CreateDXGIFactory
    \/ \E c, s \in BOOLEAN : D3D11CreateDevice(c, s)
    \/ \E o \in DOMAIN objs : Has(o) /\ (Release(o) \/ \E x \in BOOLEAN : QueryInterface(o, x))
    \/ \E o \in DOMAIN objs, w \in Ways : Has(o) /\ GoTo(o, w[2])
    \/ \E f \in HeldOf("FACTORY") : CreateSwapChain(f)
    \/ \E s \in HeldOf("SWAPCHAIN") : GetBuffer(s) \/ ResizeBuffers(s) \/ Present(s)
    \/ \E d \in HeldOf("DEVICE") :
        \/ GetImmediateContext(d) \/ CreateOther(d)
        \/ \E i \in gamer.first : CreateTexture2D(d, i) \/ CreateBuffer(d, [k \in Cells |-> i])
    \/ \E r \in HeldOf("CHILD") : IsResource(r) /\ (CreateRenderTargetView(r) \/ CreateShaderResourceView(r))
    \/ \E v \in HeldOf("CHILD") : GetResource(v)
    \/ \E c \in HeldOf("CONTEXT") :
        \/ \E s \in Bindings, o \in DOMAIN objs \union {NullPtr} : Bind(c, s, o)
        \/ \E v \in DOMAIN objs, i \in Dyes : Clear0(c, v, i)
        \/ \E k \in Cells : Draw(c, k)
        \/ \E b \in HeldOf("CHILD") :
            \/ \E x \in BOOLEAN : Map(b, x)
            \/ \E k \in Cells, i \in gamer.writes : Write(b, k, i)
            \/ Unmap(b)

D3d11Next ==
    \/ GuestCalls /\ step' = IF step \in DOMAIN gamer.opening THEN step + 1 ELSE step
    \/ (\E d \in DOMAIN queue : Execute(d)) /\ UNCHANGED step

D3d11Spec == D3d11Init /\ [][D3d11Next]_d3dVars

---------------------------------------------------------------------------
(* Properties *)

Agrees(got, meant) == meant = AnyInk \/ got = meant

\* A backend is freed by the last reference to the one object that owns it, which is
\* when the guest has given up its last; nobody frees it a second time (owns_backend,
\* wg_d3d11.c:54-56, 199-203).
OwnersCount ==
    \A o \in DOMAIN objs : objs[o].owns =>
        /\ objs[o].refs = owed[o]
        /\ (objs[o].backend = NullPtr) <=> (owed[o] = 0)
        /\ \A p \in DOMAIN objs \ {o} : objs[p].owns /\ objs[p].backend = objs[o].backend =>
                objs[o].backend = NullPtr

\* The wrappers a draw would read and those behind the objects the guest holds have not
\* been freed (wg_gpu_release, WGMetalBackend.m:441).
NothingDangles ==
    /\ \A d \in DOMAIN plan : \A s \in Bindings : gpu[d].cur[s] # NullPtr => gpu[gpu[d].cur[s]].alive
    /\ \A o \in DOMAIN objs : Has(o) /\ objs[o].backend # NullPtr => gpu[objs[o].backend].alive

\* A device has one immediate context, whoever asked for it first
\* (wg_d3d11.c:500-506, 775-780).
OneContext == \A x, y \in contexts : x[1] = y[1] => x[2] = y[2]

\* The GPU runs behind: once it has executed what was committed, every texture looks
\* as if each call had taken effect at once, a buffer that was updated while a draw
\* that reads it was in flight included; and a frame shows what the
\* back buffer was when it was presented (WGMetalBackend.m:575-586, 721-793).
FramesAsDrawn ==
    /\ (\A d \in DOMAIN queue : queue[d] = <<>>) => \A t \in DOMAIN pixels : Agrees(pixels[t], ideal[t])
    /\ Agrees(screen.shows, screen.means)

\* Direct3D over Metal: counts, lifetimes and frames are what the guest may rely on
\* (wg_d3d11.c:137-790, WGMetalBackend.m:71-804).
GraphicsConsistent == OwnersCount /\ NothingDangles /\ OneContext /\ FramesAsDrawn
=============================================================================
