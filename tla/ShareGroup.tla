------------------------------ MODULE ShareGroup ------------------------------
(***************************************************************************)
(* Textures, renderbuffers and framebuffer objects of a group of contexts, *)
(* crates/dreamgpu-host/src/texture/names.rs, texture.rs, framebuffer.rs,  *)
(* state.rs and the read cache of resource.rs.  Images are reference       *)
(* counted: the namespace, bindings, saved attributes and attachments hold *)
(* them.  Contexts run one at a time; a write is ordered before what       *)
(* another context does by a fence of the writer and a wait of the other.  *)
(*                                                                         *)
(* One image unit, target, level and attachment point stand for all.       *)
(* Textures and renderbuffers share nothing but the attachment code: a     *)
(* behaviour uses one sort of them; with textures it either has            *)
(* framebuffers and reads textures back, or saves bindings.                *)
(***************************************************************************)
EXTENDS Integers, Sequences, FiniteSets, FiniteSetsExt, SequencesExt

CONSTANTS GroupContexts,  \* contexts: their serials
          ImageNames,     \* names of textures or renderbuffers, 1..n
          FbNames,        \* names of framebuffers, 1..n; 0 is the window
          MaxImages,      \* DG_GL_MAX_TEXTURES and DG_GL_MAX_RENDERBUFFERS
          GroupBudget,    \* DG_GL_MAX_TEXTURE_BYTES, in units
          Sorts           \* sorts of images used

ASSUME ShareGroupAssumption ==
    /\ {ImageNames, FbNames, MaxImages, GroupBudget} \subseteq Nat \ {0}
    /\ 0 \notin GroupContexts /\ Sorts \subseteq {"texture", "attrib", "renderbuffer"}

VARIABLES sort,      \* what images are in this behaviour
          g,         \* the group: namespace, live images, charge, native names, read cache, flaws
          ctx,       \* ContextState, with the attachments native GL has
          current    \* the current context, 0 for none, and its native bindings

vars == <<sort, g, ctx, current>>

NoCache == [image |-> 0, same |-> FALSE, changed |-> FALSE]
NoGroup == [names |-> <<>>, table |-> FALSE, images |-> <<>>, charged |-> 0, natives |-> {},
            cache |-> NoCache, flaws |-> {}]
NoContextState == [live |-> FALSE, default |-> 0, bound |-> 0, saved |-> <<>>, table |-> FALSE,
                   fbs |-> <<>>, nat |-> <<>>, draw |-> 0, read |-> 0]
NoneCurrent == [c |-> 0, draw |-> 0, read |-> 0]
Init ==
    /\ sort \in Sorts /\ g = NoGroup
    /\ ctx = [c \in GroupContexts |-> NoContextState] /\ current = NoneCurrent

Flawed(s, flaw) == [s EXCEPT !.flaws = @ \union {flaw}]
NewImage == CHOOSE i \in 1..(MaxImages + 1) : i \notin DOMAIN g.images
Put(f, n, v) == [m \in DOMAIN f \union {n} |-> IF m = n THEN v ELSE f[m]]
Without(f, n) == [m \in DOMAIN f \ {n} |-> f[m]]
CanTake(s, n) == s.charged + n <= GroupBudget
(* Renderbuffers, framebuffers and their tables are charged as objects.      *)
Textured == sort # "renderbuffer"
Object == IF Textured THEN 0 ELSE 1

-----------------------------------------------------------------------------
(* References.  The last one frees the image, its fence, its charge and,     *)
(* unless the guest deleted it, the native object; the read cache compares   *)
(* images by address and must forget it.                                     *)
Forget(cache, i) == IF cache.image = i THEN NoCache ELSE cache

(* What an image is charged for.                                             *)
Cost(m) == m.units + Object

Held(s, i) == IF i = 0 THEN s ELSE [s EXCEPT !.images[i].refs = @ + 1]
NativeDeleted(s, i) ==
    IF i \in s.natives THEN [s EXCEPT !.natives = @ \ {i}] ELSE Flawed(s, "twice")
Unref(s, i) ==
    IF i = 0 THEN s
    ELSE LET m == s.images[i]
             dead == IF m.native /\ ~m.deleted THEN NativeDeleted(s, i) ELSE s
         IN IF m.refs > 1 THEN [s EXCEPT !.images[i].refs = @ - 1]
            ELSE [dead EXCEPT !.images = Without(@, i), !.charged = @ - Cost(m),
                              !.cache = Forget(@, i)]
UnrefAll(s, held) == FoldLeft(Unref, s, held)

(* wait and written.  "unfenced" says that the last write has no fence yet,  *)
(* "unseen" which contexts are not ordered after it.                         *)
Waited(s, i, c) ==
    LET m == s.images[i]
    IN IF ~m.fence \/ c \in {m.writer, m.waiter} THEN s
       ELSE [s EXCEPT !.images[i].waiter = c,
                      !.images[i].unseen = IF m.unfenced THEN @ ELSE @ \ {c}]
Bumped(s, i) == IF s.cache.image = i THEN [s EXCEPT !.cache.same = FALSE] ELSE s
Fenced(s, i, c) ==
    [Bumped(s, i) EXCEPT !.images[i].fence = TRUE, !.images[i].writer = c,
                         !.images[i].waiter = 0, !.images[i].unfenced = FALSE]

(* Native GL reads or writes an image.                                       *)
Used(s, i, c) == IF c \in s.images[i].unseen THEN Flawed(s, "raced") ELSE s
ReadBy(s, i, c) == IF s.images[i].defined THEN Used(s, i, c) ELSE Flawed(s, "garbage")
WrittenBy(s, i, c) ==
    [Used(s, i, c) EXCEPT !.images[i].unfenced = TRUE, !.images[i].unseen = GroupContexts \ {c},
                          !.cache.changed = @ \/ s.cache.image = i]

-----------------------------------------------------------------------------
(* Framebuffers of context c.                                                *)

Attached(c, n) == IF n = 0 THEN {} ELSE {ctx[c].fbs[n]} \ {0}
Over(s, is, Op(_, _)) == FoldLeft(Op, s, SetToSeq(is))
Ordered(s, is, c) == Over(s, is, LAMBDA t, i : Waited(t, i, c))
Settled(s, is, c) == Over(s, is, LAMBDA t, i : Fenced(t, i, c))

(* settle_draw, when the context stops drawing into its framebuffer.         *)
SettleDraw(s, c) == Settled(s, Attached(c, ctx[c].draw), c)

(* What the platform does before another context runs.                       *)
Switched(s) == IF current.c = 0 THEN s ELSE Settled(s, Attached(current.c, ctx[current.c].draw), current.c)

(* replace: the tracking of an attachment; the image drawn into is fenced.   *)
(* The faulty variant does not fence it.                                     *)
ReplacedBare(s, c, n, old, new) == Unref(Held(s, new), old)
Replaced(s, c, n, old, new) ==
    Unref(Held(IF n = ctx[c].draw /\ old # 0 THEN Fenced(s, old, c) ELSE s, new), old)

-----------------------------------------------------------------------------
(* Contexts.                                                                 *)

Live == {c \in GroupContexts : ctx[c].live}
FreshImage(refs, native) ==
    [refs |-> refs, native |-> native, deleted |-> FALSE, defined |-> TRUE, units |-> 0,
     fence |-> FALSE, writer |-> 0, waiter |-> 0, unfenced |-> FALSE, unseen |-> {}]

(* dreamgpu_context_state_init: every texture target has a default of the    *)
(* context, which has no name.                                               *)
CreateContext == \E c \in GroupContexts \ Live, refused \in BOOLEAN :
    LET i == NewImage
    IN /\ IF refused \/ (Textured /\ Cardinality(DOMAIN g.images) >= MaxImages)
            THEN UNCHANGED <<g, ctx>>
          ELSE /\ ctx' = [ctx EXCEPT ![c] = [NoContextState EXCEPT !.live = TRUE,
                            !.default = IF Textured THEN i ELSE 0,
                            !.bound = IF Textured THEN i ELSE 0]]
               /\ g' = IF Textured THEN [g EXCEPT !.images = Put(@, i, FreshImage(2, FALSE))] ELSE g
       /\ UNCHANGED <<sort, current>>

(* dreamgpu_drawable_bind: the platform binds the drawable for both targets; *)
(* rebind restores the framebuffers of the context, order_bound waits for    *)
(* what others wrote.                                                        *)
OrderBound(s, c) == Ordered(s, Attached(c, ctx[c].draw) \union Attached(c, ctx[c].read), c)

MakeContextCurrent == \E c \in Live :
    /\ g' = OrderBound(Switched(g), c)
    /\ current' = [c |-> c, draw |-> ctx[c].draw, read |-> ctx[c].read]
    /\ UNCHANGED <<sort, ctx>>

(* dreamgpu_context_state_release and, after the last context, the release   *)
(* of the namespace.  Another context that gets the number later has another *)
(* serial, and has waited for nothing.                                       *)
Renewed(s, c) ==
    [s EXCEPT !.images = [i \in DOMAIN @ |->
        [@[i] EXCEPT !.writer = IF @ = c THEN 0 ELSE @, !.waiter = IF @ = c THEN 0 ELSE @,
                     !.unseen = IF s.images[i].fence \/ s.images[i].unfenced
                                  THEN @ \union {c} ELSE @]]]
DestroyContext == \E c \in Live :
    LET x == ctx[c]
        attached == [k \in 1..FbNames |-> IF k \in DOMAIN x.fbs THEN x.fbs[k] ELSE 0]
        cost == Cardinality(DOMAIN x.fbs) + (IF x.table THEN 1 ELSE 0)
        hers == UnrefAll(Switched(g), attached \o x.saved \o <<x.bound, x.default>>)
        paid == [hers EXCEPT !.charged = @ - cost]
        names == IF Live = {c} THEN SetToSeq({g.names[n] : n \in DOMAIN g.names}) ELSE <<>>
        left == UnrefAll(paid, names)
    IN /\ g' = Renewed(IF Live = {c}
                         THEN [left EXCEPT !.names = <<>>, !.table = FALSE,
                                           !.charged = @ - (IF g.table THEN 1 ELSE 0)]
                         ELSE left, c)
       /\ ctx' = [ctx EXCEPT ![c] = NoContextState]
       /\ current' = NoneCurrent
       /\ UNCHANGED sort

-----------------------------------------------------------------------------
(* Commands of the current context.                                          *)

C == current.c
X == ctx[C]
(* What the allocator or native GL refuse: a table, or an object and its     *)
(* native name, of which nothing is kept.                                    *)
Refusals(n, named) == IF n = 0 \/ n \in DOMAIN named THEN {"none"}
                      ELSE {"none", "table", "object"}

(* bind of texture/names.rs and bind_renderbuffer.  A name is used first by  *)
(* its bind.  The faulty variant takes no reference.                         *)
BoundBare(s, old, new) == IF old = new THEN s ELSE Unref(s, old)
Bound(s, old, new) == IF old = new THEN s ELSE Unref(Held(s, new), old)

BindImage == \E n \in 0..ImageNames : \E refuse \in Refusals(n, g.names) :
    LET makes == n # 0 /\ Object = 1 /\ ~g.table
        denied == makes /\ (refuse = "table" \/ ~CanTake(g, 1))
        t == IF makes /\ ~denied THEN [g EXCEPT !.table = TRUE, !.charged = @ + 1] ELSE g
        known == n \in DOMAIN g.names
        fails == ~known /\ n # 0 /\ (denied \/ refuse = "object"
                                       \/ Cardinality(DOMAIN g.images) >= MaxImages
                                       \/ ~CanTake(t, Object))
        i == IF n = 0 THEN X.default ELSE IF known THEN g.names[n] ELSE NewImage
        new == [t EXCEPT !.images = Put(@, i, FreshImage(1, TRUE)), !.names = Put(@, n, i),
                         !.natives = @ \union {i}, !.charged = @ + Object]
        s == IF n = 0 \/ known THEN t ELSE new
    IN /\ IF fails THEN g' = t /\ UNCHANGED ctx
          ELSE /\ g' = Bound(IF Textured THEN Waited(s, i, C) ELSE s, X.bound, i)
               /\ ctx' = [ctx EXCEPT ![C].bound = i]
       /\ UNCHANGED <<sort, current>>

(* DeleteTextures and DeleteRenderbuffers of one name: the image leaves the  *)
(* bound framebuffers of this context and its bindings, as in native GL; it  *)
(* lives on where it is attached or saved.                                   *)
BoundFbs == {X.draw, X.read} \ {0}

DeleteImage == \E n \in DOMAIN g.names :
    LET i == g.names[n]
        from == {f \in BoundFbs : X.fbs[f] = i}
        loose == FoldLeft(LAMBDA s, f : Replaced(s, C, f, i, 0), g, SetToSeq(from))
        unbound == IF X.bound = i THEN Unref(Held(loose, X.default), i) ELSE loose
        nameless == [NativeDeleted(unbound, i) EXCEPT !.names = Without(@, n)]
    IN /\ g' = Unref([nameless EXCEPT !.images[i].deleted = TRUE], i)
       /\ ctx' = [ctx EXCEPT ![C].bound = IF @ = i THEN X.default ELSE @,
                    ![C].fbs = [f \in DOMAIN @ |-> IF f \in from THEN 0 ELSE @[f]],
                    ![C].nat = [f \in DOMAIN @ |-> IF f \in {current.draw, current.read} /\ @[f] = i
                                                     THEN 0 ELSE @[f]]]
       /\ UNCHANGED <<sort, current>>

(* No other context ever sees a default texture: only named images are       *)
(* written and read back.                                                    *)
NamedImage(i) == i # 0 /\ g.images[i].native

(* storage of renderbuffers and upload of textures: "units" of memory, whose *)
(* contents the host could define or not.                                    *)
DefineImage == \E units \in 0..1, undefined \in BOOLEAN :
    LET i == X.bound
        old == g.images[i].units
        fits == g.charged - old + units <= GroupBudget
        u == IF fits THEN units ELSE 0
        w == WrittenBy(Waited(g, i, C), i, C)
    IN /\ NamedImage(i) /\ (undefined => u = 1)
       /\ Textured => fits
       /\ g' = Fenced([w EXCEPT !.images[i].units = u, !.charged = @ - old + u,
                                !.images[i].defined = (u = 0 \/ ~undefined)], i, C)
       /\ UNCHANGED <<sort, ctx, current>>

(* attach_texture and attach_renderbuffer.                                   *)
Attach == \E target \in (IF Textured THEN {"draw"} ELSE {"draw", "read"}), n \in {0} \union DOMAIN g.names :
    LET f == X[target]
        i == IF n = 0 THEN 0 ELSE g.names[n]
        s == IF i = 0 THEN g ELSE Waited(g, i, C)
    IN /\ f # 0
       /\ g' = Replaced(s, C, f, X.fbs[f], i)
       /\ ctx' = [ctx EXCEPT ![C].fbs[f] = i, ![C].nat[current[target]] = i]
       /\ UNCHANGED <<sort, current>>

(* bind_framebuffer.                                                         *)
Targets == IF ~Textured THEN {{"draw"}, {"read"}, {"draw", "read"}}
           ELSE {{"draw", "read"}}
BindFramebuffer == \E n \in 0..FbNames, targets \in Targets : \E refuse \in Refusals(n, X.fbs) :
    LET denied == ~X.table /\ n # 0 /\ (refuse = "table" \/ ~CanTake(g, 1))
        t == IF n # 0 /\ ~X.table /\ ~denied THEN [g EXCEPT !.charged = @ + 1] ELSE g
        new == n # 0 /\ n \notin DOMAIN X.fbs
        fails == new /\ (denied \/ refuse = "object" \/ ~CanTake(t, 1))
        s == IF new THEN [t EXCEPT !.charged = @ + 1] ELSE t
        u == IF "draw" \in targets /\ X.draw # n THEN SettleDraw(s, C) ELSE s
    IN /\ sort # "attrib"
       /\ g' = IF fails THEN t ELSE Ordered(u, IF new THEN {} ELSE Attached(C, n), C)
       /\ ctx' = [ctx EXCEPT
            ![C].table = @ \/ (n # 0 /\ ~denied),
            ![C].fbs = IF new /\ ~fails THEN Put(@, n, 0) ELSE @,
            ![C].nat = IF new /\ ~fails THEN Put(@, n, 0) ELSE @,
            ![C].draw = IF ~fails /\ "draw" \in targets THEN n ELSE @,
            ![C].read = IF ~fails /\ "read" \in targets THEN n ELSE @]
       /\ current' = IF fails THEN current
                     ELSE [current EXCEPT !.draw = IF "draw" \in targets THEN n ELSE @,
                                          !.read = IF "read" \in targets THEN n ELSE @]
       /\ UNCHANGED sort

(* delete_framebuffers of one name.                                          *)
DeleteFramebuffer == \E n \in DOMAIN X.fbs :
    LET s == IF X.draw = n THEN SettleDraw(g, C) ELSE g
        unbound(b) == IF b = n THEN 0 ELSE b
    IN /\ g' = [Unref(s, X.fbs[n]) EXCEPT !.charged = @ - 1]
       /\ ctx' = [ctx EXCEPT ![C].fbs = Without(@, n), ![C].nat = Without(@, n),
                             ![C].draw = unbound(@), ![C].read = unbound(@)]
       /\ current' = [current EXCEPT !.draw = unbound(@), !.read = unbound(@)]
       /\ UNCHANGED sort

-----------------------------------------------------------------------------
(* What native GL does with the images it has bound and attached.            *)

Drawable(s) == IF current.draw = 0 THEN s
               ELSE Over(s, {X.nat[current.draw]} \ {0}, LAMBDA t, i : WrittenBy(t, i, C))
Readable(s) == IF current.read = 0 THEN s
               ELSE Over(s, {X.nat[current.read]} \ {0}, LAMBDA t, i : ReadBy(t, i, C))

(* A draw.  prepare_textures refuses textures the host could not define and  *)
(* waits for the others.                                                     *)
Prepared(s) == Waited(s, X.bound, C)
Draw ==
    /\ IF Textured
         THEN g.images[X.bound].defined /\ g' = Drawable(ReadBy(Prepared(g), X.bound, C))
       ELSE g' = Drawable(g)
    /\ UNCHANGED <<sort, ctx, current>>

(* readable: reads of a framebuffer are refused when the host could not      *)
(* define an image of it.                                                    *)
Initialized == \A i \in Attached(C, X.read) : g.images[i].defined

ReadPixels == Initialized /\ g' = Readable(g) /\ UNCHANGED <<sort, ctx, current>>
BlitFramebuffer ==
    Initialized /\ g' = Drawable(Readable(g)) /\ UNCHANGED <<sort, ctx, current>>

(* CopyTexSubImage, and GenerateMipmap, which reads the texture it writes.   *)
CopyToTexture == \E mipmap \in BOOLEAN :
    LET w == Waited(g, X.bound, C)
    IN /\ Textured /\ NamedImage(X.bound)
       /\ mipmap \/ Initialized
       /\ g' = Fenced(WrittenBy(IF mipmap THEN w ELSE Readable(w), X.bound, C), X.bound, C)
       /\ UNCHANGED <<sort, ctx, current>>

(* GetTexImage in parts: "touch" gives textures being drawn into a new       *)
(* version, then the read cache serves the part or is filled again.          *)
Touched(s) == Over(s, Attached(C, X.draw), Bumped)

Serve(s) == IF s.cache.changed THEN Flawed(s, "stale") ELSE s
ReadTexture == \E first, last, refused \in BOOLEAN :
    LET i == X.bound
        t == Touched(g)
        hit == ~first /\ t.cache.image = i /\ t.cache.same
        filled == [ReadBy(Waited(t, i, C), i, C) EXCEPT
                     !.cache = [image |-> i, same |-> TRUE, changed |-> FALSE]]
        s == Serve(IF hit THEN t ELSE filled)
    IN /\ sort = "texture" /\ NamedImage(i) /\ g.images[i].defined
       /\ g' = IF ~hit /\ refused THEN [t EXCEPT !.cache = NoCache]
               ELSE IF last THEN [s EXCEPT !.cache = NoCache] ELSE s
       /\ UNCHANGED <<sort, ctx, current>>

(* PushAttrib and PopAttrib with TEXTURE_BIT, one deep.                      *)
PushAttrib ==
    /\ sort = "attrib" /\ X.saved = <<>>
    /\ g' = Held(g, X.bound)
    /\ ctx' = [ctx EXCEPT ![C].saved = <<X.bound>>]
    /\ UNCHANGED <<sort, current>>
PopAttrib ==
    /\ X.saved # <<>>
    /\ LET i == Head(X.saved)
       IN /\ g' = Fenced(Unref(WrittenBy(Waited(g, i, C), i, C), X.bound), i, C)
          /\ ctx' = [ctx EXCEPT ![C].saved = <<>>, ![C].bound = i]
    /\ UNCHANGED <<sort, current>>

Next ==
    \/ CreateContext \/ MakeContextCurrent \/ DestroyContext
    \/ /\ current.c # 0
       /\ \/ BindImage \/ DeleteImage \/ DefineImage \/ Attach
          \/ BindFramebuffer \/ DeleteFramebuffer
          \/ Draw \/ ReadPixels \/ BlitFramebuffer \/ CopyToTexture \/ ReadTexture
          \/ PushAttrib \/ PopAttrib

Spec == Init /\ [][Next]_vars

-----------------------------------------------------------------------------
(* Properties.                                                               *)

TypeOK ==
    /\ DOMAIN g.images \subseteq 1..MaxImages /\ g.charged \in 0..GroupBudget
    /\ DOMAIN g.names \subseteq 1..ImageNames
    /\ \A c \in GroupContexts : DOMAIN ctx[c].fbs \subseteq 1..FbNames
    /\ current.c \in {0} \union Live

(* Every reference somebody holds is counted, and no other: nobody holds a   *)
(* freed image, and an image nobody holds is freed.                          *)
Holders(i) ==
    Cardinality({n \in DOMAIN g.names : g.names[n] = i})
    + MapThenSumSet(LAMBDA c : Cardinality({n \in DOMAIN ctx[c].fbs : ctx[c].fbs[n] = i})
                      + Len(SelectSeq(ctx[c].saved \o <<ctx[c].bound, ctx[c].default>>,
                                      LAMBDA j : j = i)), GroupContexts)
RefsCounted ==
    /\ \A i \in 1..MaxImages :
         IF i \in DOMAIN g.images THEN g.images[i].refs = Holders(i) ELSE Holders(i) = 0
    /\ \A n \in DOMAIN g.names : ~g.images[g.names[n]].deleted

(* The budget is charged for exactly the tables, objects and units there     *)
(* are; native names exist for exactly the images the guest did not delete,  *)
(* and none is deleted twice.                                                *)
GroupAccounted ==
    /\ g.charged = MapThenSumSet(LAMBDA i : g.images[i].units + Object, DOMAIN g.images)
         + (IF g.table THEN 1 ELSE 0)
         + MapThenSumSet(LAMBDA c : Cardinality(DOMAIN ctx[c].fbs)
                           + (IF ctx[c].table THEN 1 ELSE 0), GroupContexts)
    /\ g.natives = {i \in DOMAIN g.images : g.images[i].native /\ ~g.images[i].deleted}
    /\ "twice" \notin g.flaws

(* The host tracks what native GL has: the attachments of every framebuffer, *)
(* whatever was deleted in which context, and the bindings of the current    *)
(* context.                                                                  *)
NativeMirrored ==
    /\ \A c \in GroupContexts : ctx[c].fbs = ctx[c].nat
    /\ current.c # 0 => current = [c |-> current.c, draw |-> X.draw, read |-> X.read]

(* No context reads or writes an image another context wrote before it is    *)
(* ordered after that write.                                                 *)
NoRaces == "raced" \notin g.flaws

(* Nothing the host could not initialize is ever read.                       *)
NoGarbage == "garbage" \notin g.flaws

(* A part of a texture read is never served from before a change of the      *)
(* texture, nor from a texture that is gone.                                 *)
ReadsFresh ==
    /\ "stale" \notin g.flaws
    /\ g.cache.image # 0 => g.cache.image \in DOMAIN g.images

(* Memory and references are counted exactly, and the host knows what native *)
(* GL has.                                                                   *)
GroupSound == TypeOK /\ GroupAccounted /\ RefsCounted /\ NativeMirrored

(* What native GL reads is ordered, defined and current.                     *)
ReadsSound == NoRaces /\ NoGarbage /\ ReadsFresh
=============================================================================
