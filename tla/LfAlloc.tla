------------------------------ MODULE LfAlloc ------------------------------
(***************************************************************************)
(* The lock-free allocator of mysys/lf_alloc-pin.c: a stack of free        *)
(* objects (allocator->top, linked through the word at free_ptr_offset),   *)
(* the pinbox whose LF_PINS elements are given to threads from a versioned *)
(* stack, and for every element a pin and a purgatory of objects waiting   *)
(* for other threads to look away.                                         *)
(*                                                                         *)
(* With the gcc atomics the my_atomic_rwlock macros are empty, so nothing  *)
(* but the atomic operations orders the threads: every access to a word    *)
(* that another thread can write is a step of its own.  The allocator uses *)
(* pin[0] only; the purgatory and its counter are touched by the owner of  *)
(* the element alone, but the word that links the purgatory is the word    *)
(* that links the stack, and a thread with a stale pointer reads it.       *)
(***************************************************************************)
EXTENDS Integers, FiniteSets, Sequences

CONSTANTS
    Threads, Nodes,
    Null,                   \* the null pointer
    LF_PINBOX_MAX_PINS,     \* 65536 in the code: elements have a lower index
    LF_PURGATORY_SIZE,      \* 10 in the code
    Versions,               \* 65536 in the code: the version wraps here
    MaxVersion,             \* bound: no pins are asked for from here on
    MaxInArray              \* bound on pins_in_array

ASSUME NullAssumption == Null \notin Nodes
ASSUME SizeAssumption ==
    /\ LF_PINBOX_MAX_PINS \in Nat \ {0, 1}
    /\ LF_PURGATORY_SIZE \in Nat \ {0}
    /\ Versions \in Nat \ {0}
    /\ MaxVersion \in Nat \ {0}
    /\ MaxInArray \in Nat
ASSUME FiniteAssumption == IsFiniteSet(Threads) /\ IsFiniteSet(Nodes)
(* The bound on the calls of get_pins keeps the version from wrapping: an  *)
(* element is popped at most once by every caller that got past it, and    *)
(* put back at most once by every thread.                                  *)
ASSUME VersionAssumption == MaxVersion + 2 * Cardinality(Threads) <= Versions

VARIABLES
    top,            \* allocator->top
    freeptr,        \* freeptr[n]: next_node of object n
    fresh,          \* objects my_malloc has not handed out yet
    topVer,         \* pinbox->pinstack_top_ver
    pinsInArray,    \* pinbox->pins_in_array
    pin,            \* pin[e]: el->pin[0] of element e
    link,           \* link[e]: el->link
    purgatory,      \* purgatory[e]: el->purgatory
    purgatoryCount, \* purgatoryCount[e]: el->purgatory_count
    pc,             \* where each thread is
    pins,           \* pins[t]: index of the element t owns, 0 if none
    local,          \* the local variables of the call in progress
    objects         \* objects[t]: objects t was given and has not freed

stackVars == <<top, freeptr, fresh>>
boxVars   == <<topVer, pinsInArray, link>>
elVars    == <<purgatory, purgatoryCount>>
vars == <<stackVars, boxVars, elVars, pin, pc, pins, local, objects>>

Elements == 1 .. LF_PINBOX_MAX_PINS - 1
Pointers == Nodes \cup {Null}
Wrap     == LF_PINBOX_MAX_PINS * Versions

NoLocals == [node |-> Null, next |-> Null, topVer |-> 0, index |-> 0,
             addr |-> TRUE, npins |-> 0, scan |-> 0, granary |-> {},
             list |-> Null, first |-> Null, last |-> Null, caller |-> "idle"]

PC == {"idle",
       "get_loop", "get_cas", "get_init",
       "put_loop", "put_link", "put_cas",
       "new_top", "new_pin", "new_check", "new_malloc", "new_next", "new_cas",
       "new_unpin",
       "real_free", "harvest", "sweep", "push_link", "push_cas"}

(* The pointers, counters and indices stay in their ranges: the indices    *)
(* kept in pinstack_top_ver and in el->link name elements, and what a      *)
(* purgatory counts is at most the number of objects.                      *)
TypeOK ==
    /\ top \in Pointers
    /\ freeptr \in [Nodes -> Pointers]
    /\ fresh \subseteq Nodes
    /\ topVer \in 0 .. Wrap - 1
    /\ pinsInArray \in 0 .. MaxInArray
    /\ pin \in [Elements -> Pointers]
    /\ link \in [Elements -> {0} \cup Elements]
    /\ purgatory \in [Elements -> Pointers]
    /\ purgatoryCount \in [Elements -> 0 .. Cardinality(Nodes)]
    /\ pc \in [Threads -> PC]
    /\ pins \in [Threads -> {0} \cup Elements]
    /\ objects \in [Threads -> SUBSET Nodes]
    /\ local \in [Threads ->
          [node : Pointers, next : Pointers \cup {0} \cup Elements,
           topVer : 0 .. Wrap - 1,
           index : 0 .. LF_PINBOX_MAX_PINS, addr : BOOLEAN,
           npins : 0 .. MaxInArray + 1, scan : 0 .. LF_PINBOX_MAX_PINS,
           granary : SUBSET Nodes,
           list : Pointers, first : Pointers, last : Pointers,
           caller : {"idle", "put_loop"}]]

(* lf_alloc_init, lf_pinbox_init and the zero-filled lf_dynarray *)
Init ==
    /\ top = Null
    /\ freeptr = [n \in Nodes |-> Null]
    /\ fresh = Nodes
    /\ topVer = 0
    /\ pinsInArray = 0
    /\ pin = [e \in Elements |-> Null]
    /\ link = [e \in Elements |-> 0]
    /\ purgatory = [e \in Elements |-> Null]
    /\ purgatoryCount = [e \in Elements |-> 0]
    /\ pc = [t \in Threads |-> "idle"]
    /\ pins = [t \in Threads |-> 0]
    /\ local = [t \in Threads |-> NoLocals]
    /\ objects = [t \in Threads |-> {}]

Goto(t, label) == pc' = [pc EXCEPT ![t] = label]

Set(t, values) == local' = [local EXCEPT ![t] = values]

Index(tv) == tv % LF_PINBOX_MAX_PINS

-----------------------------------------------------------------------------
(* _lf_pinbox_get_pins.  A thread asks for pins when it has none. *)
GetPins(t) ==
    /\ pc[t] = "idle" /\ pins[t] = 0
    /\ topVer < MaxVersion * LF_PINBOX_MAX_PINS
    /\ pinsInArray + Cardinality(Threads) < MaxInArray
    /\ Set(t, [local[t] EXCEPT !.topVer = topVer])
    /\ Goto(t, "get_loop")
    /\ UNCHANGED <<stackVars, boxVars, elVars, pin, pins, objects>>

(* The stack of unused elements was empty: a new one from the array, or,   *)
(* when the array is full, none.                                           *)
GetPinsNew(t) ==
    /\ pc[t] = "get_loop" /\ Index(local[t].topVer) = 0
    /\ pinsInArray' = pinsInArray + 1
    /\ IF pinsInArray + 1 >= LF_PINBOX_MAX_PINS
       THEN Set(t, NoLocals) /\ Goto(t, "idle")
       ELSE Set(t, [local[t] EXCEPT !.index = pinsInArray + 1]) /\ Goto(t, "get_init")
    /\ UNCHANGED <<stackVars, topVer, link, elVars, pin, pins, objects>>

GetPinsRead(t) ==
    /\ pc[t] = "get_loop" /\ Index(local[t].topVer) # 0
    /\ LET e == Index(local[t].topVer)
       IN  Set(t, [local[t] EXCEPT !.index = e, !.next = link[e]])
    /\ Goto(t, "get_cas")
    /\ UNCHANGED <<stackVars, boxVars, elVars, pin, pins, objects>>

(* Variant: the version is not bumped. *)
PoppedSameVersion(tv, e, next) == (tv - e + next) % Wrap

(* top_ver-pins+next+LF_PINBOX_MAX_PINS, in the width of the word *)
Popped(tv, e, next) == (tv - e + next + LF_PINBOX_MAX_PINS) % Wrap

GetPinsCas(t) ==
    LET l == local[t] IN
    /\ pc[t] = "get_cas"
    /\ \/ /\ topVer = l.topVer
          /\ topVer' = Popped(l.topVer, l.index, l.next)
          /\ Set(t, l)
          /\ Goto(t, "get_init")
       \/ /\ topVer # l.topVer
          /\ Set(t, [NoLocals EXCEPT !.topVer = topVer])
          /\ Goto(t, "get_loop")
          /\ UNCHANGED topVer
    /\ UNCHANGED <<stackVars, pinsInArray, link, elVars, pin, pins, objects>>

GetPinsInit(t) ==
    LET e == local[t].index IN
    /\ pc[t] = "get_init"
    /\ link' = [link EXCEPT ![e] = e]
    /\ purgatoryCount' = [purgatoryCount EXCEPT ![e] = 0]
    /\ pins' = [pins EXCEPT ![t] = e]
    /\ Set(t, NoLocals)
    /\ Goto(t, "idle")
    /\ UNCHANGED <<stackVars, topVer, pinsInArray, purgatory, pin, objects>>

(* _lf_pinbox_put_pins: the purgatory is emptied first, however often the  *)
(* scan finds its objects pinned.                                          *)
PutPins(t) ==
    /\ pc[t] = "idle" /\ pins[t] # 0
    /\ Set(t, [local[t] EXCEPT !.index = link[pins[t]], !.caller = "put_loop"])
    /\ Goto(t, "put_loop")
    /\ UNCHANGED <<stackVars, boxVars, elVars, pin, pins, objects>>

PutPinsFlush(t) ==
    /\ pc[t] = "put_loop" /\ purgatoryCount[pins[t]] # 0
    /\ Goto(t, "real_free")
    /\ UNCHANGED <<stackVars, boxVars, elVars, pin, pins, local, objects>>

PutPinsRead(t) ==
    /\ pc[t] = "put_loop" /\ purgatoryCount[pins[t]] = 0
    /\ Set(t, [local[t] EXCEPT !.topVer = topVer])
    /\ Goto(t, "put_link")
    /\ UNCHANGED <<stackVars, boxVars, elVars, pin, pins, objects>>

PutPinsLink(t) ==
    /\ pc[t] = "put_link"
    /\ link' = [link EXCEPT ![pins[t]] = Index(local[t].topVer)]
    /\ Goto(t, "put_cas")
    /\ UNCHANGED <<stackVars, topVer, pinsInArray, elVars, pin, pins, local, objects>>

PutPinsCas(t) ==
    LET l == local[t] IN
    /\ pc[t] = "put_cas"
    /\ \/ /\ topVer = l.topVer
          /\ topVer' = Popped(l.topVer, link[pins[t]], l.index)
          /\ pins' = [pins EXCEPT ![t] = 0]
          /\ Set(t, NoLocals)
          /\ Goto(t, "idle")
       \/ /\ topVer # l.topVer
          /\ Set(t, [l EXCEPT !.topVer = topVer])
          /\ Goto(t, "put_link")
          /\ UNCHANGED <<topVer, pins>>
    /\ UNCHANGED <<stackVars, pinsInArray, link, elVars, pin, objects>>

-----------------------------------------------------------------------------
(* _lf_alloc_new: pin what top shows, and make sure top still shows it. *)
NewTop(t) ==
    /\ \/ pc[t] = "idle" /\ pins[t] # 0
       \/ pc[t] = "new_top"
    /\ Set(t, [NoLocals EXCEPT !.node = top])
    /\ Goto(t, "new_pin")
    /\ UNCHANGED <<stackVars, boxVars, elVars, pin, pins, objects>>

NewPin(t) ==
    /\ pc[t] = "new_pin"
    /\ pin' = [pin EXCEPT ![pins[t]] = local[t].node]
    /\ Goto(t, "new_check")
    /\ UNCHANGED <<stackVars, boxVars, elVars, pins, local, objects>>

(* Variant: the pin is trusted without a second look at top. *)
NewNoCheck(t) ==
    /\ pc[t] = "new_check"
    /\ Goto(t, IF local[t].node = Null THEN "new_malloc" ELSE "new_next")
    /\ UNCHANGED <<stackVars, boxVars, elVars, pin, pins, local, objects>>

NewCheck(t) ==
    /\ pc[t] = "new_check"
    /\ Goto(t, IF local[t].node # top THEN "new_top"
               ELSE IF top = Null THEN "new_malloc" ELSE "new_next")
    /\ UNCHANGED <<stackVars, boxVars, elVars, pin, pins, local, objects>>

(* my_malloc: an object never seen before, or none when memory is short. *)
NewMalloc(t) ==
    /\ pc[t] = "new_malloc"
    /\ \/ \E n \in fresh :
            /\ fresh' = fresh \ {n}
            /\ Set(t, [local[t] EXCEPT !.node = n])
       \/ fresh = {} /\ UNCHANGED <<fresh, local>>
    /\ Goto(t, "new_unpin")
    /\ UNCHANGED <<top, freeptr, boxVars, elVars, pin, pins, objects>>

NewNext(t) ==
    /\ pc[t] = "new_next"
    /\ Set(t, [local[t] EXCEPT !.next = freeptr[local[t].node]])
    /\ Goto(t, "new_cas")
    /\ UNCHANGED <<stackVars, boxVars, elVars, pin, pins, objects>>

NewCas(t) ==
    /\ pc[t] = "new_cas"
    /\ IF top = local[t].node
       THEN top' = local[t].next /\ Goto(t, "new_unpin")
       ELSE UNCHANGED top /\ Goto(t, "new_top")
    /\ UNCHANGED <<freeptr, fresh, boxVars, elVars, pin, pins, local, objects>>

NewUnpin(t) ==
    /\ pc[t] = "new_unpin"
    /\ pin' = [pin EXCEPT ![pins[t]] = Null]
    /\ objects' = [objects EXCEPT ![t] = @ \cup ({local[t].node} \ {Null})]
    /\ Set(t, NoLocals)
    /\ Goto(t, "idle")
    /\ UNCHANGED <<stackVars, boxVars, elVars, pins>>

-----------------------------------------------------------------------------
(* add_to_purgatory, on element e whose purgatory is now l with c objects *)
AddToPurgatory(e, n, l, c) ==
    /\ freeptr' = [freeptr EXCEPT ![n] = l]
    /\ purgatory' = [purgatory EXCEPT ![e] = n]
    /\ purgatoryCount' = [purgatoryCount EXCEPT ![e] = c + 1]

(* _lf_pinbox_free *)
Free(t) ==
    LET e == pins[t] IN
    /\ pc[t] = "idle" /\ e # 0
    /\ \E n \in objects[t] :
         /\ AddToPurgatory(e, n, purgatory[e], purgatoryCount[e])
         /\ objects' = [objects EXCEPT ![t] = @ \ {n}]
    /\ Goto(t, IF (purgatoryCount[e] + 1) % LF_PURGATORY_SIZE # 0
               THEN "real_free" ELSE "idle")
    /\ UNCHANGED <<top, fresh, boxVars, pin, pins, local>>

Limit(npins) == IF npins < LF_PINBOX_MAX_PINS THEN npins ELSE LF_PINBOX_MAX_PINS

(* _lf_pinbox_real_free.  Without stack space for an array of the pinned   *)
(* addresses nothing is harvested and every object is looked up by itself. *)
RealFree(t) ==
    /\ pc[t] = "real_free"
    /\ \E addr \in BOOLEAN :
         Set(t, [local[t] EXCEPT !.addr = addr, !.npins = pinsInArray + 1,
                    !.scan = IF addr THEN 1 ELSE Limit(pinsInArray + 1)])
    /\ Goto(t, "harvest")
    /\ UNCHANGED <<stackVars, boxVars, elVars, pin, pins, objects>>

(* Variant: the scan stops before the last element. *)
HarvestPinsShort(t) ==
    LET l == local[t] IN
    /\ pc[t] = "harvest" /\ l.scan < Limit(l.npins)
    /\ Set(t, [l EXCEPT !.scan = @ + 1,
                  !.granary = IF l.scan + 1 = Limit(l.npins) THEN @
                              ELSE @ \cup ({pin[l.scan]} \ {Null})])
    /\ UNCHANGED <<stackVars, boxVars, elVars, pin, pc, pins, objects>>

(* harvest_pins, one element *)
HarvestPins(t) ==
    LET l == local[t] IN
    /\ pc[t] = "harvest" /\ l.scan < Limit(l.npins)
    /\ Set(t, [l EXCEPT !.scan = @ + 1,
                  !.granary = @ \cup ({pin[l.scan]} \ {Null})])
    /\ UNCHANGED <<stackVars, boxVars, elVars, pin, pc, pins, objects>>

(* The purgatory becomes a local list. *)
TakePurgatory(t) ==
    LET l == local[t] IN
    /\ pc[t] = "harvest" /\ l.scan >= Limit(l.npins)
    /\ Set(t, [l EXCEPT !.list = purgatory[pins[t]], !.scan = 1, !.npins = 0])
    /\ purgatory' = [purgatory EXCEPT ![pins[t]] = Null]
    /\ purgatoryCount' = [purgatoryCount EXCEPT ![pins[t]] = 0]
    /\ Goto(t, "sweep")
    /\ UNCHANGED <<stackVars, boxVars, pin, pins, objects>>

(* found: the object at the head of the list stays in the purgatory *)
Keep(t) ==
    LET l == local[t]  e == pins[t] IN
    /\ AddToPurgatory(e, l.list, purgatory[e], purgatoryCount[e])
    /\ Set(t, [l EXCEPT !.list = freeptr[l.list], !.scan = 1])
    /\ Goto(t, "sweep")

(* not pinned: it joins the chain first -> ... -> last *)
Chain(t) ==
    LET l == local[t]  cur == l.list IN
    /\ freeptr' = IF l.last = Null THEN freeptr ELSE [freeptr EXCEPT ![l.last] = cur]
    /\ Set(t, [l EXCEPT !.list = freeptr[cur], !.last = cur, !.scan = 1,
                        !.first = IF l.last = Null THEN cur ELSE @])
    /\ Goto(t, "sweep")
    /\ UNCHANGED elVars

(* The binary search of cur among the addresses harvest_pins collected,    *)
(* sorted and possibly repeated.                                           *)
PtrSearch(addr, cur) ==
    LET Between[a \in DOMAIN addr, b \in DOMAIN addr] ==
            LET c == a + (b - a) \div 2 IN
            IF b - a <= 1 THEN cur = addr[a] \/ cur = addr[b]
            ELSE \/ cur = addr[c]
                 \/ cur > addr[c] /\ Between[c, b]
                 \/ cur < addr[c] /\ Between[a, c]
    IN  Between[1, Len(addr)]

(* One object looked up: PtrSearch finds it exactly when it was harvested  *)
(* (checked for every sorted array up to a length), so the array is kept   *)
(* as the set granary.                                                     *)
Sweep(t) ==
    LET l == local[t] IN
    /\ pc[t] = "sweep" /\ l.addr /\ l.list # Null
    /\ IF l.list \in l.granary THEN Keep(t) ELSE Chain(t)
    /\ UNCHANGED <<top, fresh, boxVars, pin, pins, objects>>

(* match_pins, one element for the object at the head of the list *)
MatchPins(t) ==
    LET l == local[t] IN
    /\ pc[t] = "sweep" /\ ~l.addr /\ l.list # Null
    /\ \/ l.scan = LF_PINBOX_MAX_PINS /\ Chain(t)
       \/ l.scan \in Elements /\ pin[l.scan] = l.list /\ Keep(t)
       \/ /\ l.scan \in Elements /\ pin[l.scan] # l.list
          /\ Set(t, [l EXCEPT !.scan = @ + 1])
          /\ UNCHANGED <<freeptr, elVars, pc>>
    /\ UNCHANGED <<top, fresh, boxVars, pin, pins, objects>>

(* The locals that outlive a call of _lf_pinbox_real_free: put_pins' own. *)
PutLocals(l) == [NoLocals EXCEPT !.index = l.index, !.caller = l.caller]

(* The list is done: alloc_free reads top if there is a chain to push. *)
SweepDone(t) ==
    LET l == local[t] IN
    /\ pc[t] = "sweep" /\ l.list = Null
    /\ IF l.last = Null
       THEN Set(t, PutLocals(l)) /\ Goto(t, l.caller)
       ELSE Set(t, [l EXCEPT !.node = top]) /\ Goto(t, "push_link")
    /\ UNCHANGED <<stackVars, boxVars, elVars, pin, pins, objects>>

PushLink(t) ==
    /\ pc[t] = "push_link"
    /\ freeptr' = [freeptr EXCEPT ![local[t].last] = local[t].node]
    /\ Goto(t, "push_cas")
    /\ UNCHANGED <<top, fresh, boxVars, elVars, pin, pins, local, objects>>

(* Variant: a failed attempt is repeated without linking the chain to the  *)
(* new top.                                                                *)
PushCasStaleLink(t) ==
    LET l == local[t] IN
    /\ pc[t] = "push_cas"
    /\ IF top = l.node
       THEN top' = l.first /\ Set(t, PutLocals(l)) /\ Goto(t, l.caller)
       ELSE /\ UNCHANGED <<top, pc>>
            /\ Set(t, [l EXCEPT !.node = top])
    /\ UNCHANGED <<freeptr, fresh, boxVars, elVars, pin, pins, objects>>

PushCas(t) ==
    LET l == local[t] IN
    /\ pc[t] = "push_cas"
    /\ IF top = l.node
       THEN top' = l.first /\ Set(t, PutLocals(l)) /\ Goto(t, l.caller)
       ELSE /\ UNCHANGED top
            /\ Set(t, [l EXCEPT !.node = top])
            /\ Goto(t, "push_link")
    /\ UNCHANGED <<freeptr, fresh, boxVars, elVars, pin, pins, objects>>

-----------------------------------------------------------------------------
Step(t) ==
    \/ GetPins(t) \/ GetPinsNew(t) \/ GetPinsRead(t) \/ GetPinsCas(t)
    \/ GetPinsInit(t)
    \/ PutPins(t) \/ PutPinsFlush(t) \/ PutPinsRead(t) \/ PutPinsLink(t)
    \/ PutPinsCas(t)
    \/ NewTop(t) \/ NewPin(t) \/ NewCheck(t) \/ NewMalloc(t) \/ NewNext(t)
    \/ NewCas(t) \/ NewUnpin(t)
    \/ Free(t) \/ RealFree(t) \/ HarvestPins(t) \/ TakePurgatory(t)
    \/ Sweep(t) \/ MatchPins(t) \/ SweepDone(t) \/ PushLink(t) \/ PushCas(t)

Next == \E t \in Threads : Step(t)

Spec == Init /\ [][Next]_vars

-----------------------------------------------------------------------------
(* The entries a chain of links f reaches from n, the end mark included    *)
(* when the chain ends.                                                    *)
Reach(f, n) ==
    LET Within[k \in Nat] ==
            IF k = 0 THEN {n}
            ELSE LET before == Within[k - 1]
                 IN  before \cup {f[m] : m \in before \cap DOMAIN f}
    IN  Within[Cardinality(DOMAIN f)]

Listed(n) == Reach(freeptr, n) \ {Null}

Stack == Listed(top)

(* The objects t was given, the one it is about to return included *)
Held(t) == objects[t] \cup (IF pc[t] = "new_unpin" THEN {local[t].node} \ {Null} ELSE {})

(* The list t is sweeping *)
Swept(t) == Listed(local[t].list)

(* The chain first -> ... -> last t has built and not yet pushed *)
Chained(t) ==
    LET l == local[t]
    IN  IF l.last = Null THEN {}
        ELSE Reach([freeptr EXCEPT ![l.last] = Null], l.first) \ {Null}

Owners(n) ==
    (IF n \in fresh THEN {<<"fresh">>} ELSE {})
    \cup (IF n \in Stack THEN {<<"stack">>} ELSE {})
    \cup {<<"held", t>> : t \in {u \in Threads : n \in Held(u)}}
    \cup {<<"swept", t>> : t \in {u \in Threads : n \in Swept(u)}}
    \cup {<<"chained", t>> : t \in {u \in Threads : n \in Chained(u)}}
    \cup {<<"purgatory", e>> : e \in {d \in Elements : n \in Listed(purgatory[d])}}

(* Whatever the threads do between two atomic accesses, an object is in    *)
(* exactly one place: on the stack, with one user, in one purgatory or in  *)
(* the hands of one thread that is freeing it, although one word links     *)
(* them all.  Nothing is handed out twice and nothing is lost.  And the    *)
(* ABA problem of _lf_alloc_new does not arise: when the compare-and-swap  *)
(* on top is about to succeed, the successor read before it is still the   *)
(* successor, however often the object left and came back in between.      *)
OnePlace ==
    /\ TypeOK
    /\ \A n \in Nodes : Cardinality(Owners(n)) = 1
    /\ \A t \in Threads :
          pc[t] = "new_cas" /\ top = local[t].node => freeptr[top] = local[t].next

(* The guarantee of the pinning protocol: once top was seen unchanged      *)
(* after the pin was set, the object is not put back on the stack while    *)
(* the pin is there; a scan that began before the pin was set included.    *)
PinnedIsNotFreed ==
    [][\A t \in Threads :
         pc[t] \in {"new_next", "new_cas"} /\ local[t].node \notin Stack
            => local[t].node \notin Stack']_vars

PinStack == Reach(link, Index(topVer)) \ {0}

PinsOwners(e) ==
    (IF e \in PinStack THEN {<<"unused">>} ELSE {})
    \cup {<<"owned", t>> : t \in {u \in Threads : pins[u] = e}}
    \cup {<<"given", t>> : t \in {u \in Threads : pc[u] = "get_init" /\ local[u].index = e}}

(* Pins are not shared: an element of the pinbox is on the stack of unused *)
(* ones or with one thread, never both, never twice, never nowhere, and    *)
(* an unused one keeps no object in its purgatory and no pin.  The version *)
(* in pinstack_top_ver is what makes the pop of get_pins safe.             *)
PinsHaveOneOwner == \A e \in Elements :
    /\ Cardinality(PinsOwners(e)) = IF e <= pinsInArray THEN 1 ELSE 0
    /\ e \in PinStack => purgatory[e] = Null /\ pin[e] = Null

Available == fresh \cup Stack

Pool == INSTANCE ObjectPool WITH
    available <- Available,
    held      <- [t \in Threads |-> Held(t)],
    retired   <- Nodes \ (Available \cup UNION {Held(t) : t \in Threads})

(* The allocator implements the object pool its users rely on. *)
ImplementsPool == Pool!Spec
=============================================================================
