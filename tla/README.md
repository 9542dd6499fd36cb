# TLA+ models of the CAmkES template allocators

This directory models the allocation and parsing algorithms of
`src/camkes/templates/macros.py`, which the CAmkES code generator runs once
per generation pass. The models are checked with TLC. Every definition is
translated from the Python source, and `PROJECT.json` lists the lines each
definition models (`map`).

## 1. Inventory

### The parts and how they interact

The driver (the template engine, not under `src/`) builds the composition
and the configuration once. It then calls each macro once per connection end
that needs a value. Each call is a pure function of the immutable inputs.
A call keeps no state between calls: it rebuilds the whole allocation of the
instance by rescanning every connection in declaration order.

The correctness of the whole scheme therefore rests on two things:

- separate calls, made in any order, agree on one namespace;
- every call derives the same prefix of the scan.

| Part | Code | State kept | Operations |
|---|---|---|---|
| Graph Model | `camkes.ast` (not in `src/`) | connections, each with ordered `from_ends` and `to_ends`; an end has an instance (and an interface) | read-only |
| Configuration Store | `configuration[...] .get(key, default)` | per instance (or per end) key/value | read-only lookups with default |
| Notification Badge Allocator | `global_endpoint_badges` 532–588 | per call: `base`, `mask`, cursor `next_badge` | `set_next_badge` (shift, skip bits outside the mask, raise at the width); scan of DTB, from-global and to-global ends |
| RPC Badge Allocator | `global_rpc_endpoint_badges` 594–646 | per call: `base`, `mask`, cursor, list `badges` | `set_next_badge` (increment, repair, raise at `min(2^bits, mask)`); the list is reset after every non-matching end |
| VirtQueue ID Allocator | `virtqueue_get_client_id` 652–684 | per call: `connections`, `ids`, `current_id` | collect the ends; look up pins by `<interface>_id`; a bounded scan for the first free ID |
| Group Label Canonicalizer | `integrity_group_labels` 473–526 | per call: the dict `group_labels` | three loops (groups, integrity labels, internal connections), each recording canonical labels; a final re-canonicalisation; `get_canonical_label` raises on a cycle |
| Interrupt Descriptor Parser | `parse_dtb_node_interrupts` 690–834 | none (pure) | an ARM branch and a generic branch, each returning its list; it raises on malformed, too many or non-integer cells |
| Untyped Range Splitter | `get_untypeds_from_range` 94–115 | per call: `current`, `remaining`, list `uts` | one loop iteration: the alignment of `current`, halved until it fits `remaining`, appended |
| Page, rounding and integer-type helpers | `next_page_multiple` 74–82, `align_page_address` 89–91, `get_page_size` 122–134, `type_to_fit_integer` 163–174, `ROUND_UP` 343–346, `ROUND_DOWN` 349–352 | none (pure) | page-size arithmetic on capdl's `page_sizes(arch)`; the C type for an integer (modelled, no property: nothing under `src/` says whether the type must hold the value or the values below it) |
| Formatting helpers | the rest of lines 1–470 | none | string building, not modelled |

The notification allocator calls the interrupt parser for every DTB end that
has `generate_interrupts` set. It hands out one badge per interrupt.

### The hard behaviours

- **Rescanning per call.**
  - Two calls for two ends of one instance must not collide. Each call must
    reproduce the same cursor history up to its own end, whatever order the
    templates call the macro in.
  - The cursor is advanced *after* every badge, including the one returned.
    So a call can fail with exhaustion although its own badges fit.
- **Bit arithmetic.**
  - Notification: skip positions outside the mask.
  - RPC: the repair `(~mask & v) + v`, which its comment says relies on "only
    1 bit wrong at a time".
  - The RPC bound `min(2^bits, mask)`. Accepting the value equal to the
    bound would make no difference: the eager advance after it fails anyway.
- **Order-dependent resolution in `integrity_group_labels`.**
  - Each loop canonicalises through `group_labels` as it stands.
  - Entries recorded in loop 1 are overridden in loop 2 after other entries
    were already resolved through them.
- **The free-ID scan.** It tries only `len(ids)` candidates.
- **The device-tree parser.**
  - Heuristics for the cell width.
  - On ARM the too-many-interrupts raise applies `%` to the exception.
- **Unvalidated configuration.** Nothing checks that a badge base is
  disjoint from its mask, or that a connection name differs from every
  label in `group_labels`.
- **The untyped splitter.** Each block must be aligned to its own size, and
  the blocks must tile the range exactly. The loop must end.

### Properties that make each part correct

| Part | Property |
|---|---|
| Notification badges | `BadgesDistinct`: two ends of one instance never share a badge. `BadgeWellFormed`: a badge minus its base is one bit of the mask. `ExhaustionOnlyWhenFull`: exhaustion means the mask really is too small. |
| RPC badges | `RpcBadgesDistinct`. `RpcMatchesReference`: each end gets exactly the next usable in-mask values, in scan order, with no gap. `RpcExhaustionOnlyWhenFull`: an end is refused only when the usable values run out. |
| VirtQueue IDs | `VirtQueueIdsDistinct`. `VirtQueueMatchesReference`: a pinned end gets its pin, and the r-th unpinned end gets the r-th unpinned natural number. |
| Interrupt parser | `ArmDecodesSpec`, `GenericMatchesSpec`: the descriptors or the error equal a decoder written from spec §4.5. `ArmTooManyReported`. |
| Page helpers | `NextPageMultipleSmallest` (the docstring's smallest 4K multiple), `AlignIsRoundDown` (the bit mask agrees with division), `GetPageSizeLargest` (the `reversed` walk finds the largest page), `RoundingBrackets`. |
| Untyped splitter | `Termination`. `AbsSpec`: the loop implements `UntypedCarve`, which carves aligned power-of-two blocks off the range. `UntypedsMinimal`: it uses the fewest such blocks. |
| Group labels | `CycleIffReference`: the call raises exactly when the declared redirects contain a cycle. `MatchesReference`: the result equals the declared redirects resolved to the end of their chains. |

## 2. Modules

| Module | Models | Composes |
|---|---|---|
| `CamkesGraph` | the graph model: ends as positions `<<k, side, j>>` (Python `is`), `Get` for `.get(key, default)` | — |
| `DtbInterrupts` | `parse_dtb_node_interrupts` as operators; the result kind is `list` or `raise` | — |
| `NotificationBadges` | `global_endpoint_badges` | `CamkesGraph`, `INSTANCE DtbInterrupts` |
| `RpcBadges` | `global_rpc_endpoint_badges` | `CamkesGraph` |
| `VirtQueueIds` | `virtqueue_get_client_id` | `CamkesGraph` |
| `GroupLabels` | `integrity_group_labels`, step by step | — |
| `DtbParse` | one call of `parse_dtb_node_interrupts` on a node from a set | `DtbInterrupts` |
| `UntypedRange` | `get_untypeds_from_range`, one loop iteration per step | `INSTANCE UntypedCarve` |
| `PageHelpers` | the five page and rounding helpers and `type_to_fit_integer`; one action per helper call | — |
| `MCHelpers` | the pure helpers in one model: a behaviour is one `PageHelpers` call or one `DtbParse` call | `EXTENDS PageHelpers`, `INSTANCE DtbParse` |
| `MCAllocators` | the RPC and the virtqueue allocators in one model: a behaviour is a pass over RPC connections or over virtqueue connections | `EXTENDS MCRpcBadges`, `INSTANCE VirtQueueIds` |
| `UntypedCarve` | the abstract splitter: any aligned power-of-two block is carved off the front | — |
| `MC*` | the model values, connection shapes and configurations for TLC | the module it names |

### How state and actions correspond to the code

**The three allocators** (`NotificationBadges`, `RpcBadges`, `VirtQueueIds`):

- The state is one generation pass:
  - the composition (`comp`) and the configuration (`instCfg`, `endCfg`,
    `cfg`), which `Init` picks from the MC sets;
  - the result of every call made so far (`badges`, `clientId`).
- One action, `Call...(e)`, is one call of the macro for end `e`. The ends
  can be called in any order.
- The call itself is a set of RECURSIVE operators that follow the Python
  loops one for one:
  - `ConnLoop` covers the connections, `ConnStep` one connection, and
    `EndLoop`, `DtbLoop`, `IrqLoop` and `PeerLoop` the inner loops;
  - `SetNextBadge` is `set_next_badge`;
  - `Advance` is the cursor step after a badge;
  - `Scan` and `Assign` are the two loops of the ID allocator.
- A call's outcome is "returned a badge or list" or "raised `err`".
- Python `~mask & n` is written `n - (n & mask)`, with `Bitwise`.

**`GroupLabels`**:

- Its state is the dict `labels`, the phase (which loop is running), the loop
  index and the returned dict.
- Each action is one iteration of one loop: `GroupStep`, `LabelStep`,
  `ConnStep`, and `Finish` for the final comprehension.
- A raise of `get_canonical_label` moves to phase `error`.
- `ParsedAddrSpaces` restricts `Init` to the address spaces the stage-5
  parser can produce: a group named after an instance contains that instance.

**`DtbParse`**: `Init` picks the node, `max_num_interrupts` and the
architecture; `Parse` is the call. A node is a record of `interrupts` and
`interrupts_extended`, each a cell list or `None`. Cells are small integers
or the model value `NonInt`, a cell that is not an integer.

**`PageHelpers`**: `Init` picks one call, a record of the helper's name
and its arguments. The action of that helper (`NextPageMultipleCall`, ...)
computes the result into `out`. The loop of `next_page_multiple` is written
as its effect: the first `base + 16384*n` not below the size.
`type_to_fit_integer`'s argument can need 65 bits, beyond TLC's 32-bit
integers, so it is the record `[k, d]` for `2^k + d` with small `d`;
`value <= 2**m` is then `AtMostPow`, exact for such values. The result is
the width of the returned type, or `NoType` for the raise.

**`MCHelpers` and `MCAllocators`** each put two models side by side in one
run. `Init` is a disjunction: one part picks its arguments and the other
keeps idle values (for the allocators, an empty composition, which has no
ends and so no calls). `Next` is the disjunction of each part's `Next` with
the other part unchanged. The states are exactly those of the two separate
models: 204,876 + 35,339 = 240,215 for `MCAllocators`.

**`UntypedRange`**:

- The state is the loop's locals: `current`, `remaining`, `uts`, and `pc`
  (in the loop, or returned).
- `Step` is one iteration of the `while` loop. The inner halving loop is the
  operator `Fit`.
- `Return` leaves the loop.
- `ctz` is `capdl.util.ctz`, outside `src/`. `Ctz` follows its definition for
  positive numbers; `ctz(0)` is the constant `CtzZero`.

## 3. Runs

| Run | Cfg | Expect | What it shows |
|---|---|---|---|
| `notif_arm` | `MCNotificationBadges.cfg` | pass | Two instances and up to 3 connections from 5 shapes: global notification to/from, DTB hardware with 0, 1 or 2 interrupts, and a plain one. Three instance configurations (default, base 0, base 1 with mask 2), 3 badge bits, aarch64. All calls in all orders give distinct, well-formed badges. |
| `notif_exhaustion` | `MCNotif_ExhaustionOnlyWhenFull.cfg` | violation | A DTB end with 2 interrupts and the default mask 6 is refused, although both of its badges (2 and 4) fit. The RPC allocator advances the same way (`rpc_exhaustion`). |
| `allocators` | `MCAllocators.cfg` | pass | RPC: up to 3 connections from 4 shapes (server on the to-side or the from-side, 1–2 peers), 4 badge bits, masks 14 (default), 10 and 13 with bases 0, 1 and 2; the badges are distinct and equal the reference enumeration of usable values. Virtqueues: up to 3 connections between two instances, from an instance to itself, and of another type; pins none, 0 or 2, distinct per instance (`PinsDistinct`); the IDs are distinct and equal the reference. |
| `rpc_exhaustion` | `MCRpcBadges_Exhaustion.cfg` | violation | With mask 10 (usable 2 and 8) a server end with two clients is refused, although both badges fit: after badge 8 the step to 9 is repaired to 10, which reaches `min(2^bits, mask)` (line 632). |
| `group_labels` | `MCGroupLabels.cfg` | pass | 3 instances and 2 connections. Address spaces are instances or a group `g`; integrity labels are `g`, `L` or none. The result equals the reference: the declared redirects followed to their ends, whatever order the loops record entries in. (No declared cycle is reachable with these labels, so the cycle error is the question of the violation runs.) |
| `group_labels_order` | `MCGroupLabels_MatchesReference.cfg` | violation | A label that names an instance resolves through a stale entry; the result depends on instance order. |
| `group_labels_false_cycle` | `MCGroupLabels_FalseCycle.cfg` | violation | `a.label = b`, `b.address_space = a`, `b.label = L`: loop 1 records `b -> a`, loop 2 resolves `a`'s label through it and records `a -> a`, and the final pass raises "cycle in group labelling" with no cycle declared. |
| `group_labels_conn_name` | `MCGroupLabels_ConnNamedLikeLabel.cfg` | violation | A connection named `L` between two instances labelled `L` records `L -> L`; the call raises "cycle in group labelling". |
| `helpers` | `MCHelpers.cfg` | pass | Interrupt parser: every cell list of length 0–6 over {0, 2, 4, `NonInt`}, plain or extended (or none), limits -1, 0 and 1, on aarch64 and riscv64; well-formed ARM lists and all non-ARM lists decode as spec §4.5 says. Page helpers: the page sizes of aarch32, aarch64 and ia32, sizes and addresses on both sides of every page size and 16K step, `x` in -9..9, `y` in 1..4, and `type_to_fit_integer` on both sides of 2^8..2^64; `align_page_address` rounds down, `get_page_size` finds the largest dividing page, the rounding macros bracket `x`. 131,656 states. |
| `dtb_arm_too_many` | `MCDtbParse_ArmTooManyReported.cfg` | violation | ARM, limit 0, one extended interrupt: TypeError instead of the too-many-interrupts error. |
| `next_page_smallest` | `MCHelpers_NextPageSmallest.cfg` | violation | `next_page_multiple(4097)` on a 4K-page architecture returns 20480; the docstring promises the smallest multiple of 4K that covers the size, 8192. |
| `untyped_range` | `MCUntypedRange.cfg` | pass | Every start in 0..15 and size in 0..17: the loop ends, implements `UntypedCarve`, and uses the fewest aligned blocks. |

The violation runs are the findings in `PROJECT.json`. The
`group_labels_order` run excludes labels that name the instance itself. The
virtqueue passes of the `allocators` run are restricted to configurations
without duplicate pins (`PinsDistinct` in `AInit`); duplicate pins collide
silently (hazard at line 674).

### Why these bounds are enough

- **Badge bits.** 3 and 4 badge bits with the masks above give both full and
  sparse masks.
- **Hitting the bounds.** Three connections are enough to reach exhaustion,
  and to make the RPC repair step over a run of disallowed bits (mask 10:
  3→… and 9→10).
- **End order.** The shapes put an instance on both sides and twice on one
  side, so the end order inside a connection and across connections matters.
- **Group labels.** Three instances are the fewest for a label chain of
  length two that goes through an overridden entry.
- **VirtQueue IDs.** The virtqueue shapes make an instance hold 1–3 ends with
  shared and distinct interface names.
- **Interrupt cells.** Lists of up to 6 cells reach every width guess (1 and
  3), a remainder, two interrupts per node, and the ARM extended form with 1
  interrupt. The cell 4 sits on the ARM trigger boundary (`< 4`); 2 and 4
  separate the low flag bits; `NonInt` reaches the value checks.
- **Page helpers.** The sizes sit at, one below and one above the pages and
  the 16K steps; the 4M, 1M, 16M and 1G pages make `get_page_size` choose
  among several dividing pages. Negative `x` reaches floor division.
- **Untyped ranges.** Starts 0..15 have every alignment up to 8 and the
  start 0 (`ctz(0)`); sizes up to 17 need up to 5 blocks and cross several
  alignment boundaries.

### Fairness, liveness and refinement

The allocators, the parser and the group-label call are checked for safety
only, with no fairness. Each generation pass ends once every end has been
called, or once the call has returned or raised. Those runs therefore say
`CHECK_DEADLOCK FALSE`: a final state is the real end of the pass.

`UntypedRange` assumes weak fairness on `Next`. A Python call runs on to
its `return` unless it raises or loops, so an enabled loop step is
eventually taken. Under it, `Termination` says the loop ends, which fails
if an iteration can remove nothing from `remaining`.

`UntypedCarve` is the abstract specification. Its `Carve` action removes any
block `2^k` that is aligned at `covered` and fits `rest`. `UntypedRange`
maps onto it with `covered <- current`, `rest <- remaining`,
`blocks <- uts`, `done <- (pc = "done")`, and `AbsSpec` checks that
refinement, its fairness included. The mapping shows that the code's
choice — the largest block that the alignment and the remaining size allow
— is one of the carvings the abstract spec permits. `UntypedsMinimal` says
it is also the best one.

### Mutants

Every property of a passing run has a mutant in `PROJECT.json`. A mutant is
an operator defined just before the definition it replaces, marked
`\* Mutant:`, and models a plausible slip in the code:

- a missing final raise;
- a missing cursor advance;
- a dropped mask skip;
- a missing reset of the RPC badge list;
- swapped key and value;
- a label that does not override;
- no skip past taken IDs;
- a pin looked up with the wrong interface;
- the scan starting at 1;
- an off-by-one in the ARM trigger and the generic width tests;
- raw flags used as the generic trigger;
- a halving loop that never halves, stops one size too early or one too
  late;
- a step taken by the alignment instead of the fitted size;
- the mask `~page_size`, page sizes tried smallest first,
  and `(x + y) // y` in `ROUND_UP`.

Each mutant breaks its property under the run's own cfg.

## 4. Not modelled

- **Formatting helpers** (the rest of lines 1–470, but
  `type_to_fit_integer`). These are string building, out of the spec's
  scope. `threads` builds names that collide once instance names are
  sanitised; `PROJECT.json` lists it as a hazard without a run, since
  whether the names must be unique depends on templates outside `src/`.
- **The run budget.** The project keeps at most twelve runs, so the pure
  helpers share one run (`helpers`) and the RPC and virtqueue allocators
  another (`allocators`). A larger notification instance (a sixth shape,
  or a DTB end with the instance on both sides) did not finish in the time
  a run is given (over 7 million states after ten minutes), so `notif_arm`
  keeps five shapes and three connections.
- **A contract for `type_to_fit_integer`.** The helper is modelled and
  called in the `helpers` run, but nothing under `src/` says whether the
  returned type must hold `value` itself (`value <= 2**8` gives `uint8_t`
  for 256) or only the values below it, as for a count; no property is
  stated.
- **Badge masks wider than the badge bits.** `set_next_badge` tests the
  cursor before shifting it (line 546), so a configured mask with a bit at
  or above `2^BadgeBits` yields a badge past the width. `BadgeWellFormed`
  would report it; the `notif_arm` masks all lie below the width.
- **Badge bases that overlap the mask.** Neither allocator checks them; the
  default mask excludes the base (line 559). The runs keep them disjoint.
  With base 6 and mask 6, two notification badges of one instance are both 6.
  `BadgesDistinct` and `RpcBadgesDistinct` are the properties that would
  report it; no run is spent on a configuration the default excludes.
- **The ARM extended `len // 4` quirk with more than one interrupt.** It is
  modelled, but only the one-interrupt case the code's comment vouches for
  is stated as a property. The spec calls the rest legacy behaviour.
- **Equality of `camkes.ast` ends** (`connections.index(end)`). Ends are
  identified by position, as the spec requires.

## 5. Plan for later sittings

1. Write an abstract badge namespace: a server hands out the next free value
   of a set. Show `RpcBadges` and `NotificationBadges` to implement it with
   `INSTANCE ... WITH` a refinement mapping from the cursor to "values handed
   out".
2. Model `threads` (lines 266–320), with the thread list per instance checked
   against the composition.
3. Give `GroupLabels` a termination property under weak fairness.
