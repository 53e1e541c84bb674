# TLA+ models of the blockchain-node REST API

The repository's one source file,
`src/sdk/examples/intkey_python/sawtooth_intkey/client_cli/intkey_cli.py`, is the
Sawtooth intkey CLI extended with an aiohttp REST API (`start`). That API handles
public-key registration and approval, plus wills that several witnesses must sign.
All of its state lives in the ledger, which it reaches only through `IntkeyClient`:
`get_value` (`client.show`) and `client.set(key, value, wait)`. This directory
models that API with TLA+ and checks it with TLC.

## Inventory

| Component | State (ledger keys) | Operations that change state | Read-only operations |
|---|---|---|---|
| Registry | user record at `<pubkey>` (status `need_review`/`approved`/caller-set); review queue at `KEY_NEED_REVIEW` | `register_pubkey` (521-575), `approve_public_key` (636-672) | `show_user`, `list_need_approve` |
| WillLedger | will at `WILL_<testator>` (status, witness entries with `signed`); index at `WILL_LIST_<witness>` | `create_will` (675-727), `witness_sign` (807-879) | `show_will`, `show_will_list` |
| Ledger client (external) | committed state; batches submitted but not yet committed | `set`, validator commit | `show` |
| REST boundary, `_wrap_response` | none | none | routing, JSON envelope |
| KeyGen (`generate_key`) | key files `<second>.priv/.pub` under `/root/.sawtooth/keys` | `generate_key` (882-911) | none |
| intkey commands, argparse, logging | none of their own | pass-through `set/inc/dec/mul` | `show`, `list` |

**How the parts interact.** Each handler reads keys with `get_value` and writes
them with `client.set`. No two handlers share anything but the ledger.
`show_will_list` reads the Registry's user records to attach the testator.

**What is hard.**
- *Atomicity and concurrency.* The handlers are `async`, but the client calls are
  synchronous. The only `await` is `request.json()`, and it comes before any ledger
  access. So under the single-threaded event loop a handler's store calls run without
  interleaving. The concurrency that remains comes from the ledger. Without `--wait`
  (`global_args.wait = None`), `client.set` returns once the batch is submitted, and
  reads see only committed state. A read-modify-write such as the review queue, a
  witness index or a will can therefore be computed from stale state and overwrite
  a write that is still pending. With `--wait` the call blocks until commit. With a
  finite `--wait N` a timed-out batch is still pending, exactly as without `--wait`.
- *Partial failure.* Register, approve and create-will each write several keys.
  Any `client.set` can raise, and nothing is rolled back.
- *Error conflation.* `register_pubkey` and `create_will` catch every
  `IntkeyClientException` from a read as "key absent".
- *Counting.* `witness_sign` counts signatures in one pass that both counts and marks.

**What makes each component correct.**
- Registry:
  - no key is queued twice;
  - every `need_review` user is queued, and every queued user is `need_review`;
  - the admin listing answers;
  - seen through `show_user` and the queue, it is the registry of spec 4.1.
- WillLedger:
  - a will is valid exactly when all its witnesses signed, and stays valid;
  - every witness index lists the wills that name it;
  - an acknowledged signature is kept, and the last acknowledged create wins;
  - seen through `show_will`, it is the will machine of spec 4.2.
- Composition: a registered testator's will shows up for each of its witnesses.
- KeyGen: no two callers of `/generate_key` receive the same key pair.

## Modules

- `LedgerStore` is the ledger as the handlers see it.
  - `store` maps every key to its committed value or `NotFound`.
  - `pending` is the FIFO queue of submitted batches.
  - `SYNC` selects `--wait`. `Submit(ws)` issues a handler's `set` calls in order.
  - `View(ws)` is what a later `get_value` in the same handler returns.
  - `Commit` is the validator committing the oldest batch.
  - `WriteCuts` and `AbortCuts` pick how many of the handler's writes happen
    before a raising call stops it (`WRITE_ERRORS`, `READ_ERRORS`).
  - A key string is a sequence of tokens and `+` is `\o`. The prefixes
    `WILL_`, `LIST_` and `KEY_NEED_REVIEW` are model values, and `KeyName[k]`
    is the token sequence of public key k (normally `<<k>>`). So
    `WillKey(t) == <<WILL_>> \o KeyName[t]` is `"WILL_" + testator`, and a
    public key spelled `KEY_NEED_REVIEW` really is the review key (an ASSUME
    keeps `KeyName` injective).
- `Registry` (EXTENDS LedgerStore)
  - `Register(k, st)` is the whole of `register_pubkey`: reading the queue (where
    a read error resets it), appending if absent, writing the queue and then the
    record (status defaults to `need_review` when the body has none). Its
    `.append` raises when the queue key holds a record (`IsList`). The
    history variable `registered` holds the keys whose register got a 200.
  - The statuses `need_review` and `approved` are model values, so the
    store holds no mix of strings and tuples (TLC cannot compare those).
  - `Approve(k)` is the whole of `approve_public_key`. It raises (a guard)
    when the record is itself a list.
  - `ShowUser(s, k)` and `ListNeedApprove(s)` are `show_user` and `list_need_approve`.
  - `RegistryRefines` maps the store onto `AbstractRegistry` (`users` from
    `show_user`, `queue` the set of queued keys).
- `WillLedger` (EXTENDS LedgerStore)
  - `CreateWill(t, wl)` runs the index loop (`IndexWrites`, RECURSIVE over the
    witness list, re-reading through `View`), then writes the will (`WillBody`).
  - `WitnessSign(t, w)` uses `SignCount`, `MarkSigned` and `SignedWill`, exactly
    as the loop of lines 838-845 and the check at 871.
  - `SignWrites` is the write of line 874.
  - `ShowWill(s, t)` and `ShowWillList(s, w)` are `show_will` and `show_will_list`
    (the latter with its skip-on-error).
  - The history variables `signedOk` (signatures that got a 200) and `created`
    (the witness list of the last `/will/create` that got a 200) are read by no
    action.
  - `WillRefines` maps the store onto `AbstractWill` (witness keys, the set of
    signed witnesses, and whether the status is `valid`).
- `AbstractRegistry` and `AbstractWill` are written from spec 4.1 and 4.2, not
  from the code: what the components promise. The registry's Register and Approve
  each make two writes the spec admits may be separated (spec 7), so the abstract
  registry also has the first write of each (`Enqueue`, `MarkApproved`).
- `BlockchainNode` (EXTENDS both) has every writing route over one ledger.
- `KeyGen` is `generate_key`.
  - `now` is the wall clock in ticks (`TicksPerSecond` per second), advanced
    by `Tick`.
  - `keydir` maps a file name to the pair its files hold.
  - `KeyFileName(t)` is line 895: the second, the fraction cut off.
  - `KeygenResults` is the external `sawtooth keygen`, modelled from its
    documented behaviour: a fresh pair, or a refusal when the files exist (the
    call passes no `--force`), or a failure (`KEYGEN_ERRORS`). `call()`
    ignores which.
  - `GenerateKey` then reads both files. It answers 500 when they are absent,
    and otherwise returns the pair and records it in the history `issued`.
- `MCRegistry`, `MCWillLedger`, `MCNode` and `MCKeyGen` give the constants:
  public keys and key pairs as model values. The safety runs over public keys
  use symmetry, since every property is symmetric in the keys. The liveness run
  registry_async does not.

Data is abstracted. A user record is its status. A will is its status and its
witness entries (key, signed). Profile fields, JSON layout and logging are left out.
Handlers' method checks (a wrong HTTP method returns an empty 200) change nothing,
so they are stutter steps.

## Runs

| Run | Mode | Checks | Result |
|---|---|---|---|
| registry_async | no wait, ≤3 pending, 4 keys, weakly fair commit | RegistryTypeOK, NoDuplicatePending; property RegistrationVisible | pass (203063, ~18 s) |
| will_async | no wait, ≤2 pending, `VIEW storeVars` | WillTypeOK, AllSignedValid, WitnessIndexIsSet | pass (827k, ~80 s) |
| node_sync | `--wait`, set may fail, 2 keys, lists ≤2 | PendingListed, WitnessIndexComplete, SignRecorded, LastCreateWins, WitnessSeesWill; properties RegistryRefines, ValidWillStays | pass (58677, ~60 s) |
| will_refinement | `--wait` | WillRefines | violated: re-signing counts twice, the will is valid with a witness unsigned |
| create_sign_race | no wait, ≤2 pending | LastCreateWins | violated: a stale sign write restores the old will |
| approve_partial | `--wait`, set may fail, no caller status | QueuedNeedReview | violated: an approved user stays queued |
| namespace_collision | `--wait`, key b spelled `KEY_NEED_REVIEW` | PendingListed | violated: b's record overwrites the queue |
| register_read_error | `--wait`, reads may fail | PendingListed | violated: the queue is reset |
| list_pending_abort | `--wait`, set may fail | ListPendingServes | violated: /admin/list raises |
| register_lost_update | no wait, ≤4 pending | PendingListed | violated: a registration is lost |
| keygen_same_second | 2 ticks per second, ≤3 requests, keygen as called | KeysNotShared | violated: two callers in one second get the same private key |
| sign_lost_update | no wait, ≤3 pending | SignRecorded | violated: an acknowledged signature is lost |

node_sync checks only what failing writes and the composition can reach.
The type invariants, `NoDuplicatePending`, `AllSignedValid` and
`WitnessIndexIsSet` are checked in the no-wait runs. Their stale reads reach
every case that a cut write under `--wait` does.

Each property of a passing run has a mutant in PROJECT.json. A mutant is a plausible
slip in the mapped code that TLC catches, for example:
- `pending_list.pop(0)` instead of `remove`;
- a `break` after the first matching witness;
- the testator looked up under the witness's key.

**Bounds.** Four keys in the registry give three users competing for the queue
while one is approved. In the composed node two keys already reach every
registry property's counterexample mutant (register a, register b, approve b),
and two keys and witness lists of up to two entries cover the
following for wills:
- wills with two witnesses;
- repeated witnesses and self-witnessing;
- two wills sharing a witness;
- a re-created will.

The no-wait bounds were chosen for the following reasons:
- A first registration needs 3 batches, so the registry's lost update needs 4.
- A will lost update needs 3.
- The passing will run uses 2 to stay under five minutes. Creating a two-witness
  will whose indexes are already written still fits in 2. It fingerprints states
  by `<<store, pending>>` (`VIEW storeVars`): the history variables never
  enable or disable an action, and its invariants do not depend on them
  (beyond their type), so merging states that differ only there loses nothing.
- A re-creation racing a signature needs only 2: a create with no witnesses is
  one batch, the stale sign another.

**Fairness and liveness.** `RegistryFairSpec` adds weak fairness of `Commit`
alone: the validator runs apart from the REST process and commits every batch
submitted to it, while requests are never assumed to come. Under it,
`RegistrationVisible` says that a key whose `/register` got `{processing: true}`
is eventually found by `show_user`. It holds with up to three batches pending:
a registration's record write may be overwritten only by another write of a
record, never removed. Dropping the record write (only the bootstrap queue write
on a first registration) breaks it. No other handler waits, retries or loops on
ledger state, so there is nothing else that must eventually happen. The one
eventual property spec 8 states of wills (a will all of whose witnesses got a
200 becomes valid) is already refuted as safety by sign_lost_update: once the
lost write is committed nothing rewrites it, so fairness would only repeat that
counterexample. Symmetry is not used in the liveness run, where TLC does not
allow it soundly.

**Key generation.** keygen_same_second models `generate_key` as written. Two
requests within one second name their files alike. keygen refuses to overwrite,
`call()` ignores that, and the second caller reads and gets the first caller's
private key. Half-second ticks are the coarsest clock at which two requests
can share a second and still differ in time. Three pairs and three requests
also let the clock move on and keygen draw fresh pairs.

**Witness indexes.** `WitnessIndexIsSet` says no index lists a testator twice.
The indexes are never pruned (the removal in `witness_sign` is commented out), so
only the `not in` check in the loop of `create_will` bounds them, also when that
loop reads an index that is stale without `--wait`.

**Refinement.** `RegistryRefines` holds under `--wait` with failing writes. It
does not hold without `--wait`, where a stale queue write removes a key with no
approval (the lost update of register_lost_update). `WillRefines` fails even
under `--wait`, by the double count, so it is a violation run.

## Not modelled

- The REST envelope (`_wrap_response`, JSON layout) and method checks.
- The wall clock stepping backwards: same-second requests already reuse a name.
- A reset of a witness index by a read error (line 713). It is the same
  `except` branch as register's at line 556, shown by register_read_error.
  `WitnessIndexComplete` fails under `READ_ERRORS = TRUE` for `MCWillLedger`,
  but no kept run sets that.
- A retried `/register` after approval: it rewrites the record as need_review.
  Spec 4.1 writes the record unconditionally, so the abstract registry allows
  it; only spec 3's "mutated only by approval" does not.
- The intkey commands (`set`, `inc`, `dec`, `mul`, `show`, `list`): each is one
  `IntkeyClient` call whose effect is decided by the intkey transaction processor,
  which is neither in this repository's source nor described by the spec.
- Caller-supplied `status` fields inside a register body, a will body or its
  witness entries (line 545 keeps them, as spec 4.1 allows).
- The will status `pending`: spec 4.2 names it, but `create_will` stores a will
  with witnesses without any status. `ShowWill` models what is stored.
- Whether a valid will may be re-created: the code allows it, spec 4.2 makes
  valid terminal only for signing; `ValidWillStays` and `AbstractWill` allow it.
- Collisions between `WILL_<testator>` and `WILL_LIST_<witness>` keys (testator
  `LIST_x`): the token encoding can express them, but only the review-key
  collision is instantiated.
- Stale index entries after a will is re-created with other witnesses: spec 4.2
  lists them the same way, so it is documented as a hazard, not checked.
- Validators reordering or dropping batches: commits are FIFO and never lost.

## Plan

Done:
1. LedgerStore, Registry, WillLedger and the BlockchainNode composition.
2. Abstract registry and will machines with refinement mappings; the action
   property `ValidWillStays`; the last-create-wins and queued-need-review
   properties with their violation runs.
3. Key strings as token concatenation, exposing the review-key collision;
   weak fairness of the validator and `RegistrationVisible`; `WitnessIndexIsSet`.
4. `generate_key` (KeyGen) and its same-second key sharing.

Next:
5. An action property that a record becomes `approved` only through
   `approve_public_key`; it is broken by a caller-set status (line 545).
6. The `WILL_`/`WILL_LIST_` collision as its own run.
