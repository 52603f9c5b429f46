# Verification of samsung-ril

samsung-ril is the vendor half of an Android telephony stack. `rild` calls it with
requests (dial, send an SMS, set up a data call), it talks to a Samsung modem over
libsamsung-ipc, and it gives every request an answer and rild unsolicited news. It is C,
some 6500 lines without the operator list, and has no tests. This directory holds TLA+
models of it, the TLC runs that check them, and proofs that TLAPS checks.

Contents: [the system](#1-the-system), [the models](#2-the-models),
[what the runs check](#3-what-the-runs-check), [disagreements found](#4-where-code-and-comments-disagree),
[what is proved](#5-what-is-proved), [what is left out](#6-what-is-not-modelled),
[the plan](#7-plan), [how to run it](#8-running-it).

## 1. The system

### Parties and what they share

    rild ── onRequest, onCancel ──►  driver  ── messages (aseq) ──►  modem
         ◄─ RIL_onRequestComplete ─          ◄─ GEN, RESP, NOTI ──
                                       ▲
    sound clients ── SRS socket ───────┘

* **rild** names a request by an opaque `RIL_Token`. `onRequest` runs on rild's thread.
* The **reader thread** of the FMT client (`ril_client_thread`) reads what the modem sends
  and hands it to `ipc_fmt_dispatch`; another does so for the RFS client.
* Each **sound client** has a thread that calls `srs_dispatch`.

One mutex, `ril_mutex`, is held over all of `onRequest`, `ipc_fmt_dispatch`,
`ipc_rfs_dispatch` and `srs_dispatch`. A handler is thus one atomic step, and is one
action in the models. What is *not* under it is `onCancel`, and the thread that destroys
and recreates a client. Concurrency in this program is otherwise a matter of messages:
the modem answers when it likes, rild asks meanwhile, and a handler that runs later finds
state that others left.

The modem answers a message in one of three ways, all carrying the message's 8-bit
`aseq`: by `IPC_GEN_PHONE_RES` (GEN), which only says whether a command was accepted; by a
response with data (RESP); or by both in that order. Notifications (NOTI) come unasked.

### Components

| Component | State | Operations | What makes it correct |
|---|---|---|---|
| Request tokens (`samsung-ril.c`) | `ril_requests_tokens[256]`, `ril_request_id` | register, look up, cancel, complete, clear | an aseq leads back to its own request; one answer each; a cancel shows in the answer |
| Generic responses (`gen.c`) | ring of 32 expectations | expect, match by aseq, clean | the expectation of a message that awaits a result is there when the result comes, and only it is settled |
| Stateless requests (`call.c`, `sec.c`, `sat.c`, `snd.c`, `net.c`, `misc.c`) | `dtmf_tone` | 25 entries of the switch of `onRequest` and its default, 11 responses | each is answered, once |
| Network registration (`net.c`) | a token and the last data for each of three kinds | three requests, three notifications and responses | rild ends up with what the modem has, never older after newer; no token is stuck |
| Outgoing SMS (`sms.c`) | array of 10, a lock | send, service center, result, acknowledgement | one at a time, each with its own PDU, none forgotten; the lock is given back when a reply reaches its handler |
| Data calls (`gprs.c`) | array of connections, last failed cid | set up, deactivate, fail cause, three results, three notifications | no request forgotten or answered twice; what is called enabled is on, and rild learns when it is not |
| Radio power, SIM status (`pwr.c`, `sec.c`) | `radio_state`, `power_mode`, `sim_status`, two tokens | power, status request, notifications of power and PIN status | RADIO_POWER and GET_SIM_STATUS are answered once, driver, modem and rild agree when the line is quiet |
| Identity (`misc.c`, `ril_tokens_check`) | three tokens | IMEI, IMEISV, version | what waits for the radio, or for the other of the pair, is asked for and answered |
| Signal strength (`disp.c`) | none | request, answer | answered in normal mode only |
| Incoming SMS (`sms.c`) | queue of 10 tpids | incoming, acknowledge, result of the report | no tpid is reported for two messages, and a message alone is reported under its own |
| USSD (`ss.c`) | `ussd_state` | send, cancel, notification, result | the encoding follows the session, and texts arrive as they were meant |
| Conversions (`util.c`) | none | gsm7, utf8, coding schemes | what one side writes the other reads |
| Clients (`client.c`, `ipc.c`, `RIL_Init`) | `state`, `object`, mutexes | create, destroy, thread, dispatch, send | each lock has its owner, a reader its own object, and every call returns |
| SRS (`srs.c`, `snd.c`) | a socket and a thread for each sound client | three messages to the modem, ping | the lock is given back |
| RFS (`rfs.c`) | none | read and write of NV data | answered through the object that is there |

`PROJECT.json` lists them with their status, and under `hazards` every place where this
code is hard to test: steps of two parties crossing, counters that come round, replies that
come after the tables were cleared, one of several commands failing.

## 2. The models

| Module | Code | |
|---|---|---|
| `RequestTable` | `samsung-ril.c:74-143` | the table as a record, one operator per C function |
| `GenExpects` | `gen.c:31-124` | the ring as a record, likewise |
| `IpcMessages`, `Handlers` | the switch of `onRequest` and its handlers | each handler as a *script*: whether it registers the token, what it expects, sends and answers at once |
| `RilRequests` | `samsung-ril.c`, `gen.c:134`, `snd.c` | the state machine over the three above |
| `RequestService` | | what rild may rely on; `RilRequests` implements it |
| `NetRegistration` | `net.c:280-699`, `pwr.c` | registration and operator |
| `RadioPower` | `pwr.c`, `sec.c`, `misc.c`, `disp.c`, `sms.c:698` | power, SIM status, identity, signal |
| `Codecs` | `util.c` | conversions of texts, and the formats they convert |
| `Ussd` | `ss.c` | USSD, over `RadioPower` and `Codecs` |
| `SmsOut` | `sms.c:70-530` | sending SMS |
| `SmsIn` | `sms.c:532-696` | the tpids of incoming SMS |
| `TpidStack` | | what the queue of tpids is; `SmsIn` implements it |
| `Gprs` | `gprs.c` | data calls |
| `Clients` | `client.c`, `ipc.c`, `srs.c`, `rfs.c`, `RIL_Init` | threads, objects and locks |
| `MC*` | | instances of these for TLC |
| `*Proofs` | | theorems, see section 5 |

Operators and actions bear the name of the C function they translate. A definition whose
comment begins with "Mutant of" is a wrong version of the one it names, such as a bug would
give, and is used by nothing: put in the place of the right one, it must make a property
fail (`PROJECT.json`, `mutants`).

**RilRequests.** `table` and `expects` are the two arrays; `wire` is the set of messages the
modem still owes a reply, so that replies come in any order. `onRequest` runs the script of
any request of the instance; `RadioPowerOff` answers and clears everything
(`ril_globals_init`); `ipc_gen_phone_res` and `Response` take a reply; the three `srs_snd_*`
actions draw an aseq that belongs to no request; `ClientFails` loses what is on the wire.
`onCancel` holds no lock. `ril_request_set_canceled` looks an index up and then stores the
flag, and anything may happen in between. A token that is not found is registered, without
the lock too: if no handler runs meanwhile, lookup and registration are one step
(`OnCancelLookup`); if some do (`OnCancelOverlaps`), every read and write of
`ril_request_id` and of the slot is a step (`OnCancelRegisters`), and what follows is whatever
comes of it, an index given out twice or one past the end of the array included. Four things
are kept that the code does not have, only for stating properties: the number of the draw an
aseq came from, how often a token was used, whether the request at hand was cancelled, and in
`raced` whether a registration by `onCancel` has ever run beside handlers. `InWindow`
says that the counter has not come round since a draw. Requests register their token
once here. `SETUP_DATA_CALL` alone registers it anew in mid-request and then stands in two
slots; it is a request of `Gprs`, and nothing is claimed of it here.

**NetRegistration.** The comment at `net.c:273-312` explains how solicited and unsolicited
data are meant to cross. The model has the token and the stored data of each kind, both
directions as queues (one serial line), and the modem's own data, numbered by its changes,
so that "older" and "newer" mean something. rild asks when it was told to, or on its own.

**RadioPower.** The handlers of this part call one another (a PIN status answers
RADIO_POWER, updates the radio state, and through `ril_tokens_check` sends what waited), so
each is an operator on an *effect*: the state it leaves, the messages it sends and the
answers it gives, in that order. A step takes the handler's effect of the current state and
applies it. Tokens are numbers, 0 is the null token. The modem's side is its radio (on or
off) and the place of the SIM in a history of PIN states; it boots at the start and after
a failure of the client. `RADIO_POWER off` clears `ril_state` and the table of requests, so
that every message on its way belongs to nobody any more. `crossed` remembers that such an
off met a modem on its way up, and `forgotten` the tokens that were cleared or overwritten;
both are only for the properties.

**Ussd.** Extends `RadioPower` by `ussd_state` and the network's session, because
`CANCEL_USSD` has no `break` in `onRequest` and goes on into `GET_SIM_STATUS` with its token.
The network refuses what does not fit its session and may refuse anything; what it says has
a meaning (a text in an alphabet), which `Written` turns into bytes by the format of that
alphabet and `Decoded` back by the code. A message is a buffer of `MessageSize` bytes that
begins with a header of `HeaderSize`: the code measures the text against the whole of it, copies
the text behind the header, and sends the buffer, so that the message carries the first `Room`
bytes of a text and states the length of all of it.

**Codecs.** The conversions are translated loop by loop into sums over the indices that
touch a byte. The second half of the module says, independently, what the formats are: the
bits of packed characters, of UCS2 and of UTF-8 (`Packed`, `Unpacked`, `Ucs2`, `Utf8Read`).

**SmsOut.** A request is its aseq; a PDU is known by the request it came with, and is good,
too long or missing. `ril_request_send_sms_next` and `ril_request_send_sms_complete` call
each other until a message goes out or none is left; the model gives the outcome in closed
form: the requests that fail on the way, the one that is sent or asks for the service
center, what is left of the array. A reply is *stale* when the tables were cleared since
its message was sent: its aseq then leads to no token, but the handler runs all the same.
`ipc_gen_phone_res` takes the refusals that reach no handler, of the question for the service
center, of a message under aseq 0, and of one whose expectation was cleared: the lock is not
given up then, and `ignored` remembers it.
The array's copy of a PDU lacks its terminating NUL (`sms.c:159`), so what `strlen` makes of
it depends on the heap; `runsOn` leaves open, for each copy, whether it is found too long.

**SmsIn.** The array of tpids with its moving down when it is full and its 0 for a free
place; rild, which is told a message and acknowledges in that order without saying which;
the modem, which gives every message a tpid that no other has it waits for, and may refuse
a report. `TpidStack` is the bounded stack that the array stands for.

**Gprs.** A connection keeps its token, and whether it is enabled and has an interface and
an address. The results of the commands lead to a connection by the token and the
notifications by the cid. The modem's side of each cid is in `context`. Messages keep their
order in either direction. That an aseq leads to its request is not modelled again:
`RilRequests` shows it (`NoMisdelivery`). The one aseq that matters here is 0xff: the driver
asks for the list of calls under it on its own account, and a `DATA_CALL_LIST` of rild that
draws it is answered as if nobody had asked (`mistaken`).

**Clients.** The only module about threads: those of RIL_Init and rild, of the three
clients, and of each sound client. A handler is taken apart where another thread can step
in: it has `ril_mutex`, but to send it looks up the client's object, takes the mutex of the
client, and writes; meanwhile the client's own thread destroys the object and makes another,
without a lock. Objects are numbered; `live` says of the latest one whether it has a file to
read. A client that is freed keeps nothing: what is found there may be anything.

**How they fit together.** `RilRequests` is the layer below: it shows that a reply reaches
the handler of its own request; `Clients` is the layer below that: it shows that a handler
runs alone. The others start from there and
follow the state that outlives a single reply. Where the layers below do not protect them,
it is in the model again: aseq 0 in `SmsOut` (0 also marks a free place) and 0xff in `Gprs`,
replies after RADIO_POWER off in `SmsOut`, `SmsIn`, `NetRegistration`, `RadioPower` and
`Ussd`, failures of the client in `SmsOut`, `SmsIn`, `RadioPower` and `Ussd`.

## 3. What the runs check

Eleven runs pass and one, `ussd_sim`, ends in the violation section 4 is about. Deadlock is
checked in `clients` only: there nobody may wait for ever. In the others it
is no error, since every instance makes finitely many requests, and when they have been
served nothing is left to do. An invariant whose name ends in `Inv` is a conjunction of
named parts, the type invariant among them.

### Requests

| Run | Instance | Shows |
|---|---|---|
| `requests_handlers` | *every* request, all faults of the modem, all sound commands, radio off, a failure of the client; 2 aseqs and nothing to keep the counter from passing open requests | `TypeOK`, `OneAseqPerToken`, `NoMisdelivery`, `CancelHonoured` |
| `requests_answered` | 3 aseqs, a ring of 2, 4 fresh tokens | `ImplementsService` (refinement), `ExpectationKept` |
| `requests_reuse` | 2 tokens, each used twice, 2 aseqs, radio off, fairness | `AnsweredAtMostOnce`, `CancelledWhenAsked`, `OwedRequestAnswered` |

*Bounds.* The array has 2 or 3 slots instead of 256 and the ring 2 instead of 32: what
matters is that both come round, and with as many draws as the runs allow (3 to 5) they
do. Tokens are interchangeable, and `requests_handlers` and `requests_answered` use the
symmetry; `requests_reuse` does not, because it has a liveness property. *KeepsUp* restricts a run to behaviours in which no counter
passes an index still in use. It is the honest form of "less than 256 requests are open":
the code has no such check, and with `KeepsUp = FALSE` promises like a single answer do
not hold, since a stranger's reply settles the request. It also leaves out that handlers run
while `onCancel` registers a token. Runs of what holds anyway
have it off; of these, `requests_handlers` has every interleaving of such a registration, and
what it checks is claimed until there is one (`raced`): afterwards an index may belong to two
requests, and nothing but types holds. *Exempt* is the request of aseq 0, see section 4.

*Fairness.* The modem replies to what it was sent and the reader thread delivers; a call of
`onCancel` returns; a failed client becomes ready. The first is the modem's protocol, and
without it the driver, which has no timeouts, can do nothing; the others are ordinary
scheduling of threads that do not wait for each other.

### Network

`net_state`: with three changes of the modem's data, a question of rild's own, and the radio
switched off and on, rild never gets older data after newer (`NewestLast`), a request is
answered once (`AnsweredAtMostOnce`), and under
fairness every state of the modem reaches rild or is overtaken (`ChangeReachesRild`).
`NetInv` has `NoStuckToken`, no GSM or operator token is kept that nothing under way will
clear, and `StateKnown`, rild has the registration state once nothing is under way.

Three changes are what it takes for one notification to be dropped during a request, a
second one stored without telling rild and a third to come after; states 1 and 3 are in
service and 2 is not, so that the operator is refused and asked again; two tokens let rild
have two questions open, of one kind or of two. Fairness: messages are delivered and
served, and rild asks for what it was told to ask; the reader thread reads for as long as
there is something, and asking is what rild does on
`RIL_UNSOL_RESPONSE_NETWORK_STATE_CHANGED`.

### Radio power, SIM, identity

`radio`: three requests out of seven kinds in any order, a modem that boots, goes up
and down, and may send serial numbers that are too long, a SIM that is unlocked, initialised
and says its phone book is complete, one failure of the client.

| Property | |
|---|---|
| `RadioInv` | types, and `WaitingIsUnderway`: every token kept in `ril_state.tokens` waits for something that is under way |
| `RadioAgrees` | once nothing is under way, the driver holds the radio for on if and only if it is, and as ready as the SIM is |
| `RildKnows` | rild was given the SIM's state, or was told to ask for it and has not yet |
| `AnsweredAtMostOnce` | power and SIM requests get one answer, although a PIN status may answer both and a cleared table may not |
| `EveryRequestAnswered` | under fairness, what is promised is answered |

Three requests are what it takes for one to wait, another to take its place and the radio to
go off or on in between. The pair of serial numbers needs two of them and the power the
third. Fairness: the reader delivers and the modem serves its messages in turn.

### USSD

`ussd`: three requests among texts, cancels, SIM status and power, a network that says two
things, ends sessions and refuses, one failure of the client. `SessionAgrees`: driver and
network agree whether a session is open, once nothing is under way. `AnswersMeetASession`:
a text goes out as an answer only into a session that is there, or whose end the driver
cannot know of yet. `TextsKept`: what either writes the other reads, if the
message has room for what rild writes. `UssdInv`: types, a text is copied past the end of its
buffer by the size of the header at most, and a message carries as many bytes as it states
wherever there is room for them.

The texts have the lengths at which packing crosses into the next byte, 4, 5 and 7 characters
to the network and 8 and 15 from it, and characters with all, one and every other bit set;
the UCS2 text has characters of one, two and three UTF-8 bytes. A message has 7 bytes and its
header 2, instead of the code's structures, so that there is room for the first text either
way, for the second only unpacked, and the third is cut off unpacked and refused packed.

### Outgoing SMS

`sms_out`: four requests, one of them of aseq 0, an array of 2, refusals of everything the modem
is asked, the radio switched off and a
failure of the client. `SmsOutInv` has `OneInProgress` and `NobodyWaitsInVain`, which tie the
lock to what the modem owes: the first as long as the radio stays on, the second as long as
the client works besides, where the lock is taken for a message that is owed a reply, or
because a refusal was ignored (the code never gives it up then); besides `AnsweredAtMostOnce`, `NothingForgotten`, `OwnPdu`.

Four requests and two places fill the array, overflow it and leave one in progress. Places
are compared only by being the last, the highest or the lowest taken; what the array of 2
does not have is a gap below a place that is taken, and nothing checked here depends on one.
There is no liveness property: `NobodyWaitsInVain` and
`NothingForgotten` say that a request which is not answered waits in the array, for a lock that
is taken, or is with the modem. `NothingForgotten` holds of a request whose service center is
asked for, too: it is in the array, and so not lost with the refusal of that question.

### Incoming SMS

`sms_in`: four messages for an array of three, of two types, with and without a tpid of 0,
acknowledged at any time or never, reports refused, the radio off once and a failure of the
client. `ImplementsStack`: the array is the bounded stack. `SmsInInv`: it has no gaps, and
each tpid queued or being reported belongs to a message the modem waits for, no two to the
same. `OwnReport`: a message rild is told when it has nothing else to acknowledge, and
acknowledges before the next one reaches the driver, is reported under its own tpid. With several
outstanding the last tpid is taken whichever is meant (`sms.c:599`), which is why the
property is about one.

### Data calls

| Run | Shows |
|---|---|
| `gprs_room` | the properties that hold while no connection is taken from another: `GprsInv` (with `EnabledHasAddress`, `InterfaceKnown`), `NothingForgotten`, `AnsweredAtMostOnce`, `EnabledIsOn`, `EndedByTheModem`, and under fairness `EveryRequestAnswered`, `RildLearns` |
| `gprs_reclaim` | `SetupsUnderway`: with connections taken away, interfaces that cannot be configured, any command refused |

Two cids, two setups, two deactivations, a question for the list and two drops in
`gprs_room` let a cid be set up, fail or end, and be used again while another call is up,
and both be dropped. Three setups for two cids in `gprs_reclaim` take a place from another,
twice. `MaxReclaims = 0` keeps the first to behaviours in which a
free place was found. Fairness: the reader delivers, the modem serves commands and
brings every activation and deactivation to an end.

### Clients

`clients`: fmt and rfs read on after one failure and are given up after the second, srs after
the first (five in the code; a second object that is read from is all that is needed to tell
a present one from one that is gone), one sound client, one message a handler. `ClientsInv` has `RilOwner`, `MutexOwner`, `OwnObject`
and `InitFirst`; `StaleOnlyAfterFailure` is about a request of rild whose object may vanish;
`CallsReturn` says that `ril_mutex` is given back. Deadlock is checked.

*Fairness.* Weak for what the owner of `ril_mutex` does without waiting, for a read of the
modem, and for RIL_Init: these are system calls that return and threads that are scheduled.
Strong for taking the mutex of a client, since the reader thread gives it up after each read
and may take it again: it says that a thread that waits for a mutex which is free again and
again gets it. A sound client takes the answer to its ping; without that the property is
false, since the driver waits for it under the lock (`srs.c:58`).

### Where a property is not checked

Properties of one run are not checked in another where they are false, and that is said in
the hazard concerned: after a connection was taken away its request may hang (`gprs.c:114`),
after a failed `ifc_configure` a request may be answered twice (`gprs.c:650`), after a
refused deactivation the driver's idea of what is on is wrong (`gprs.c:408`), after
RADIO_POWER off two SMS may be in progress (`sms.c:286`), after a failure of the client the
tokens of RADIO_POWER and GET_SIM_STATUS stay behind, and so does `ussd_state`. After a
registration by `onCancel` among handlers a reply may reach a stranger (`samsung-ril.c:533`);
after a refusal no handler hears of, the SMS lock stays taken (`gen.c:77`, `sms.c:252`); a USSD
text that leaves no room for the header is cut off (`ss.c:65`).

## 4. Where code and comments disagree

`ussd_sim` checks, of `RadioPower` with USSD beside it, the property `RildKnows` that holds
without: `sec.c:202` says that a change of the SIM's state is told to rild by
`RIL_UNSOL_RESPONSE_SIM_STATUS_CHANGED`. `CANCEL_USSD` has no `break` (`samsung-ril.c:395`)
and goes on into `GET_SIM_STATUS`. Its token takes the place of a request for the status;
while it stands there notifications are skipped, on the assumption that rild will get the
answer. The answer goes to the cancel. rild is told of no change.

Other things the models brought up have no run of their own; the hazards tell of them, and
the properties that would be false exempt them by name or leave the case out.

*Requests.* The result of a message under aseq 0 finds a clean slot of the ring first, and
the request is never answered (`gen.c:38`, `gen.c:77`). A result of another command than
the one expected is "Not safe to run the custom function" with (`gen.c:154`), and it is run
nevertheless: ENTER_SIM_PIN is answered twice. The result of the message that stops a tone
settles the request of the next one (`gen.c:149`). `onCancel` registers a token it does not
find without `ril_mutex` (`samsung-ril.c:106`): when a handler draws an aseq at the same time,
two requests may get the same one, and a reply may reach a stranger.

*Network.* The GPRS token is kept when the GSM one waits (`net.c:666`, against `net.c:297`);
GPRS notifications are dropped from then on. An operator notification that precedes the registration state never reaches
rild (`net.c:399`).

*Radio and identity.* A second RADIO_POWER overwrites the token of the first. A notification
of normal mode that crosses RADIO_POWER off leaves the driver with a radio that is on
(`crossed`). IMEI and version requests are sent again by `ril_tokens_check` and answered
again. A phone book that is complete hides that the SIM was initialised, if that notification
was skipped (`sec.c:61`).

*SMS.* The array counts as full when its last place is taken, and a request is dropped
beside free places (`sms.c:118`, against the comment at `sms.c:126`). A late reply after
RADIO_POWER off gives up the lock of another message (`sms.c:483`). A question for the service
center that is refused (`sms.c:252`) reaches no handler, nor does a refused message under aseq 0
(`gen.c:77`): the lock stays taken, and no SMS is sent any more until the next RADIO_POWER off.
Queued PDUs lack their
terminator (`sms.c:159`). A tpid of 0 is taken for a free place.

*USSD.* The trailer of `ascii2gsm7` sets two bits of the last byte (`util.c:171`), which
alters the last character of a text whose length leaves no room there. The length of a text is
compared with the size of the message, header included (`ss.c:65`, `ss.c:93`): one that is
longer than the rest is copied past the end of the buffer, by the size of the header at most, and
the message is sent without its end (`ss.c:127`). A cancel is answered
twice, by its result and with a card.

*Data calls.* "Non-working" connections include those that are being set up (`gprs.c:112`,
`gprs.c:114`). A `DATA_CALL_LIST` of aseq 0xff is never completed (`gprs.c:871`). The repair
of doubled cids (`gprs.c:789`) makes 1 of a second unused entry as well, though it "shouldn't
change anything to healthy structures".

*Clients.* A handler may send through an object that its client's thread has destroyed, or
through a client that was freed. When `srs_create` fails it frees the object the client
already points to (`srs.c:260`), and `srs_destroy` frees it again. `ipc_rfs_nv_read_item`
steps by the size of a structure instead of bytes (`rfs.c:44`), so that the data read goes
beyond the reply; a model of control does not see it.

## 5. What is proved

All for every value of the constants: any size of the arrays, any requests, tokens, texts and
tpids, any history of the SIM, any number of steps of each kind. From the named assumptions
of the modules only: at least two slots, a ring that is not empty, a null token that is none
of rild's, an array with at least one place, threads with names of their own, and the typing
of the other constants. Where a theorem has a hypothesis besides, the table names it and the
text below says why it is needed.

| Theorem | States | Under |
|---|---|---|
| `RilRequestsProofs!TypeCorrect` | `[]TypeOK` | |
| `RilRequestsProofs!TokensAreUnique` | `[]OneAseqPerToken` | |
| `RilRequestsProofs!RepliesReachTheirOwners` | `[]NoMisdelivery` | |
| `RilRequestsProofs!CancelsAreReported` | `[]CancelHonoured` | |
| `RilRequestsProofs!NobodyElseIsCancelled` | `[]CancelledWhenAsked` | `KeepsUp` |
| `RilRequestsProofs!OneAnswerEach` | `AnsweredAtMostOnce` | `Orderly` |
| `RilRequestsProofs!ExpectationsAreKept` | `[]ExpectationKept` | `Fresh` |
| `RilRequestsProofs!DriverKeepsItsPromise` | `ImplementsService`, the refinement of `RequestService` | `Orderly`, `Fresh` |
| `RilRequestsProofs!HandlerTyped` | every entry of the switch is a script: it uses messages, codes and functions that exist, and does nothing to the ring without registering its token | |
| `RilRequestsProofs!OneAnswerRequests` | which 23 requests ask for one answer | |
| `RilRequestsProofs!GetExpect` | what the search of the ring returns | |
| `NetRegistrationProofs!NoStateMissed` | `[]NetInv` | |
| `NetRegistrationProofs!NewestDataLast` | `NewestLast` | |
| `NetRegistrationProofs!NetAnsweredAtMostOnce` | `AnsweredAtMostOnce` | |
| `RadioPowerProofs!TokensAreAwaited` | `[]RadioInv` | |
| `RadioPowerProofs!DriverKnowsRadio` | `[]RadioAgrees` | |
| `RadioPowerProofs!RildIsTold` | `[]RildKnows` | |
| `RadioPowerProofs!NoneAnsweredTwice` | `[]AnsweredAtMostOnce` | |
| `UssdProofs!DriverKnowsSession` | `[]SessionAgrees` | |
| `UssdProofs!AnswersReachASession` | `AnswersMeetASession` | |
| `UssdProofs!LengthsStated` | `[]UssdInv` | `Convertible` |
| `UssdProofs!TextsArrive` | `[]TextsKept` | `Convertible` |
| `SmsOutProofs!OneMessageAtATime` | `[]SmsOutInv` | |
| `SmsOutProofs!SentWithOwnPdu` | `[]OwnPdu` | |
| `SmsOutProofs!SmsAnsweredAtMostOnce` | `[]AnsweredAtMostOnce` | |
| `SmsOutProofs!NoSmsForgotten` | `[]NothingForgotten` | |
| `SmsInProofs!QueueIsAStack` | `ImplementsStack`, the refinement of `TpidStack` | |
| `SmsInProofs!NoTpidTwice` | `[]SmsInInv` | |
| `SmsInProofs!AloneReportedAsItself` | `OwnReport` | |
| `GprsProofs!SetupsAreUnderway` | `[]SetupsUnderway` | |
| `GprsProofs!CallsHaveAddresses` | `[](reclaims = 0 => GprsInv)` | no `IfcFails`, no refused DISABLE |
| `GprsProofs!NoRequestForgotten` | `[](reclaims = 0 => NothingForgotten)` | the same |
| `GprsProofs!CallsAnsweredAtMostOnce` | `[](reclaims = 0 => AnsweredAtMostOnce)` | the same |
| `GprsProofs!DriverKnowsContexts` | `[](reclaims = 0 => EnabledIsOn)` | the same |
| `GprsProofs!CallsEndByTheModem` | `EndedByTheModem` | the same, and `MaxReclaims = 0` |
| `ClientsProofs!ClientsAreSafe` | `[]ClientsInv` | |
| `ClientsProofs!StaleSendsFollowFailures` | `[]StaleOnlyAfterFailure` | |

### Requests

*NoMisdelivery* is not inductive: it speaks of messages whose aseq was drawn recently, and
must know that nobody drew that index since. The invariant `Inv` therefore says of every
message owed (`Correct`) that its draw has been made and that, while it is recent, it is
still the last draw of that index (`DrawOf`), and the slot has the owner's token or none.
Drawing an index either is another one, or makes the former draw of that index old
(`CorrectDrawn`); registering, flagging and clearing do not disturb it. It needs
`OneAseqPerToken`, since a message is sent under the index that the search for the token
finds, and `TypeOK`. `~raced` is a part of `Inv`, and a step keeps `Inv` or raises `raced`
(`NextInv`), which is never taken back (`RacedStays`). The first three properties are claimed
that far: once handlers run while `onCancel` registers a token, they are false of the code, and
only `TypeOK` is proved of what follows. The other theorems assume `KeepsUp`, which leaves
such registrations out.

*CancelHonoured* speaks of answered requests. `CancelInv` adds what holds before: while a
cancelled request is pending, every slot that holds its token is flagged. The step that
could break it is the store of `onCancel` with an index looked up earlier; it
counts as a cancel only if the slot still holds the token, and by `OneAseqPerToken` no other
slot does. The other danger is a token registered anew, which happens only if it is in no
slot. *CancelledWhenAsked* is the converse, that nobody is answered CANCELLED who was not
cancelled. `AskedInv` says it of the flags: a slot is flagged only for a token that rild
cancelled, and the index an `onCancel` carries is as good as that of a message owed
(`Flagging`). Without `KeepsUp` an index drawn again inherits the flag of a slow cancel.

*AnsweredAtMostOnce* counts, for each index, who owes an answer: the expectations stored for
it and the messages that asked for data under it (`Owes`). `OweInv` says that an index other
than 0 owes at most one, and that its request has no answer then. `Orderly` is what it takes:
counters that keep up; no failure of the client, which loses messages and
leaves expectations behind for whoever draws the index again; and requests that ask for one
answer. `OneAnswerRequests` shows that 23 of the 33 entries of the switch do; the others
send two messages under one aseq, go on after they have failed, or answer beside a message
they wait for.
Index 0 is exempt: a clean slot of the ring has that aseq, and a stale expectation at it can
answer a request twice, in one step even. TLC shows it with two slots, a ring of three and
five tokens, and `RequestService` exempts that request for the same reason. The
instance of `requests_reuse` is orderly, that of `requests_answered` fresh as well.

*ExpectationKept* and the refinement also need `Fresh`, a token used once. When a token is
used again, it keeps its old index, and a message of a sound client that draws that index
can take the expectation of the request. `AloneInv` says that no two messages owed share an
index other than 0, and that the expectation of each is in the slot it was stored in for as
long as the table leads back to its owner (`Kept`). *DriverKeepsItsPromise* then maps each
action to one of `RequestService`: a request to making it and perhaps completing it at once,
a cancel to a cancel, a reply to a completion or a stutter. The two invariants say that what
is completed was pending and that its error is CANCELLED exactly if it must be.

### Network

*NetInv* says little about the states in between. `Phases` cuts a behaviour by the power of
the radio: which messages can be on which line while it boots, operates or is down, and that
the driver has no token and no data before it operates. `Unanswered` has the token of a
message under way in one message only. `Newest` says that the last registration state the
driver will take is that of the modem, and `Known` that what driver and rild have is right
unless something is under way or rild was told to ask. *NewestLast* needs the order of all data of a
kind, in the modem, on the line, stored and at rild (`Ages`).

### Radio power, SIM, identity

A step takes a handler's effect, so that the proofs follow the effects: one lemma for each
handler says what it adds to the line, which answers it gives and which tokens it leaves.
`PowerInv`, `AgreeInv` and `SimInv` relate the line to the driver (a modem that is to be
switched off was not on its way up, the last status on the line is the present one),
`WaitInv` is `WaitingIsUnderway` said of the two queues, and `KnowsInv` says that an answer
about the SIM that belongs to nobody comes in before the modem is on again. For the answers,
`OwnedInv` has each kept or carried token belong to a request of its kind, and `AnswersInv`
has a power or status request that is waited for or carried unanswered, and carried once.

### USSD

`LineInv` says that only orders are on the line to the modem and only reports on the line
back, each with the fields its sender gives it. It holds of the messages of `RadioPower`
without knowing what `ril_state` is: the steps of that module add to the lines and leave the
session alone, except RADIO_POWER off and the order it sends. `SessionInv` is what relates
driver and network while something is under way, as long as nothing was lost and no session
was given up in mid-speech (`Certain`): a session that an order on the line will end has
nothing more to say, and no text precedes that order (`EndsInPeace`); of a session that is
over the driver knows, or will when it has read the line (`EndIsKnown`); and so of one that
waits for rild (`OpenIsKnown`).

`Convertible` says of the conversions of `Codecs`, which have no state, that they turn the
texts into bytes and back into the texts. `ascii2gsm7` and its kin are sums over the
characters of a text, and what a fold gives for every text takes induction over data; so the
theorem takes it for a fact about the texts given, TLC has it in `TextsKept` and evaluates it
as a whole on the texts of `MCUssd`, where it is true. What is proved from it is the
protocol's part: the encoding of a message follows the session's state, in every crossing of
requests and notifications, so that packed text is never read as plain or the reverse. It is claimed of messages that have
room for their text behind the header; of the others *LengthsStated* says by how much the
code copies too much, and that is all.

### SMS

*SmsOutInv* needs more than it says: from "at most one reply is owed" and a reply taken
nothing follows about the next message, unless it is known that the reply taken was not
*stale*. The invariant is `TypeOK /\ Alone`: while the radio has stayed on, at most one reply
is owed, it is not stale, and the lock is taken as long as it is; if the client never failed,
the lock is taken only then or after a refusal that was ignored, and no place is taken while
the lock is not. The proof goes through
the loop of `send_sms_next` once (what it leaves owes at most one reply, and leaves the
array empty or the lock taken) and every handler is an instance of that.
*OwnPdu* follows the pair of token and PDU through the array (`OwnInv`: each place holds a
request with its own PDU or none), with every place used again and the oldest dropped.
*AnsweredAtMostOnce* and *NothingForgotten* are proved together (`AnswerInv`): who was
answered is in no place and in no reply that leads to a token, and who was not waits in the
array, was handed to the modem, or was dropped, cleared or lost; while the lock is free nobody waits.

*QueueIsAStack* rests on `Compact`, the array has no gaps: only then is the highest taken
place the number of elements, so that writing the next free place is a push, clearing the
last a pop, and moving down a loss of the first. `SmsInProofs` proves what the array's
functions return for a compact array, and then maps each action to a push, a pop, a clearing
or a stutter. A tpid of 0 is the case the stack has an action of its own for. *SmsInInv* adds
`Apart`: until the client fails, the tpids in the queue,
in reports to the modem and in messages on their way to the driver differ, and the modem
waits for each. *OwnReport* needs the order in which messages came
(`Numbered`): then the last one rild was told, if alone, is on top of the queue (`OnTop`).

### Data calls

*SetupsUnderway* holds in any case. A setup without an answer is in one connection only, that
is not enabled (`OneConnection`, `NotYetEnabled`); a command for it
names that connection's cid (`OrdersMatch`); the notification that decides comes ahead of the
result of an ENABLE that was accepted (`ResultsMatch`); and it has a message under way or that
notification to come, unless its place was given to another (`SetupsLive`).

The others are false once a place was given away, an interface could not be configured, or a
deactivation was refused (hazards at `gprs.c:114`, `gprs.c:650`, `gprs.c:408`), hence their
hypotheses. Their invariant has every cid in one of nine phases (`Idle`,
`Rising`, `Risen`, `RisenLost`, `NotRisen`, `Running`, `Falling`, `Fallen`, `Broken`), told by
the modem's context, the notifications on the line and the connection. `Room` says for each
phase which requests wait for which message, and that a request waits at one
place only. A step moves one cid from one phase to another, and each property can be read off
the phase.

### Clients

*ClientsInv*: `RilOwner` and `MutexOwner` say who is at which point when he has a lock, so
that two at a point that needs it cannot be; `OwnObject` adds that the thread of a client
that is serving has its object, since destroying is a step of the same thread.
*StaleOnlyAfterFailure* needs that rild was let in with a number no greater than that of the
object now, and that a lookup under way found one that was there since.

### Model-checked only

Every invariant and action property of the passing runs is the subject of a theorem, some of them under
the hypotheses above. TLC alone shows the liveness properties (`OwedRequestAnswered`,
`ChangeReachesRild`, `EveryRequestAnswered`, `RildLearns`, `CallsReturn`), which are beyond
the prover, that `clients` has no deadlock, which is a matter of ENABLED, and `Convertible`.

## 6. What is not modelled

* Data: names, numbers, PDUs byte by byte, the layout of messages, conversions between the
  two vocabularies, except the texts of USSD. A reply is good, refused or malformed.
* Tables and loops without an effect on control: the list of operators, the conversions to and
  from hexadecimal, `hex_dump`, the RSSI, the fields of a SIM card or file, the NV data of RFS.
* Notifications that pass something on and change nothing these models follow: of calls, of
  the time, of STK commands, of signal strength, and of the call status, which is kept in
  `ril_state.call_status` (`call.c:88`) until LAST_CALL_FAIL_CAUSE reads it.
* The modem beyond what the driver sees of it: it serves messages, may refuse those it may
  refuse, and notifies. Its definitions are marked external in the map.
* Memory: allocation never fails, and leaks are not counted. Objects of clients are the
  exception.
* Timing: `usleep` is nothing; there are no timeouts in the driver.
* A token in two slots of the table (`gprs.c:250`), which takes `Gprs` over `RequestTable`.
* A registration request before the modem is in normal mode (`net.c:684`).

## 7. Plan

Done: requests, network, SMS in both directions, data calls, radio power with SIM and
identity, USSD with its conversions, clients and their threads. What is left, in this order:

1. **Gprs over RequestTable**: the token in two slots and what a cancel finds; radio off with
   connections up.
2. Abstract specifications: an SMS sender that is a queue with drops, a data call as rild
   sees it (setting up, active, gone), each implemented by its module.
3. The fields of a RIL_CardStatus and a SIM file against their definitions, if `Codecs` grows.

## 8. Running it

    tlc -config RilRequests_handlers.cfg MCRilRequests.tla  # any run of PROJECT.json
    tlapm RilRequestsProofs.tla                             # any *Proofs module

`PROJECT.json` says for every definition which lines it translates (`map`), and for every
property which mutant breaks it. The longest run takes about two and a quarter minutes; the proofs of
a module take up to a quarter of an hour.
