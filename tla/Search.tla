------------------------------- MODULE Search -------------------------------
(***************************************************************************)
(* Searches: the frontend's tree filter and its :SimpleTreeSearch          *)
(* (autoload/simpletree.vim), the request task of each search, the thread  *)
(* that walks the tree for it and the bounded batch channel between the    *)
(* two (search.rs, simpletree_daemon.rs).                                  *)
(*                                                                         *)
(* What a walk finds is the numbers of its matches in walk order; names    *)
(* and ancestors are left out, and so is the limit on active requests,     *)
(* which RequestLoop has.  An event is its search's id, a kind and the     *)
(* matches it carries.                                                     *)
(***************************************************************************)
EXTENDS Integers, Sequences, FiniteSets

CONSTANTS
  MaxSearches,         \* bound: searches started
  Totals,              \* bound: how many entries may match a search
  BATCH_SIZE,          \* entries of a batch
  CHANNEL,             \* batches the channel between walker and task holds
  MAX_SEARCH_RESULTS,  \* what the daemon collects at most
  DEFAULT_SEARCH_RESULTS,
  FilterMaxResults,    \* g:simpletree_filter_max_results
  MAX_CONCURRENT_SCANS,
  Capacity             \* events between the daemon's senders and Vim

ASSUME SearchAssumption ==
  /\ MaxSearches \in Nat /\ Totals \subseteq Nat
  /\ BATCH_SIZE \in Nat \ {0} /\ CHANNEL \in Nat \ {0} /\ Capacity \in Nat \ {0}
  /\ MAX_SEARCH_RESULTS \in Nat \ {0} /\ FilterMaxResults \in Nat \ {0}
  /\ DEFAULT_SEARCH_RESULTS \in 1..MAX_SEARCH_RESULTS
  /\ MAX_CONCURRENT_SCANS \in Nat \ {0}

Searches == 1..MaxSearches

VARIABLES
  alive,    \* the daemon runs and its capabilities are known
  stdin,    \* request lines on their way to the daemon
  out,      \* event lines on their way to Vim
  stalled,  \* the output path has been given up
  owner,    \* owner[s]: who started search s
  total,    \* total[s]: how many entries match it
  task,     \* task[s]: where run_search_request is
  token,    \* token[s]: its request is cancelled
  sending,  \* sending[s]: the batch its task is sending
  walker,   \* walker[s]: where search_worker is
  found, batch, chan,
  bcbs,     \* s_bcbs: the searches whose events have a callback
  filter,   \* s_filter_search_id, s_filter_pending, s_filter_truncated
  hits,     \* s_filter_hits
  quickId,  \* s_search_id
  results,  \* results[s]: what a quickfix search has collected
  quickfix, \* the search the quickfix list shows, and its items
  answered, \* history: the search whose answer the filter shows in full, or 0
  orphaned  \* history: callbacks were thrown away while the filter waited

wireVars == <<stdin, out, stalled>>
taskVars == <<task, token, sending>>
walkVars == <<walker, found, batch>>
filterVars == <<filter, hits, answered, orphaned>>
quickVars == <<quickId, results, quickfix>>
startVars == <<owner, total>>
vars == <<alive, wireVars, taskVars, walkVars, chan, filterVars, quickVars, startVars, bcbs>>

NoFilter == [id |-> 0, pending |-> FALSE, truncated |-> FALSE]

Init ==
  /\ alive = TRUE /\ stdin = <<>> /\ out = <<>> /\ stalled = FALSE
  /\ owner = [s \in Searches |-> "none"] /\ total = [s \in Searches |-> 0]
  /\ task = [s \in Searches |-> "none"] /\ token = [s \in Searches |-> FALSE]
  /\ sending = [s \in Searches |-> {}]
  /\ walker = [s \in Searches |-> "none"] /\ found = [s \in Searches |-> 0]
  /\ batch = [s \in Searches |-> {}] /\ chan = [s \in Searches |-> <<>>]
  /\ bcbs = {} /\ filter = NoFilter /\ hits = {} /\ answered = 0 /\ orphaned = FALSE
  /\ quickId = 0 /\ results = [s \in Searches |-> {}]
  /\ quickfix = [of |-> 0, items |-> {}]

Started == Cardinality({s \in Searches : owner[s] # "none"})

\* What the daemon is asked to collect at most (normalize_max_results), and
\* what the filter believes it asked for.
MaxResults(s) ==
  IF owner[s] = "quickfix" THEN DEFAULT_SEARCH_RESULTS
  ELSE IF FilterMaxResults > MAX_SEARCH_RESULTS THEN MAX_SEARCH_RESULTS ELSE FilterMaxResults

\* What search s is to deliver.
Answer(s) == 1..(IF total[s] > MaxResults(s) THEN MaxResults(s) ELSE total[s])

\* The task holds its permit until handle_search has returned, and the batch
\* receiver until it stops receiving.
HasPermit(s) == task[s] \in {"recv", "send", "join", "done"}
\* Mutant: the receiver is dropped only when the task returns.
ReceivingToTheEnd(s) == task[s] \in {"recv", "send", "join"}
Receiving(s) == task[s] \in {"recv", "send"}
Walking(s) == walker[s] \in {"start", "walk", "flush", "last"}
WalkEnded(s) == walker[s] \in {"ended", "failed"}

----------------------------------------------------------------------------
(* The walker: search_worker on a blocking thread.                         *)

WalkerUnchanged == UNCHANGED <<alive, wireVars, taskVars, filterVars, quickVars, startVars, bcbs>>

\* The root may have gone, or not be a directory.
WalkStart(s) ==
  /\ walker[s] = "start"
  /\ \E next \in {"walk", "failed"} : walker' = [walker EXCEPT ![s] = next]
  /\ UNCHANGED <<found, batch, chan>> /\ WalkerUnchanged

\* Mutant: the limit is checked before the match is counted.
WalkPastLimit(s) ==
  /\ walker[s] = "walk" /\ ~token[s] /\ found[s] < total[s]
  /\ found' = [found EXCEPT ![s] = @ + 1]
  /\ batch' = [batch EXCEPT ![s] = @ \cup {found[s] + 1}]
  /\ walker' = [walker EXCEPT ![s] = IF Cardinality(batch'[s]) >= BATCH_SIZE THEN "flush"
                                     ELSE IF found[s] >= MaxResults(s) THEN "last" ELSE "walk"]
  /\ UNCHANGED chan /\ WalkerUnchanged

\* The next entry whose name matches.
WalkMatch(s) ==
  /\ walker[s] = "walk" /\ ~token[s] /\ found[s] < total[s]
  /\ found' = [found EXCEPT ![s] = @ + 1]
  /\ batch' = [batch EXCEPT ![s] = @ \cup {found[s] + 1}]
  /\ walker' = [walker EXCEPT ![s] = IF Cardinality(batch'[s]) >= BATCH_SIZE THEN "flush"
                                     ELSE IF found'[s] >= MaxResults(s) THEN "last" ELSE "walk"]
  /\ UNCHANGED chan /\ WalkerUnchanged

\* Any entry meets the cancelled token and the walk returns.
WalkCancelled(s) ==
  /\ walker[s] = "walk" /\ token[s]
  /\ walker' = [walker EXCEPT ![s] = "ended"]
  /\ UNCHANGED <<found, batch, chan>> /\ WalkerUnchanged

WalkExhausted(s) ==
  /\ walker[s] = "walk" /\ found[s] = total[s]
  /\ walker' = [walker EXCEPT ![s] = "last"]
  /\ UNCHANGED <<found, batch, chan>> /\ WalkerUnchanged

\* Mutant: the channel is not bounded.
FlushUnbounded(s) ==
  /\ walker[s] = "flush" /\ Receiving(s)
  /\ chan' = [chan EXCEPT ![s] = Append(@, batch[s])]
  /\ walker' = [walker EXCEPT ![s] = IF found[s] >= MaxResults(s) THEN "last" ELSE "walk"]
  /\ batch' = [batch EXCEPT ![s] = {}]
  /\ UNCHANGED found /\ WalkerUnchanged

\* blocking_send of a full batch, in the loop: it waits for room, and fails
\* once the receiver is gone.
Flush(s) ==
  /\ walker[s] = "flush"
  /\ \/ /\ Receiving(s) /\ Len(chan[s]) < CHANNEL
        /\ chan' = [chan EXCEPT ![s] = Append(@, batch[s])]
        /\ walker' = [walker EXCEPT ![s] = IF found[s] >= MaxResults(s) THEN "last" ELSE "walk"]
        /\ batch' = [batch EXCEPT ![s] = {}]
     \/ ~Receiving(s) /\ walker' = [walker EXCEPT ![s] = "ended"] /\ UNCHANGED <<chan, batch>>
  /\ UNCHANGED found /\ WalkerUnchanged

\* Mutant: what does not fill a batch is not sent.
FlushNothing(s) ==
  /\ walker[s] = "last" /\ walker' = [walker EXCEPT ![s] = "ended"]
  /\ UNCHANGED <<found, chan, batch>> /\ WalkerUnchanged

\* What is left after the loop.
FlushLast(s) ==
  /\ walker[s] = "last"
  /\ \/ (batch[s] = {} \/ ~Receiving(s)) /\ UNCHANGED <<chan, batch>>
     \/ /\ batch[s] # {} /\ Receiving(s) /\ Len(chan[s]) < CHANNEL
        /\ chan' = [chan EXCEPT ![s] = Append(@, batch[s])]
        /\ batch' = [batch EXCEPT ![s] = {}]
  /\ walker' = [walker EXCEPT ![s] = "ended"]
  /\ UNCHANGED found /\ WalkerUnchanged

Walk(s) ==
  \/ WalkStart(s) \/ WalkMatch(s) \/ WalkCancelled(s) \/ WalkExhausted(s)
  \/ Flush(s) \/ FlushLast(s)

----------------------------------------------------------------------------
(* The task: run_search_request around handle_search.                      *)

TaskUnchanged == UNCHANGED <<alive, stdin, filterVars, quickVars, startVars, bcbs, token>>

GoTo(s, next) == task' = [task EXCEPT ![s] = next]

\* The request loop takes the next line; it has stopped once the output stalled.
Accept ==
  /\ alive /\ ~stalled /\ stdin # <<>>
  /\ stdin' = Tail(stdin)
  /\ LET req == Head(stdin) IN
     \/ req.type = "search" /\ GoTo(req.id, "permit") /\ UNCHANGED token
     \/ /\ req.type = "cancel" /\ UNCHANGED task
        /\ token' = [token EXCEPT ![req.id] = @ \/ task[req.id] \notin {"none", "over"}]
  /\ UNCHANGED <<alive, out, stalled, sending, walkVars, chan, filterVars, quickVars, startVars, bcbs>>

TakePermit(s) ==
  /\ task[s] = "permit" /\ ~token[s]
  /\ Cardinality({r \in Searches : HasPermit(r)}) < MAX_CONCURRENT_SCANS
  /\ GoTo(s, "recv") /\ walker' = [walker EXCEPT ![s] = "start"]
  /\ UNCHANGED <<out, stalled, sending, found, batch, chan>> /\ TaskUnchanged

PermitCancelled(s) ==
  /\ task[s] = "permit" /\ token[s]
  /\ GoTo(s, "over")
  /\ UNCHANGED <<out, stalled, sending, walkVars, chan>> /\ TaskUnchanged

\* batch_rx.recv(): a batch, or None when the walker is gone and nothing is left.
Recv(s) ==
  /\ task[s] = "recv"
  /\ \/ /\ chan[s] # <<>>
        /\ sending' = [sending EXCEPT ![s] = Head(chan[s])]
        /\ chan' = [chan EXCEPT ![s] = Tail(@)]
        /\ GoTo(s, "send")
     \/ /\ chan[s] = <<>> /\ WalkEnded(s)
        /\ GoTo(s, "join") /\ UNCHANGED <<chan, sending>>
  /\ UNCHANGED <<out, stalled, walkVars>> /\ TaskUnchanged

\* send_event_unless_cancelled: a cancelled request sends nothing, a stalled
\* output path is an error, otherwise the event waits for room.
SendUnlessCancelled(s, kind, items, sent, cancelled) ==
  \/ token[s] /\ GoTo(s, cancelled) /\ UNCHANGED <<out, stalled>>
  \/ ~token[s] /\ stalled /\ GoTo(s, "over") /\ UNCHANGED <<out, stalled>>
  \/ /\ ~token[s] /\ ~stalled /\ Len(out) < Capacity
     /\ out' = Append(out, [id |-> s, kind |-> kind, items |-> items])
     /\ GoTo(s, sent) /\ UNCHANGED stalled
  \/ /\ ~token[s] /\ ~stalled /\ Len(out) = Capacity   \* EVENT_SEND_TIMEOUT
     /\ stalled' = TRUE /\ GoTo(s, "over") /\ UNCHANGED out

\* A chunk; cancelled, the task drops the receiver and waits for the walker.
SendChunk(s) ==
  /\ task[s] = "send"
  /\ SendUnlessCancelled(s, "chunk", sending[s], "recv", "join")
  /\ sending' = [sending EXCEPT ![s] = {}]
  /\ UNCHANGED <<walkVars, chan>> /\ TaskUnchanged

\* Mutant: the cancelled task does not wait for its walker.
JoinAtOnce(s) ==
  /\ task[s] = "join"
  /\ \/ token[s] /\ GoTo(s, "over")
     \/ ~token[s] /\ walker[s] = "failed" /\ GoTo(s, "error")
     \/ ~token[s] /\ walker[s] = "ended" /\ GoTo(s, "done")
  /\ UNCHANGED <<out, stalled, sending, walkVars, chan>> /\ TaskUnchanged

\* worker.await: its error is for end_request, which is silent when cancelled.
Join(s) ==
  /\ task[s] = "join" /\ WalkEnded(s)
  /\ GoTo(s, IF token[s] THEN "over" ELSE IF walker[s] = "failed" THEN "error" ELSE "done")
  /\ UNCHANGED <<out, stalled, sending, walkVars, chan>> /\ TaskUnchanged

\* Mutant: the end of the search is not announced.
SendNoDone(s) ==
  /\ task[s] = "done" /\ GoTo(s, "over")
  /\ UNCHANGED <<out, stalled, sending, walkVars, chan>> /\ TaskUnchanged

SendDone(s) ==
  /\ task[s] = "done"
  /\ SendUnlessCancelled(s, "done", {}, "over", "over")
  /\ UNCHANGED <<sending, walkVars, chan>> /\ TaskUnchanged

\* end_request: the permit has been given back.
SendError(s) ==
  /\ task[s] = "error"
  /\ SendUnlessCancelled(s, "error", {}, "over", "over")
  /\ UNCHANGED <<sending, walkVars, chan>> /\ TaskUnchanged

Task(s) ==
  \/ TakePermit(s) \/ PermitCancelled(s) \/ Recv(s) \/ SendChunk(s)
  \/ Join(s) \/ SendDone(s) \/ SendError(s)

----------------------------------------------------------------------------
(* The frontend: one command or event line at a time.                      *)

UiUnchanged == UNCHANGED <<taskVars, walkVars, chan>>

Cancel(s) == [type |-> "cancel", id |-> s]
Ask(s) == [type |-> "search", id |-> s]

\* BCancel of the searches in ids, then the requests that follow.
Send(ids, requests) ==
  stdin' = IF ~alive THEN stdin
           ELSE stdin \o [i \in 1..Cardinality(ids) |-> Cancel(CHOOSE s \in ids : TRUE)] \o requests

\* ClearFilterHits(): CancelFilterSearch() cancels the search under way.
ToCancel == IF filter.id = 0 THEN {} ELSE {filter.id}

Next1 == Started + 1

\* The search that is started next, and the number of entries that match it.
NewSearch(who) ==
  /\ Started < MaxSearches
  /\ owner' = [owner EXCEPT ![Next1] = who]
  /\ \E n \in Totals : total' = [total EXCEPT ![Next1] = n]

\* Mutant: the hits of the query before are kept.
StartFilterSearchKeepingHits ==
  /\ alive /\ NewSearch("filter")
  /\ filter' = [id |-> Next1, pending |-> TRUE, truncated |-> FALSE]
  /\ answered' = 0 /\ orphaned' = FALSE /\ UNCHANGED hits
  /\ bcbs' = (bcbs \ ToCancel) \cup {Next1}
  /\ Send(ToCancel, <<Ask(Next1)>>)

\* StartFilterSearch(): a new query, or a refresh of the one that is active.
StartFilterSearch ==
  /\ alive /\ NewSearch("filter")
  /\ filter' = [id |-> Next1, pending |-> TRUE, truncated |-> FALSE]
  /\ hits' = {} /\ answered' = 0 /\ orphaned' = FALSE
  /\ bcbs' = (bcbs \ ToCancel) \cup {Next1}
  /\ Send(ToCancel, <<Ask(Next1)>>)

Filter ==
  /\ StartFilterSearch
  /\ UNCHANGED <<alive, out, stalled, quickVars>> /\ UiUnchanged

\* ClearFilterHits() alone: the filter is cleared, the root changes, or the
\* daemon that is to be asked has no search yet.
ClearFilterHits ==
  /\ filter # NoFilter \/ hits # {}
  /\ filter' = NoFilter /\ hits' = {} /\ answered' = 0 /\ orphaned' = FALSE
  /\ bcbs' = bcbs \ ToCancel
  /\ Send(ToCancel, <<>>)
  /\ UNCHANGED <<alive, out, stalled, startVars, quickVars>> /\ UiUnchanged

\* Mutant: the search before is not forgotten, and still owns the list.
QuickSearchBehind ==
  /\ alive /\ NewSearch("quickfix")
  /\ quickId' = IF quickId = 0 THEN Next1 ELSE quickId
  /\ bcbs' = bcbs \cup {Next1}
  /\ Send({}, <<Ask(Next1)>>)
  /\ UNCHANGED <<alive, out, stalled, filterVars, results, quickfix>> /\ UiUnchanged

\* :SimpleTreeSearch
QuickSearch ==
  /\ alive /\ NewSearch("quickfix")
  /\ quickId' = Next1
  /\ bcbs' = (bcbs \ {quickId}) \cup {Next1}
  /\ Send({quickId} \ {0}, <<Ask(Next1)>>)
  /\ UNCHANGED <<alive, out, stalled, filterVars, results, quickfix>> /\ UiUnchanged

\* The callbacks of search s; each first asks whether s is still the one.
OnChunk(s, items) ==
  /\ hits' = IF s = filter.id THEN hits \cup ({s} \X items) ELSE hits
  /\ results' = IF s = quickId THEN [results EXCEPT ![s] = @ \cup items] ELSE results
  /\ UNCHANGED <<filter, answered, orphaned, quickId, quickfix, bcbs>>

OnDone(s) ==
  /\ IF s = filter.id
     THEN /\ filter' = [NoFilter EXCEPT !.truncated = Cardinality(hits) >= FilterMaxResults]
          /\ answered' = s
     ELSE UNCHANGED <<filter, answered>>
  /\ IF s = quickId
     THEN /\ quickId' = 0
          /\ quickfix' = IF results[s] = {} THEN quickfix ELSE [of |-> s, items |-> results[s]]
     ELSE UNCHANGED <<quickId, quickfix>>
  /\ bcbs' = bcbs \ {s} /\ UNCHANGED <<hits, orphaned, results>>

OnError(s) ==
  /\ filter' = IF s = filter.id THEN [filter EXCEPT !.id = 0, !.pending = FALSE] ELSE filter
  /\ quickId' = IF s = quickId THEN 0 ELSE quickId
  /\ bcbs' = bcbs \ {s} /\ UNCHANGED <<hits, answered, orphaned, results, quickfix>>

\* DispatchLine()
Dispatch ==
  /\ out # <<>> /\ out' = Tail(out)
  /\ LET ev == Head(out) IN
     \/ ev.id \in bcbs /\ ev.kind = "chunk" /\ OnChunk(ev.id, ev.items)
     \/ ev.id \in bcbs /\ ev.kind = "done" /\ OnDone(ev.id)
     \/ ev.id \in bcbs /\ ev.kind = "error" /\ OnError(ev.id)
     \/ ev.id \notin bcbs /\ UNCHANGED <<filterVars, quickVars, bcbs>>
  /\ UNCHANGED <<alive, stdin, stalled, startVars>> /\ UiUnchanged

\* ClearBackendCallbacks(), which leaves the filter as it is.
ClearBackendCallbacks ==
  /\ bcbs' = {}
  /\ orphaned' = (orphaned \/ filter.id \in bcbs)
  /\ UNCHANGED <<filter, hits, answered>>

\* CancelFrontendWork(), when the tree is closed.
CancelFrontendWork ==
  /\ bcbs # {} \/ quickId # 0
  /\ ClearBackendCallbacks /\ quickId' = 0
  /\ UNCHANGED <<alive, wireVars, startVars, results, quickfix>> /\ UiUnchanged

\* The daemon dies or is stopped, and OnBackendExit runs.
Exit ==
  /\ alive /\ alive' = FALSE
  /\ stdin' = <<>> /\ out' = <<>> /\ stalled' = FALSE
  /\ task' = [s \in Searches |-> IF task[s] = "none" THEN "none" ELSE "over"]
  /\ walker' = [s \in Searches |-> IF walker[s] = "none" THEN "none" ELSE "ended"]
  /\ chan' = [s \in Searches |-> <<>>]
  /\ ClearBackendCallbacks
  /\ UNCHANGED <<token, sending, found, batch, quickVars, startVars>>

\* The pong of a new one.
Restarted ==
  /\ ~alive /\ alive' = TRUE
  /\ UNCHANGED <<wireVars, filterVars, quickVars, startVars, bcbs>> /\ UiUnchanged

----------------------------------------------------------------------------
Next ==
  \/ \E s \in Searches : Walk(s) \/ Task(s)
  \/ Accept \/ Filter \/ ClearFilterHits \/ QuickSearch \/ Dispatch
  \/ CancelFrontendWork \/ Exit \/ Restarted

Spec == Init /\ [][Next]_vars

\* The runtime polls what can go on and the walk ends; nothing else is owed.
Fairness ==
  /\ WF_vars(Accept)
  /\ \A s \in Searches : WF_vars(Walk(s)) /\ WF_vars(Task(s))

FairSpec == Spec /\ Fairness

----------------------------------------------------------------------------
(* Properties.                                                             *)

Events == [id : Searches, kind : {"chunk", "done", "error"}, items : SUBSET Nat]
Requests == [type : {"search", "cancel"}, id : Searches]

\* Types.  The channel never holds more than it may, nor does the way out.
TypeOK ==
  /\ alive \in BOOLEAN /\ stdin \in Seq(Requests) /\ stalled \in BOOLEAN
  /\ out \in Seq(Events) /\ Len(out) <= Capacity
  /\ owner \in [Searches -> {"none", "filter", "quickfix"}] /\ total \in [Searches -> Nat]
  /\ task \in [Searches -> {"none", "permit", "recv", "send", "join", "done", "error", "over"}]
  /\ token \in [Searches -> BOOLEAN] /\ sending \in [Searches -> SUBSET Nat]
  /\ walker \in [Searches -> {"none", "start", "walk", "flush", "last", "ended", "failed"}]
  /\ found \in [Searches -> Nat] /\ batch \in [Searches -> SUBSET Nat]
  /\ chan \in [Searches -> Seq(SUBSET Nat)] /\ \A s \in Searches : Len(chan[s]) <= CHANNEL
  /\ bcbs \subseteq Searches /\ hits \subseteq Searches \X Nat
  /\ filter \in [id : Searches \cup {0}, pending : BOOLEAN, truncated : BOOLEAN]
  /\ answered \in Searches \cup {0} /\ orphaned \in BOOLEAN
  /\ quickId \in Searches \cup {0} /\ results \in [Searches -> SUBSET Nat]
  /\ quickfix \in [of : Searches \cup {0}, items : SUBSET Nat]

\* As long as the client reads, no more walks are under way than there are
\* permits, those of cancelled searches included.
WalkersBounded == ~stalled => Cardinality({s \in Searches : Walking(s)}) <= MAX_CONCURRENT_SCANS

\* A filter that was answered and is not marked truncated shows every match,
\* and no filter shows a match of another query.  It holds for the values of
\* g:simpletree_filter_max_results that the daemon does not cut down.
FilterComplete ==
  /\ filter.id # 0 => hits \subseteq {filter.id} \X (1..total[filter.id])
  /\ (answered # 0 /\ ~filter.truncated /\ FilterMaxResults <= MAX_SEARCH_RESULTS)
       => hits = {answered} \X (1..total[answered])

\* The quickfix list changes only to the whole answer of the search that was
\* started last.
QuickfixOfNewest ==
  [][quickfix' # quickfix =>
       /\ \A s \in Searches : owner[s] = "quickfix" => s <= quickfix'.of
       /\ quickfix'.items = Answer(quickfix'.of)]_vars

\* A search that was cancelled gives its permit back, whether or not the
\* client reads.
CancelFreesPermit ==
  \A s \in Searches : (\E i \in 1..Len(stdin) : stdin[i] = Cancel(s)) ~> ~HasPermit(s)

\* If Vim reads, a filter that is searching comes to an end, unless its
\* callbacks were thrown away or the daemon has given its output path up.
FilterEnds ==
  WF_vars(Dispatch) =>
    \A s \in Searches : (filter.id = s /\ ~orphaned) ~> (filter.id # s \/ orphaned \/ stalled)
=============================================================================
