----------------------------- MODULE WebSearch ------------------------------
(***************************************************************************)
(* The web search tool: one provider answers with a page that is read token *)
(* by token (or with a list), the first candidate that bears on the query   *)
(* is fetched, and the passages of that page that say most about the query  *)
(* are handed on.                                                           *)
(*                                                                          *)
(* A token of a result page is what the readers tell apart, with the block  *)
(* of the page that it stands in: the start and end of a result, of its     *)
(* title and its caption, links, other start and end tags, and text.  A     *)
(* block starts a result, may leave out or repeat any of the others, and    *)
(* closes the divisions it opens before the next one starts.                *)
(***************************************************************************)
EXTENDS Integers, Sequences, FiniteSets, SequencesExt

CONSTANTS
    Blocks,             \* the results a page may show
    Pages,              \* result pages, as sequences of tokens
    Limit,              \* how many results are asked for
    Passages,           \* the passages of the page fetched, in order
    PassageBudget       \* the budget of their sizes

\* What a reader tells apart.
Kinds == {"result", "endresult", "title", "endtitle", "link", "caption",
          "div", "enddiv", "text", "challenge"}
NoBlock == "none"

\* Divisions opened and closed up to a token of a page.
Opened(p, i) == Cardinality({j \in 1..i : p[j].is \in {"div", "caption"}})
Closed(p, i) == Cardinality({j \in 1..i : p[j].is = "enddiv"})

ASSUME WebAssumption ==
    /\ \A p \in Pages :
        /\ p \in Seq([is : Kinds, of : Blocks])
        /\ \A i \in DOMAIN p :
            /\ Closed(p, i) <= Opened(p, i)
            /\ i = 1 \/ p[i].of # p[i - 1].of =>
                  p[i].is = "result" /\ Opened(p, i) = Closed(p, i)
    /\ NoBlock \notin Blocks
    /\ Limit \in 1..10
    /\ Passages \in Seq(ToSet(Passages))
    /\ \A i \in DOMAIN Passages :
          /\ Passages[i].score \in Nat /\ Passages[i].size \in Nat \ {0}
          /\ Passages[i].size <= PassageBudget
    /\ PassageBudget \in Nat \ {0}

Engines == {"duckduckgo", "bing", "brave"}

VARIABLES
    at,             \* where the tool stands
    engine,
    tokens,         \* the tokens not yet read
    reader,         \* what the reader remembers of the result it is in
    results,        \* the candidates, each [url, title, snippet], by block
    challenged,     \* a page that asks for a human was recognised
    fetched,        \* the candidate whose page is shown
    passages        \* the passages chosen of that page

webVars == <<at, engine, tokens, reader, results, challenged, fetched, passages>>

Between == [in |-> FALSE, inTitle |-> FALSE, depth |-> 0,
            url |-> NoBlock, title |-> NoBlock, snippet |-> {}]

Result == [url : Blocks \cup {NoBlock}, title : Blocks \cup {NoBlock},
           snippet : SUBSET Blocks]

WebTypeOK ==
    /\ at \in {"idle", "read", "candidates", "fetch", "done", "failed"}
    /\ engine \in Engines
    /\ ToSet(results) \subseteq Result
    /\ fetched \in 0..Len(results)
    /\ ToSet(passages) \subseteq DOMAIN Passages

WebInit ==
    /\ at = "idle"
    /\ engine = "brave"
    /\ tokens = << >> /\ reader = Between
    /\ results = << >> /\ challenged = FALSE
    /\ fetched = 0 /\ passages = << >>

\* Two engines answer with a page of HTML.
PageOf(name) ==
    /\ at = "idle"
    /\ engine' = name
    /\ tokens' \in Pages
    /\ at' = "read"
    /\ UNCHANGED <<reader, results, challenged, fetched, passages>>

SearchDuckDuckGo == PageOf("duckduckgo")
SearchBing == PageOf("bing")

\* The third engine answers with a list, which is taken as it is.
SearchBrave ==
    /\ at = "idle"
    /\ engine' = "brave"
    /\ \E n \in 0..Limit : \E bs \in [1..n -> Blocks] :
          results' = [i \in 1..n |-> [url |-> bs[i], title |-> bs[i], snippet |-> {bs[i]}]]
    /\ at' = "candidates"
    /\ UNCHANGED <<tokens, reader, challenged, fetched, passages>>

\* No key, no answer in time, an error status, or a body that is not a list.
SearchRefused ==
    /\ at = "idle"
    /\ at' = "failed"
    /\ UNCHANGED <<engine, tokens, reader, results, challenged, fetched, passages>>

---------------------------------------------------------------------------
(* Reading a page *)

Token == Head(tokens)

\* The first text counts as the title.
Titled(r) == [r EXCEPT !.title = IF r.title = NoBlock THEN Token.of ELSE r.title]

\* Broken variant: what was read of an earlier result is kept.
ResumeResult == [reader EXCEPT !.in = TRUE]

\* A result starts; nothing of an earlier one is kept.
StartResult == [Between EXCEPT !.in = TRUE, !.inTitle = reader.inTitle]

\* DuckDuckGo: a link of a result names its address, the first text is its
\* title.  The class of a link is read once, so that no link is taken for the
\* snippet; its text is skipped like any other after the title.
ReadDuckDuckGo ==
    reader' =
      CASE Token.is = "result" -> StartResult
        [] Token.is = "link" /\ reader.in -> [reader EXCEPT !.url = Token.of]
        [] Token.is = "text" /\ reader.in -> Titled(reader)
        [] Token.is \in {"enddiv", "endresult"} -> [reader EXCEPT !.in = FALSE]
        [] OTHER -> reader

\* Bing: address and title stand in the heading; the text of the caption, to
\* the tag that closes it, is the snippet.
ReadBing ==
    reader' =
      CASE reader.depth > 0 ->
             IF Token.is \in {"div", "caption"} THEN [reader EXCEPT !.depth = @ + 1]
             ELSE IF Token.is = "enddiv" THEN [reader EXCEPT !.depth = @ - 1]
             ELSE IF Token.is = "text" THEN [reader EXCEPT !.snippet = @ \cup {Token.of}]
             ELSE reader
        [] reader.depth = 0 /\ Token.is = "result" -> StartResult
        [] reader.depth = 0 /\ reader.in /\ Token.is = "title" -> [reader EXCEPT !.inTitle = TRUE]
        [] reader.depth = 0 /\ reader.in /\ Token.is = "caption" ->
             [reader EXCEPT !.depth = 1, !.snippet = {}]
        [] reader.depth = 0 /\ reader.in /\ reader.inTitle /\ Token.is = "link" ->
             [reader EXCEPT !.url = Token.of]
        [] reader.depth = 0 /\ reader.in /\ reader.inTitle /\ Token.is = "text" -> Titled(reader)
        [] reader.depth = 0 /\ Token.is = "endtitle" -> [reader EXCEPT !.inTitle = FALSE]
        [] reader.depth = 0 /\ Token.is = "endresult" ->
             [reader EXCEPT !.in = FALSE, !.inTitle = reader.inTitle /\ ~reader.in]
        [] OTHER -> reader

\* The token closes the result that is being read: it counts when it has an
\* address and a title.
Closes ==
    /\ reader.in /\ reader.depth = 0
    /\ Token.is = "endresult" \/ (engine = "duckduckgo" /\ Token.is = "enddiv")
    /\ reader.url # NoBlock /\ reader.title # NoBlock

ReadToken ==
    /\ at = "read" /\ tokens # << >> /\ Len(results) < Limit
    /\ IF engine = "bing" THEN ReadBing ELSE ReadDuckDuckGo
    /\ results' = IF Closes
                  THEN Append(results, [url |-> reader.url, title |-> reader.title,
                                        snippet |-> reader.snippet])
                  ELSE results
    /\ challenged' = (challenged \/ (engine = "bing" /\ Token.is = "challenge"))
    /\ tokens' = Tail(tokens)
    /\ UNCHANGED <<at, engine, fetched, passages>>

\* The page ends, or enough results were read; Bing's results do not count
\* when its page was a challenge.
PageRead ==
    /\ at = "read"
    /\ tokens = << >> \/ Len(results) = Limit
    /\ at' = IF challenged THEN "failed" ELSE "candidates"
    /\ results' = IF challenged THEN << >> ELSE results
    /\ UNCHANGED <<engine, tokens, reader, challenged, fetched, passages>>

---------------------------------------------------------------------------
(* Fetching *)

\* Which titles and snippets share enough words with the query: any.
PickCandidate ==
    /\ at = "candidates"
    /\ \E relevant \in SUBSET DOMAIN results :
         IF relevant = {}
         THEN at' = "done" /\ fetched' = 0
         ELSE /\ at' = "fetch"
              /\ fetched' = CHOOSE i \in relevant : \A j \in relevant : i <= j
    /\ UNCHANGED <<engine, tokens, reader, results, challenged, passages>>

\* Not an address of the web, refused, no answer in time, empty or unreadable:
\* the candidates are returned without a page.
FetchFails ==
    /\ at = "fetch"
    /\ fetched' = 0
    /\ at' = "done"
    /\ UNCHANGED <<engine, tokens, reader, results, challenged, passages>>

\* By score, then by their order in the page.
Ranked ==
    {s \in SetToSeqs(DOMAIN Passages) :
        \A i, j \in DOMAIN s : i < j =>
            \/ Passages[s[i]].score > Passages[s[j]].score
            \/ Passages[s[i]].score = Passages[s[j]].score /\ s[i] < s[j]}

Used(taken) == FoldLeft(LAMBDA n, i : n + Passages[i].size, 0, taken)

\* At most two passages of a heading and six in all, and what fits.
Take(taken, i) ==
    IF \/ Passages[i].score = 0
       \/ Cardinality({j \in ToSet(taken) : Passages[j].heading = Passages[i].heading}) >= 2
       \/ taken # << >> /\ Used(taken) + Passages[i].size > PassageBudget
       \/ Used(taken) >= PassageBudget
       \/ Len(taken) = 6
    THEN taken
    ELSE Append(taken, i)

\* The passages that say most about the query; the start of the page when none
\* says anything.
Fetch ==
    /\ at = "fetch"
    /\ \E order \in Ranked : passages' = FoldLeft(Take, << >>, order)
    /\ at' = "done"
    /\ UNCHANGED <<engine, tokens, reader, results, challenged, fetched>>

WebNext ==
    \/ SearchDuckDuckGo \/ SearchBing \/ SearchBrave \/ SearchRefused \/ ReadToken \/ PageRead
    \/ PickCandidate \/ FetchFails \/ Fetch

\* One search by itself.
WebSpec == WebInit /\ [][WebNext]_webVars

---------------------------------------------------------------------------
(* Whichever of their tags the results of a page leave out, the address,    *)
(* the title and the snippet of a candidate come from one result of it,     *)
(* no more candidates are returned than were asked for, and what is shown   *)
(* of a fetched page is within its budget.  Only that a caption is closed   *)
(* before the next result starts is assumed of a page (WebAssumption).      *)
CandidatesAreWhole ==
    /\ \A i \in DOMAIN results :
         /\ results[i].url \in Blocks
         /\ results[i].title = results[i].url
         /\ results[i].snippet \subseteq {results[i].url}
    /\ Len(results) <= Limit
    /\ passages # << >> => fetched # 0 /\ Used(passages) <= PassageBudget
=============================================================================
