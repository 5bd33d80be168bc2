------------------------------- MODULE HttpParse -------------------------------
(***************************************************************************)
(* ProcessRead of src/mywebserver/http: one state machine that cuts lines  *)
(* out of the read buffer and another that makes a request of them, over   *)
(* bytes that arrive in pieces.  Each piece is parsed by the worker that   *)
(* gets the slot then, from where the last one stopped.                    *)
(*                                                                         *)
(* The bytes are tokens: "CR" and "LF", the text of a line as one token,   *)
(* one token for each byte of a body.  What DoRequest answers is left to   *)
(* it: here the answer is what it is given.                                *)
(***************************************************************************)
EXTENDS Integers, SequencesExt

CONSTANTS
    Requests,   \* what clients send: records of a line, headers and a body
    Whole       \* whether a body comes in one piece

Line == {"request", "bad"}              \* a good request line, and another
Header == {"header", "keep", "length"}  \* "Connection: keep-alive", and
                                        \* "Content-Length: " with that of the body
Stray == {"CR", "LF"}                   \* one of them alone, in the place of a header
CRLF == <<"CR", "LF">>

ASSUME HttpParseAssumption ==
    /\ Whole \in BOOLEAN
    /\ \A r \in Requests :
        /\ r.line \in Line
        /\ r.headers \in Seq(Header \cup Stray)
        /\ r.body \in Seq({"byte", "CR", "LF"})
        /\ r.body # <<>> => Contains(r.headers, "length")

\* A request on its way: its bytes, and where its body begins.
HeadOf(r) ==
    <<r.line>> \o CRLF
        \o FlattenSeq([i \in DOMAIN r.headers |-> <<r.headers[i]>> \o CRLF])
        \o CRLF
Wire(r) == HeadOf(r) \o r.body

VARIABLES
    request,        \* history: what the client is sending
    sent,           \* how much of it has been received
    m_readBuf,      \* what has been read; m_readIndex is its length
    m_checkIndex,
    m_startLine,
    m_check_state,
    m_contentLength,
    m_linger,
    line_status,    \* of ProcessRead
    pc,             \* reading, parsing, answering
    answer          \* the HTTP_CODE and what DoRequest goes by

vars == <<request, sent, m_readBuf, m_checkIndex, m_startLine, m_check_state,
          m_contentLength, m_linger, line_status, pc, answer>>

NoAnswer == [code |-> "NO_REQUEST", linger |-> FALSE, body |-> <<>>]

\* http_conn::Init() on the slot, and a client with a request.
Init ==
    /\ request \in Requests
    /\ sent = 0
    /\ m_readBuf = <<>>
    /\ m_checkIndex = 0
    /\ m_startLine = 0
    /\ m_check_state = "REQUESTLINE"
    /\ m_contentLength = 0
    /\ m_linger = FALSE
    /\ line_status = "LINE_OK"
    /\ pc = "reading"
    /\ answer = NoAnswer

\* The next n bytes are read, and a worker enters ProcessRead.
Receive(n) ==
    LET now == sent + n IN
    /\ pc = "reading"
    /\ now <= Len(Wire(request))
    /\ Whole => now <= Len(HeadOf(request)) \/ now = Len(Wire(request))
    /\ sent' = now
    /\ m_readBuf' = m_readBuf \o SubSeq(Wire(request), sent + 1, now)
    /\ line_status' = "LINE_OK"
    /\ pc' = "parsing"
    /\ UNCHANGED <<request, m_checkIndex, m_startLine, m_check_state,
                   m_contentLength, m_linger, answer>>

------------------------------------------------------------------------------
(* ParseLine: the slave machine.                                           *)

At(i) == m_readBuf[i]

\* The CR or LF that stops the scan, or 0.
Stop == SelectInSubSeq(m_readBuf, m_checkIndex + 1, Len(m_readBuf),
                       LAMBDA c : c \in {"CR", "LF"})

\* One byte too far: a mutant.
EndedTooFar(i) ==
    [status |-> "LINE_OK", check |-> i + 1,
     buf |-> [m_readBuf EXCEPT ![i - 1] = "NUL", ![i] = "NUL"]]

\* A line that ends at position i: its end is overwritten with '\0'.
Ended(i) ==
    [status |-> "LINE_OK", check |-> i,
     buf |-> [m_readBuf EXCEPT ![i - 1] = "NUL", ![i] = "NUL"]]
NotEnded(status, i) == [status |-> status, check |-> i, buf |-> m_readBuf]

\* The scan stops at a CR that is the last byte, and begins again there.
ParseLine ==
    IF Stop = 0 THEN NotEnded("LINE_OPEN", Len(m_readBuf))
    ELSE IF At(Stop) = "CR"
    THEN IF Stop = Len(m_readBuf) THEN NotEnded("LINE_OPEN", Stop - 1)
         ELSE IF At(Stop + 1) = "LF" THEN Ended(Stop + 1)
         ELSE NotEnded("LINE_BAD", Stop - 1)
    ELSE IF Stop > 2 /\ At(Stop - 1) = "CR" THEN Ended(Stop)
    ELSE NotEnded("LINE_BAD", Stop - 1)

------------------------------------------------------------------------------
(* ProcessRead: the master machine, one turn of its loop in each action.   *)

\* In the body the loop goes on without a line while line_status says so.
InBody == m_check_state = "CONTENT" /\ line_status = "LINE_OK"
Scan == IF InBody THEN NotEnded("LINE_OK", m_checkIndex) ELSE ParseLine

\* GetLine: the text from m_startLine to the first '\0'.
TextOf(buf) ==
    LET rest == SubSeq(buf, m_startLine + 1, Len(buf))
        end == SelectInSeq(rest, LAMBDA c : c = "NUL")
    IN  IF end = 0 THEN rest ELSE SubSeq(rest, 1, end - 1)

\* The loop has a line: the next one starts where it ends.
Turn(state) ==
    /\ pc = "parsing"
    /\ m_check_state = state
    /\ Scan.status = "LINE_OK"
    /\ m_readBuf' = Scan.buf
    /\ m_checkIndex' = Scan.check
    /\ m_startLine' = Scan.check
    /\ UNCHANGED <<request, sent>>

Answer(code, body) ==
    /\ answer' = [code |-> code, linger |-> m_linger, body |-> body]
    /\ pc' = "answering"
    /\ UNCHANGED <<m_check_state, m_contentLength, m_linger, line_status>>

Continue ==
    /\ line_status' = "LINE_OK"
    /\ UNCHANGED <<pc, answer>>

ParseRequestLine ==
    /\ Turn("REQUESTLINE")
    /\ IF TextOf(Scan.buf) = <<"request">>
       THEN /\ m_check_state' = "HEADER"
            /\ Continue
            /\ UNCHANGED <<m_contentLength, m_linger>>
       ELSE Answer("BAD_REQUEST", <<>>)

\* The empty line ends the request, or its head when a body is to follow.
BlankLine ==
    /\ Turn("HEADER")
    /\ TextOf(Scan.buf) = <<>>
    /\ IF m_contentLength = 0
       THEN Answer("GET_REQUEST", <<>>)
       ELSE /\ m_check_state' = "CONTENT"
            /\ Continue
            /\ UNCHANGED <<m_contentLength, m_linger>>

HeaderLine ==
    LET text == TextOf(Scan.buf) IN
    /\ Turn("HEADER")
    /\ text # <<>>
    /\ m_contentLength' =
        IF text = <<"length">> THEN Len(request.body) ELSE m_contentLength
    /\ m_linger' = (m_linger \/ text = <<"keep">>)
    /\ Continue
    /\ UNCHANGED m_check_state

\* The loop not ended while the body is incomplete: a mutant.
ParseContentSpins ==
    /\ Turn("CONTENT")
    /\ IF Len(m_readBuf) >= m_contentLength + Scan.check
       THEN Answer("GET_REQUEST", SubSeq(TextOf(Scan.buf), 1, m_contentLength))
       ELSE Continue /\ UNCHANGED <<m_check_state, m_contentLength, m_linger>>

\* `>` for `>=`: a mutant.
ParseContentOffByOne ==
    /\ Turn("CONTENT")
    /\ IF Len(m_readBuf) > m_contentLength + Scan.check
       THEN Answer("GET_REQUEST", SubSeq(TextOf(Scan.buf), 1, m_contentLength))
       ELSE /\ line_status' = "LINE_OPEN"
            /\ UNCHANGED <<m_check_state, m_contentLength, m_linger, pc, answer>>

\* The body is complete when m_contentLength bytes follow m_checkIndex; its
\* text is what follows the m_startLine of before.  Otherwise the next turn
\* scans the bytes of the body for a line.
ParseContent ==
    /\ Turn("CONTENT")
    /\ IF Len(m_readBuf) >= m_contentLength + Scan.check
       THEN Answer("GET_REQUEST", SubSeq(TextOf(Scan.buf), 1, m_contentLength))
       ELSE /\ line_status' = "LINE_OPEN"
            /\ UNCHANGED <<m_check_state, m_contentLength, m_linger, pc, answer>>

\* No line: NO_REQUEST, and the connection is armed for more bytes.
NoLine ==
    /\ pc = "parsing"
    /\ Scan.status # "LINE_OK"
    /\ m_checkIndex' = Scan.check
    /\ line_status' = Scan.status
    /\ pc' = "reading"
    /\ UNCHANGED <<request, sent, m_readBuf, m_startLine, m_check_state,
                   m_contentLength, m_linger, answer>>

------------------------------------------------------------------------------
\* m_linger not reset: a mutant.
ResetKeepsLinger(r) ==
    /\ pc \in {"answering", "reading"}
    /\ request' = r
    /\ sent' = 0
    /\ m_readBuf' = <<>>
    /\ m_checkIndex' = 0
    /\ m_startLine' = 0
    /\ m_check_state' = "REQUESTLINE"
    /\ m_contentLength' = 0
    /\ line_status' = "LINE_OK"
    /\ pc' = "reading"
    /\ answer' = NoAnswer
    /\ UNCHANGED m_linger

\* http_conn::Init() again: the next request of the connection, once this one is
\* answered, or the next connection of the slot, after the client or the timer
\* has ended this one.
Reset(r) ==
    /\ pc \in {"answering", "reading"}
    /\ request' = r
    /\ sent' = 0
    /\ m_readBuf' = <<>>
    /\ m_checkIndex' = 0
    /\ m_startLine' = 0
    /\ m_check_state' = "REQUESTLINE"
    /\ m_contentLength' = 0
    /\ m_linger' = FALSE
    /\ line_status' = "LINE_OK"
    /\ pc' = "reading"
    /\ answer' = NoAnswer

ProcessRead ==
    \/ ParseRequestLine
    \/ BlankLine
    \/ HeaderLine
    \/ ParseContent
    \/ NoLine

Next ==
    \/ \E n \in 1..(Len(Wire(request)) - sent) : Receive(n)
    \/ ProcessRead
    \/ \E r \in Requests : Reset(r)

\* A worker in ProcessRead goes on.
SafeSpec == Init /\ [][Next]_vars
Spec == SafeSpec /\ WF_vars(ProcessRead)

------------------------------------------------------------------------------
(* What the parser must satisfy.                                           *)

\* The types; the three cursors never overtake one another.
TypeOK ==
    /\ request \in Requests
    /\ m_readBuf \in Seq(Line \cup Header \cup {"byte", "CR", "LF", "NUL"})
    /\ sent = Len(m_readBuf)
    /\ m_startLine \in Nat /\ m_checkIndex \in Nat
    /\ m_startLine <= m_checkIndex /\ m_checkIndex <= Len(m_readBuf)
    /\ m_check_state \in {"REQUESTLINE", "HEADER", "CONTENT"}
    /\ m_contentLength \in Nat
    /\ m_linger \in BOOLEAN
    /\ line_status \in {"LINE_OK", "LINE_OPEN", "LINE_BAD"}
    /\ pc \in {"reading", "parsing", "answering"}
    /\ answer \in [code : {"NO_REQUEST", "GET_REQUEST", "BAD_REQUEST"},
                   linger : BOOLEAN, body : Seq({"byte", "CR", "LF"})]

\* What a request means, read at once and not byte by byte.
Meaning(r) ==
    IF r.line = "bad"
    THEN [code |-> "BAD_REQUEST", linger |-> FALSE, body |-> <<>>]
    ELSE [code |-> "GET_REQUEST", linger |-> Contains(r.headers, "keep"),
          body |-> r.body]

\* However its bytes are cut into pieces, and whatever was in the slot before, a
\* request is answered for what it says (http_conn.cpp:523-580).
AnswerIsRight == pc = "answering" => answer = Meaning(request)

\* A request that has been received to its end has been answered: the parser
\* does not wait for bytes that are not to come (http_conn.cpp:273: if there is a
\* body, Content-Length bytes of it are still to be read).  One with a stray CR or
\* LF is not: LINE_BAD ends ProcessRead with NO_REQUEST.
Answered ==
    pc = "reading" =>
        \/ sent < Len(Wire(request))
        \/ \E c \in Stray : Contains(request.headers, c)

\* ProcessRead ends: a turn of its loop always gets further.
LoopEnds == pc = "parsing" ~> pc # "parsing"
================================================================================
