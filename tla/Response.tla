-------------------------------- MODULE Response --------------------------------
(***************************************************************************)
(* The response of one http_conn: the file looked up and mapped (the end   *)
(* of DoRequest), the write buffer and the two iovecs (ProcessWrite), and  *)
(* writev as the socket has room (Write), over the requests of one         *)
(* connection after another in the same slot.                              *)
(*                                                                         *)
(* A byte of a response is where it is read from: an offset into the write *)
(* buffer or into the file.                                                *)
(***************************************************************************)
EXTENDS Integers

CONSTANTS
    HeaderLen,  \* bytes of a status line and headers
    FormLen,    \* bytes of the form of an error response
    Sizes       \* sizes of the files under the document root

\* Both lengths fit the write buffer, so that AddResponse never refuses a part.
ASSUME ResponseAssumption ==
    /\ HeaderLen \in Nat \ {0}
    /\ FormLen \in Nat \ {0}
    /\ Sizes \subseteq Nat

VARIABLES
    phase,          \* ready (for a request), send, kept, closed
    m_linger,
    m_iv,           \* the two iovecs, the first into the buffer, the other into
    m_ivCount,      \* the file
    m_writeIndex,
    bytesToSend,
    bytesHaveSend,
    st_size,        \* of m_fileStat
    m_fileAddress,  \* the length of the mapping it is the address of, or 0
    promised,       \* history: Content-Length of the response
    inOrder,        \* history: the bytes sent so far are those of the response
    shorts,         \* history: writes that ended within the first iovec
    cut,            \* history: a connection was closed with its file mapped
    leaked          \* history: a mapping was forgotten, or part of it

vars == <<phase, m_linger, m_iv, m_ivCount, m_writeIndex, bytesToSend,
          bytesHaveSend, st_size, m_fileAddress, promised, inOrder, shorts, cut,
          leaked>>
history == <<inOrder, shorts, cut>>

IoVec(base, len) == [iov_base |-> base, iov_len |-> len]

Init ==
    /\ phase = "ready"
    /\ m_linger = FALSE
    /\ m_iv = <<IoVec(0, 0), IoVec(0, 0)>>
    /\ m_ivCount = 0
    /\ m_writeIndex = 0
    /\ bytesToSend = 0 /\ bytesHaveSend = 0
    /\ st_size = 0
    /\ m_fileAddress = 0
    /\ promised = 0
    /\ inOrder = TRUE /\ shorts = 0
    /\ cut = FALSE /\ leaked = FALSE

------------------------------------------------------------------------------
(* ProcessWrite.                                                           *)

\* The parts of a response are in the buffer and the iovecs point at them.
Prepare(index, iv, count, total) ==
    /\ phase = "ready"
    /\ m_writeIndex' = index
    /\ m_iv' = iv
    /\ m_ivCount' = count
    /\ bytesToSend' = total
    /\ phase' = "send"
    /\ m_linger' \in BOOLEAN
    /\ UNCHANGED <<bytesHaveSend, history>>

\* m_writeIndex after AddStatusLine, AddHeaders and AddContent of so many bytes, each
\* of which appends to the buffer.
AddResponse(content) == m_writeIndex + HeaderLen + content

\* An error: status line, headers and form, all in the buffer.
AddForm ==
    LET index == AddResponse(FormLen) IN
    /\ Prepare(index, [m_iv EXCEPT ![1] = IoVec(0, index)], 1, index)
    /\ promised' = FormLen
    /\ UNCHANGED <<m_fileAddress, leaked>>

\* The request is bad, or there is no such file.
NoFile == AddForm /\ UNCHANGED st_size

\* The file is a directory or not readable by all: m_fileStat is its.
Refused(size) == AddForm /\ st_size' = size

\* DoRequest maps the file; the address that m_fileAddress held is lost.
Map(size) ==
    /\ st_size' = size
    /\ m_fileAddress' = size
    /\ leaked' = (leaked \/ m_fileAddress > 0)

\* The length of the header left out: a mutant.
AddFileShort(size) ==
    /\ size > 0
    /\ Map(size)
    /\ Prepare(AddResponse(0), <<IoVec(0, AddResponse(0)), IoVec(0, size)>>, 2, size)
    /\ promised' = size

AddFile(size) ==
    /\ size > 0
    /\ Map(size)
    /\ Prepare(AddResponse(0), <<IoVec(0, AddResponse(0)), IoVec(0, size)>>, 2,
               AddResponse(0) + size)
    /\ promised' = size

\* mmap of an empty file fails, and its case falls through to the default one: the
\* connection is closed.
EmptyFile ==
    /\ phase = "ready"
    /\ 0 \in Sizes
    /\ Map(0)
    /\ m_writeIndex' = AddResponse(FormLen)
    /\ phase' = "closed"
    /\ m_linger' \in BOOLEAN
    /\ UNCHANGED <<m_iv, m_ivCount, bytesToSend, bytesHaveSend, promised, history>>

------------------------------------------------------------------------------
(* Write.                                                                  *)

\* munmap by m_fileStat, whatever was mapped; m_fileAddress is 0 then.
UnMap ==
    /\ m_fileAddress' = 0
    /\ leaked' = (leaked \/ (m_fileAddress > 0 /\ m_fileAddress # st_size))

\* What the i-th byte is that writev takes from the iovecs, and how many there are.
Taken(i) ==
    LET first == m_iv[1].iov_len IN
    IF i <= first THEN <<"buffer", m_iv[1].iov_base + i - 1>>
    ELSE <<"file", m_iv[2].iov_base + i - first - 1>>
Available == m_iv[1].iov_len + IF m_ivCount = 2 THEN m_iv[2].iov_len ELSE 0

\* What the k-th byte of the response is.
Byte(k) ==
    IF k <= m_writeIndex THEN <<"buffer", k - 1>>
    ELSE <<"file", k - m_writeIndex - 1>>

\* The iovecs after `have` bytes in all, `left` being still to send.
Advance(have, left) ==
    IF have >= m_iv[1].iov_len
    THEN <<[m_iv[1] EXCEPT !.iov_len = 0], IoVec(have - m_writeIndex, left)>>
    ELSE <<IoVec(have, m_iv[1].iov_len - have), m_iv[2]>>

\* writev takes n bytes.  When it takes none, the socket being full, Write returns
\* and is called again with everything as it is.
Write(n) ==
    LET have == bytesHaveSend + n
        left == bytesToSend - n
    IN
    /\ phase = "send"
    /\ bytesHaveSend' = have
    /\ bytesToSend' = left
    /\ m_iv' = Advance(have, left)
    /\ inOrder' = (inOrder /\ \A i \in 1..n : Taken(i) = Byte(bytesHaveSend + i))
    /\ shorts' = IF n < m_iv[1].iov_len THEN shorts + 1 ELSE shorts
    /\ IF left <= 0
       THEN /\ UnMap
            /\ phase' = IF m_linger THEN "kept" ELSE "closed"
       ELSE UNCHANGED <<m_fileAddress, leaked, phase>>
    /\ UNCHANGED <<m_linger, m_ivCount, m_writeIndex, st_size, promised, cut>>

\* The file left mapped when a write fails: a mutant.
WriteErrorKeepsMap ==
    /\ phase = "send"
    /\ phase' = "closed"
    /\ UNCHANGED <<m_linger, m_iv, m_ivCount, m_writeIndex, bytesToSend,
                   bytesHaveSend, st_size, m_fileAddress, leaked, promised, history>>

\* writev fails: the connection is closed.
WriteError ==
    /\ phase = "send"
    /\ UnMap
    /\ phase' = "closed"
    /\ UNCHANGED <<m_linger, m_iv, m_ivCount, m_writeIndex, bytesToSend,
                   bytesHaveSend, st_size, promised, history>>

\* The client hangs up, or the timer closes the connection: nothing is unmapped.
Cut ==
    /\ phase = "send"
    /\ cut' = (cut \/ m_fileAddress > 0)
    /\ phase' = "closed"
    /\ UNCHANGED <<m_linger, m_iv, m_ivCount, m_writeIndex, bytesToSend,
                   bytesHaveSend, st_size, m_fileAddress, promised, inOrder, shorts,
                   leaked>>

\* http_conn::Init() for the next request or the next connection of the slot: the
\* iovecs, m_fileStat and m_fileAddress stay as they are.
InitConn ==
    /\ phase \in {"kept", "closed"}
    /\ phase' = "ready"
    /\ m_linger' = FALSE
    /\ m_writeIndex' = 0
    /\ bytesToSend' = 0 /\ bytesHaveSend' = 0
    /\ promised' = 0
    /\ inOrder' = TRUE /\ shorts' = 0
    /\ UNCHANGED <<m_iv, m_ivCount, st_size, m_fileAddress, cut, leaked>>

Next ==
    \/ NoFile \/ EmptyFile
    \/ \E size \in Sizes : Refused(size) \/ AddFile(size)
    \/ \E n \in 1..Available : Write(n)
    \/ WriteError \/ Cut \/ InitConn

Spec == Init /\ [][Next]_vars

------------------------------------------------------------------------------
(* What a response must satisfy.                                           *)

TypeOK ==
    /\ phase \in {"ready", "send", "kept", "closed"}
    /\ m_linger \in BOOLEAN
    /\ m_iv \in [1..2 -> [iov_base : Int, iov_len : Int]]
    /\ m_ivCount \in {0, 1, 2}
    /\ m_writeIndex \in Nat
    /\ bytesToSend \in Int /\ bytesHaveSend \in Nat
    /\ st_size \in Sizes \cup {0}
    /\ m_fileAddress \in Sizes \cup {0}
    /\ promised \in Nat /\ shorts \in Nat
    /\ inOrder \in BOOLEAN /\ cut \in BOOLEAN /\ leaked \in BOOLEAN

\* The bytes go out once each and in order, header before file, however little
\* room the socket has, the iovecs always hold what is still to send, and a
\* response that has ended well has as many bytes after its header as
\* Content-Length promised: as long as at most one write ends within the header
\* (http_conn.cpp:615-627 does not advance correctly over a second one).
BytesInOrder ==
    shorts <= 1 =>
        /\ inOrder
        /\ phase = "send" => bytesToSend > 0 /\ Available = bytesToSend
        /\ phase = "kept" => bytesHaveSend = HeaderLen + promised

\* A file stays mapped only while it is sent, and none is forgotten or unmapped by
\* another's size, unless a connection was closed in the middle of a
\* download (http_conn.cpp:516-517, 583-588, 611, 631).
NoMappingLeft ==
    ~cut => ~leaked /\ (m_fileAddress > 0 => phase = "send")
================================================================================
