---------------------------- MODULE Response_proofs ----------------------------
(***************************************************************************)
(* Proofs for Response: the bytes go out in order, and no mapping is left, *)
(* for every length of header and form and all sizes of files.             *)
(***************************************************************************)
EXTENDS Response, Sequences, TLAPS

\* The part of the response that is a file.
FilePart == IF m_ivCount = 2 THEN st_size ELSE 0

\* The first iovec still has bytes: exactly those of the buffer that were not sent,
\* and nothing of the file was.
InHeader ==
    /\ m_iv[1].iov_len > 0
    /\ m_iv[1].iov_base = bytesHaveSend
    /\ bytesHaveSend + m_iv[1].iov_len = m_writeIndex
    /\ shorts = 0 => bytesHaveSend = 0
    /\ m_ivCount = 2 => m_iv[2].iov_base = 0 /\ m_iv[2].iov_len = st_size

\* It has none: the second is the rest of the file.
InFile ==
    /\ m_iv[1].iov_len = 0
    /\ m_ivCount = 2
    /\ m_iv[2].iov_base = bytesHaveSend - m_writeIndex
    /\ m_iv[2].iov_base >= 0
    /\ m_iv[2].iov_len = bytesToSend

\* What a response being sent looks like.
Sending ==
    /\ m_ivCount \in {1, 2}
    /\ bytesToSend > 0
    /\ bytesHaveSend + bytesToSend = m_writeIndex + FilePart
    /\ HeaderLen + promised = m_writeIndex + FilePart
    /\ InHeader \/ InFile

\* The inductive invariant of BytesInOrder.
OrderInv ==
    /\ TypeOK
    /\ phase = "ready" => m_writeIndex = 0 /\ bytesHaveSend = 0 /\ shorts = 0
    /\ shorts <= 1 =>
        /\ inOrder
        /\ phase = "send" => Sending
        /\ phase = "kept" => bytesHaveSend = HeaderLen + promised

\* And that of NoMappingLeft.
MapInv ==
    ~cut => /\ ~leaked
            /\ m_fileAddress > 0 => phase = "send" /\ m_fileAddress = st_size

------------------------------------------------------------------------------
LEMMA IoVecs ==
    ASSUME NEW a \in Int, NEW b \in Int, NEW c \in Int, NEW d \in Int
    PROVE  <<IoVec(a, b), IoVec(c, d)>> \in [1..2 -> [iov_base : Int, iov_len : Int]]
<1> DEFINE R == [iov_base : Int, iov_len : Int]
<1>1. IoVec(a, b) \in R /\ IoVec(c, d) \in R
    BY DEF IoVec
<1> HIDE DEF R
<1>2. <<IoVec(a, b), IoVec(c, d)>> \in Seq(R) /\ Len(<<IoVec(a, b), IoVec(c, d)>>) = 2
    BY <1>1
<1> QED
    BY <1>2 DEF R

LEMMA ResponseTypeInit == Init => TypeOK
<1> SUFFICES ASSUME Init PROVE TypeOK
    OBVIOUS
<1>1. m_iv \in [1..2 -> [iov_base : Int, iov_len : Int]]
    BY IoVecs DEF Init
<1>2. inOrder \in BOOLEAN /\ cut \in BOOLEAN /\ leaked \in BOOLEAN
    BY Zenon DEF Init
<1>3. m_linger \in BOOLEAN
    BY Zenon DEF Init
<1> QED
    BY <1>1, <1>2, <1>3, ResponseAssumption DEF Init, TypeOK

LEMMA ResponseTypeNext == TypeOK /\ [Next]_vars => TypeOK'
<1> SUFFICES ASSUME TypeOK, [Next]_vars PROVE TypeOK'
    OBVIOUS
<1> USE ResponseAssumption DEF TypeOK, history, AddResponse
<1>1. CASE NoFile
    BY <1>1 DEF NoFile, AddForm, Prepare, IoVec
<1>2. CASE EmptyFile
    BY <1>2 DEF EmptyFile, Map
<1>3. ASSUME NEW size \in Sizes, Refused(size) PROVE TypeOK'
    BY <1>3 DEF Refused, AddForm, Prepare, IoVec
<1>4. ASSUME NEW size \in Sizes, AddFile(size) PROVE TypeOK'
    BY <1>4 DEF AddFile, Map, Prepare, IoVec
<1>5. ASSUME NEW n \in 1..Available, Write(n) PROVE TypeOK'
    <2>1. n \in Nat
        BY DEF Available
    <2>2. m_iv' \in [1..2 -> [iov_base : Int, iov_len : Int]]
        BY <1>5, <2>1 DEF Write, Advance, IoVec
    <2>3. m_fileAddress' \in Sizes \cup {0} /\ leaked' \in BOOLEAN
        BY <1>5 DEF Write, UnMap
    <2>4. shorts' \in Nat /\ inOrder' \in BOOLEAN
        BY <1>5 DEF Write
    <2>5. /\ bytesToSend' \in Int /\ bytesHaveSend' \in Nat
          /\ phase' \in {"ready", "send", "kept", "closed"}
        BY <1>5, <2>1 DEF Write
    <2> QED
        BY <1>5, <2>2, <2>3, <2>4, <2>5 DEF Write
<1>6. CASE WriteError
    BY <1>6 DEF WriteError, UnMap
<1>7. CASE Cut
    BY <1>7 DEF Cut
<1>8. CASE InitConn
    <2>1. inOrder' \in BOOLEAN /\ m_linger' \in BOOLEAN
        BY <1>8, Zenon DEF InitConn
    <2>2. bytesHaveSend' = 0 /\ bytesToSend' = 0 /\ shorts' = 0
        BY <1>8 DEF InitConn
    <2> QED
        BY <1>8, <2>1, <2>2 DEF InitConn
<1>9. CASE UNCHANGED vars
    BY <1>9 DEF vars
<1> QED
    BY <1>1, <1>2, <1>3, <1>4, <1>5, <1>6, <1>7, <1>8, <1>9 DEF Next

\* Response.TypeOK holds in every state.
THEOREM ResponseType == Spec => []TypeOK
BY ResponseTypeInit, ResponseTypeNext, PTL DEF Spec

------------------------------------------------------------------------------
LEMMA AvailableInHeader ==
    ASSUME TypeOK, phase = "send", Sending, InHeader
    PROVE  Available = bytesToSend
BY ResponseAssumption DEF TypeOK, Sending, InHeader, Available, FilePart

LEMMA AvailableInFile ==
    ASSUME TypeOK, Sending, InFile
    PROVE  Available = bytesToSend
BY ResponseAssumption DEF TypeOK, Sending, InFile, Available

\* The bytes that writev takes are the next ones of the response.
LEMMA NextBytes ==
    ASSUME TypeOK, Sending, NEW n \in Nat, n <= bytesToSend
    PROVE  \A i \in 1..n : Taken(i) = Byte(bytesHaveSend + i)
<1> USE ResponseAssumption DEF TypeOK, Sending, FilePart, Taken, Byte
<1> SUFFICES ASSUME NEW i \in 1..n PROVE Taken(i) = Byte(bytesHaveSend + i)
    OBVIOUS
<1>1. CASE InHeader
    BY <1>1 DEF InHeader
<1>2. CASE InFile
    BY <1>2 DEF InFile
<1> QED
    BY <1>1, <1>2

\* A write leaves the iovecs with what is still to send.
LEMMA WriteAdvances ==
    ASSUME TypeOK, TypeOK', Sending, NEW n \in Nat \ {0}, n < bytesToSend,
           phase = "send", Write(n), shorts' <= 1
    PROVE  Sending'
<1> USE ResponseAssumption DEF TypeOK, FilePart
<1>1. /\ m_ivCount' = m_ivCount /\ m_writeIndex' = m_writeIndex
      /\ st_size' = st_size /\ promised' = promised
      /\ bytesHaveSend' = bytesHaveSend + n
      /\ bytesToSend' = bytesToSend - n
      /\ m_iv' = Advance(bytesHaveSend + n, bytesToSend - n)
      /\ shorts' = IF n < m_iv[1].iov_len THEN shorts + 1 ELSE shorts
    BY DEF Write
<1>2. CASE InHeader /\ n < m_iv[1].iov_len
    <2>1. shorts = 0 /\ bytesHaveSend = 0
        BY <1>1, <1>2 DEF InHeader
    <2>2. m_iv' = <<IoVec(n, m_iv[1].iov_len - n), m_iv[2]>>
        BY <1>1, <1>2, <2>1 DEF Advance
    <2>3. InHeader'
        BY <1>1, <1>2, <2>1, <2>2 DEF InHeader, IoVec, Sending
    <2> QED
        BY <1>1, <2>3 DEF Sending
<1>3. CASE InHeader /\ n >= m_iv[1].iov_len
    <2>1. m_iv' = <<[m_iv[1] EXCEPT !.iov_len = 0],
                    IoVec(bytesHaveSend + n - m_writeIndex, bytesToSend - n)>>
        BY <1>1, <1>3 DEF Advance, InHeader
    <2>2. m_ivCount = 2
        BY <1>3 DEF InHeader, Sending
    <2>3. InFile'
        BY <1>1, <1>3, <2>1, <2>2 DEF InFile, InHeader, IoVec
    <2> QED
        BY <1>1, <2>3 DEF Sending
<1>4. CASE InFile
    <2>1. m_iv' = <<[m_iv[1] EXCEPT !.iov_len = 0],
                    IoVec(bytesHaveSend + n - m_writeIndex, bytesToSend - n)>>
        BY <1>1, <1>4 DEF Advance, InFile
    <2>2. InFile'
        BY <1>1, <1>4, <2>1 DEF InFile, IoVec
    <2> QED
        BY <1>1, <2>2 DEF Sending
<1> QED
    BY <1>2, <1>3, <1>4 DEF Sending, InHeader

LEMMA OrderInit == Init => OrderInv
BY ResponseTypeInit DEF Init, OrderInv

LEMMA OrderNext == OrderInv /\ [Next]_vars => OrderInv'
<1> SUFFICES ASSUME OrderInv, [Next]_vars PROVE OrderInv'
    OBVIOUS
<1>0. TypeOK /\ TypeOK'
    BY ResponseTypeNext DEF OrderInv
<1> USE ResponseAssumption, <1>0
<1>1. ASSUME AddForm PROVE OrderInv'
    <2>1. m_iv'[1] = IoVec(0, HeaderLen + FormLen)
        BY <1>1 DEF AddForm, Prepare, AddResponse, TypeOK, OrderInv
    <2>2. Sending'
        BY <1>1, <2>1 DEF AddForm, Prepare, AddResponse, OrderInv, TypeOK, Sending, InHeader,
                          FilePart, IoVec, history
    <2> QED
        BY <1>1, <2>2 DEF AddForm, Prepare, OrderInv, history
<1>2. ASSUME NEW size \in Sizes, AddFile(size) PROVE OrderInv'
    <2>1. m_iv' = <<IoVec(0, HeaderLen), IoVec(0, size)>>
        BY <1>2 DEF AddFile, Prepare, AddResponse, OrderInv
    <2>2. Sending'
        BY <1>2, <2>1 DEF AddFile, Map, Prepare, AddResponse, OrderInv, TypeOK, Sending,
                          InHeader,
                          FilePart, IoVec, history
    <2> QED
        BY <1>2, <2>2 DEF AddFile, Prepare, OrderInv, history
<1>3. ASSUME NEW n \in 1..Available, Write(n) PROVE OrderInv'
    <2>1. phase = "send"
        BY <1>3 DEF Write
    <2> SUFFICES ASSUME shorts' <= 1
                 PROVE  /\ inOrder'
                        /\ phase' = "send" => Sending'
                        /\ phase' = "kept" =>
                            bytesHaveSend' = HeaderLen + promised'
        BY <1>3, <2>1 DEF OrderInv, Write
    <2>2. shorts <= 1
        BY <1>3 DEF Write, TypeOK
    <2>3. Sending /\ inOrder
        BY <2>1, <2>2 DEF OrderInv
    <2>4. Available = bytesToSend
        BY <2>1, <2>3, AvailableInHeader, AvailableInFile DEF Sending
    <2>5. n \in Nat \ {0} /\ n <= bytesToSend
        BY <2>4 DEF TypeOK
    <2>6. inOrder'
        BY <1>3, <2>3, <2>5, NextBytes DEF Write
    <2>7. ASSUME phase' = "send" PROVE Sending'
        <3>1. n < bytesToSend
            BY <1>3, <2>5, <2>7 DEF Write, TypeOK
        <3> QED
            BY <1>3, <2>1, <2>3, <2>5, <3>1, WriteAdvances
    <2>8. ASSUME phase' = "kept" PROVE bytesHaveSend' = HeaderLen + promised'
        <3>1. n = bytesToSend
            BY <1>3, <2>1, <2>5, <2>8 DEF Write, TypeOK
        <3> QED
            BY <1>3, <2>3, <3>1 DEF Write, Sending, TypeOK
    <2> QED
        BY <2>6, <2>7, <2>8
<1>4. CASE NoFile
    BY <1>1, <1>4 DEF NoFile
<1>5. ASSUME NEW size \in Sizes, Refused(size) PROVE OrderInv'
    BY <1>1, <1>5 DEF Refused
<1>6. CASE EmptyFile
    BY <1>6 DEF EmptyFile, OrderInv, history
<1>7. CASE WriteError
    BY <1>7 DEF WriteError, OrderInv, history
<1>8. CASE Cut
    BY <1>8 DEF Cut, OrderInv
<1>9. CASE InitConn
    BY <1>9 DEF InitConn, OrderInv
<1>10. CASE UNCHANGED vars
    BY <1>10 DEF vars, OrderInv, Sending, InHeader, InFile, FilePart
<1> QED
    BY <1>2, <1>3, <1>4, <1>5, <1>6, <1>7, <1>8, <1>9, <1>10 DEF Next

\* Response.BytesInOrder holds in every state: short writes neither lose, double nor
\* reorder a byte of a response, until a second one ends within the header.
THEOREM BytesGoInOrder == Spec => []BytesInOrder
<1>1. OrderInv => BytesInOrder
    BY AvailableInHeader, AvailableInFile DEF OrderInv, BytesInOrder, Sending
<1> QED
    BY OrderInit, OrderNext, <1>1, PTL DEF Spec

------------------------------------------------------------------------------
LEMMA MapNext == TypeOK /\ MapInv /\ [Next]_vars => MapInv'
<1> SUFFICES ASSUME TypeOK, MapInv, [Next]_vars, ~cut'
             PROVE  /\ ~leaked'
                    /\ m_fileAddress' > 0 => phase' = "send" /\ m_fileAddress' = st_size'
    BY DEF MapInv
<1> USE ResponseAssumption DEF TypeOK, MapInv, history
<1>1. CASE NoFile
    BY <1>1 DEF NoFile, AddForm, Prepare
<1>2. CASE EmptyFile
    BY <1>2 DEF EmptyFile, Map
<1>3. ASSUME NEW size \in Sizes, Refused(size) \/ AddFile(size)
      PROVE  /\ ~leaked'
             /\ m_fileAddress' > 0 => phase' = "send" /\ m_fileAddress' = st_size'
    BY <1>3 DEF Refused, AddForm, AddFile, Map, Prepare
<1>4. ASSUME NEW n \in 1..Available, Write(n)
      PROVE  /\ ~leaked'
             /\ m_fileAddress' > 0 => phase' = "send" /\ m_fileAddress' = st_size'
    BY <1>4 DEF Write, UnMap
<1>5. CASE WriteError
    BY <1>5 DEF WriteError, UnMap
<1>6. CASE Cut
    BY <1>6 DEF Cut
<1>7. CASE InitConn
    BY <1>7 DEF InitConn
<1>8. CASE UNCHANGED vars
    BY <1>8 DEF vars
<1> QED
    BY <1>1, <1>2, <1>3, <1>4, <1>5, <1>6, <1>7, <1>8 DEF Next

\* Response.NoMappingLeft holds in every state: no file stays mapped after its
\* response, is forgotten, or is unmapped by the size of another, until a
\* connection is closed in the middle of a download.
THEOREM MappingsEnd == Spec => []NoMappingLeft
<1>1. Init => MapInv
    BY DEF Init, MapInv
<1>2. MapInv => NoMappingLeft
    BY DEF MapInv, NoMappingLeft
<1> QED
    BY ResponseTypeInit, ResponseTypeNext, MapNext, <1>1, <1>2, PTL DEF Spec
================================================================================
