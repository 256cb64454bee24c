----------------------------- MODULE Recordings -----------------------------
(***************************************************************************)
(* The search for recordings and their download to a USB stick: the window   *)
(* src/cctv/CCTV/VideoManaWid.cxx on the main thread, the recorder's client  *)
(* thread which queues its answers (PmsgProc in NVRMsgProc.cxx), and the FTP *)
(* thread FTP_DownloadDataRecvThread (src/cctv/ftp/ftpApi.c), which reports  *)
(* through PftpProc.  The states and the progress (src/cctv/state/state.c)   *)
(* are shared without a mutex.                                               *)
(*                                                                         *)
(* A step is what a thread does between two accesses to what another thread  *)
(* changes.  An answer is TRUE when it belongs to the last search.  A file   *)
(* is a number of blocks; what the recorder says of the files' sizes is less *)
(* when it still writes one, or when a SIZE was not answered.  What fwrite    *)
(* accepts is not on the stick yet: the stick may be full, or gone, when the  *)
(* file is flushed and closed.                                               *)
(***************************************************************************)
EXTENDS Integers, Sequences

CONSTANTS
  MaxPoll,   \* polls after which a search is given up; 50
  MaxAnswer, \* bound: answers on their way or queued
  MaxFile,   \* bound: files of one download
  MaxSize    \* bound: blocks of a file

ASSUME RecordingsAssumption ==
  /\ MaxPoll \in Nat \ {0} /\ MaxAnswer \in Nat \ {0}
  /\ MaxFile \in Nat \ {0} /\ MaxSize \in Nat \ {0}

VARIABLES
  winPc,                   \* main thread
  \* search
  g_eFileSearch, m_iWaitFileCnt, srhTimer,
  m_FileString, rows,      \* answers read, and whether they are listed
  wire, procPc, ptFileQueue, \* answers on their way, in PmsgProc's hand, queued
  overdue,                 \* history: answers were outstanding when the search began
  \* download
  g_eFileDownState, g_iFileProgress, \* progress: is it 100?
  downTimer, message,      \* and what the window says of the download
  files, todo,             \* files of the download, and those still queued
  toCome, left,            \* blocks of the files queued, and of the file in work
  DownloadFileSize, iFileSize, \* blocks announced, and accepted by fwrite
  threadRunFlag, ftpPc, iPos, usb,
  \* history
  honest,                  \* the sizes said are true
  lack,                    \* the file in work lacks a block that was sent, or was to be
  whole, lost,             \* files whole on the stick, and those whose every block was
                           \* accepted but not taken by the stick
  broken, leftover         \* some file lacks a block; the progress is the last download's

search   == <<g_eFileSearch, m_iWaitFileCnt, srhTimer, m_FileString, rows, ptFileQueue>>
answers  == <<wire, procPc, overdue>>
progress == <<g_eFileDownState, g_iFileProgress, leftover>>
amount   == <<files, DownloadFileSize, honest>>
saved    == <<lack, whole, lost, broken>>
job      == <<amount, todo, toCome, left, iFileSize, saved>>
ftp      == <<threadRunFlag, ftpPc, iPos>>
recVars  == <<winPc, search, answers, progress, downTimer, message, job, ftp, usb>>

RecInit ==
  /\ winPc = "ready"
  /\ g_eFileSearch = "IDLE" /\ m_iWaitFileCnt = 0 /\ srhTimer = FALSE
  /\ m_FileString = {} /\ rows = FALSE
  /\ wire = <<>> /\ procPc = "idle" /\ ptFileQueue = <<>> /\ overdue = FALSE
  /\ g_eFileDownState = "IDLE" /\ g_iFileProgress = FALSE /\ downTimer = FALSE
  /\ message = "other"
  /\ files = 0 /\ todo = 0 /\ toCome = 0 /\ left = 0
  /\ DownloadFileSize = 0 /\ iFileSize = 0 /\ honest = TRUE
  /\ threadRunFlag = FALSE /\ ftpPc = "ended" /\ iPos = 0 /\ usb \in BOOLEAN
  /\ lack = FALSE /\ whole = 0 /\ lost = 0 /\ broken = FALSE /\ leftover = FALSE

download == <<progress, downTimer, job, ftp, usb>>

-----------------------------------------------------------------------------
(* The search *)

\* SearchBtnClicked: what was found is forgotten ...  (Bound: not during a download,
\* with which a search shares nothing but the main thread.)
SearchBtnClicked ==
  /\ winPc = "ready" /\ g_eFileSearch = "IDLE" /\ ~threadRunFlag
  /\ winPc' = "clean" /\ g_eFileSearch' = "SEARCHING"
  /\ m_iWaitFileCnt' = 0 /\ rows' = FALSE
  /\ overdue' = (wire # <<>> \/ procPc # "idle")
  /\ wire' = [i \in DOMAIN wire |-> FALSE]
  /\ procPc' = IF procPc = "idle" THEN "idle" ELSE "old"
  /\ ptFileQueue' = [i \in DOMAIN ptFileQueue |-> FALSE]
  /\ UNCHANGED <<srhTimer, m_FileString, message, download>>

\* Mutant: what is queued stays queued.
NoCleanFileInfo ==
  /\ winPc = "clean" /\ winPc' = "send"
  /\ UNCHANGED <<search, answers, message, download>>

\* ... what is queued, too ...
NVR_CleanFileInfo ==
  /\ winPc = "clean" /\ winPc' = "send" /\ ptFileQueue' = <<>>
  /\ UNCHANGED <<g_eFileSearch, m_iWaitFileCnt, srhTimer, m_FileString, rows, answers,
                 message, download>>

\* ... and the recorder is asked; it answers in any number of packets, or never.
SendSearch ==
  /\ winPc = "send" /\ winPc' = "ready"
  /\ m_FileString' = {} /\ srhTimer' = TRUE /\ message' = "other"
  /\ \E n \in 0 .. MaxAnswer - Len(wire) : wire' = wire \o [i \in 1 .. n |-> TRUE]
  /\ UNCHANGED <<g_eFileSearch, m_iWaitFileCnt, rows, ptFileQueue, procPc, overdue, download>>

\* FileSrhResultTimer, until the first answers are there.
FileSrhResultTimer ==
  LET count == m_iWaitFileCnt + 1 IN
  /\ winPc = "ready" /\ srhTimer /\ m_iWaitFileCnt' = count
  /\ IF count < MaxPoll
     THEN /\ winPc' = IF ptFileQueue = <<>> THEN "ready" ELSE "drain"
          /\ UNCHANGED <<g_eFileSearch, srhTimer, message>>
     ELSE /\ g_eFileSearch' = "IDLE" /\ srhTimer' = FALSE /\ message' = "other"
          /\ UNCHANGED winPc
  /\ UNCHANGED <<m_FileString, rows, ptFileQueue, answers, download>>

\* It then takes them until there is none.
NVR_GetFileInfo ==
  /\ winPc = "drain" /\ ptFileQueue # <<>>
  /\ m_FileString' = m_FileString \cup {Head(ptFileQueue)} /\ ptFileQueue' = Tail(ptFileQueue)
  /\ UNCHANGED <<winPc, g_eFileSearch, m_iWaitFileCnt, srhTimer, rows, answers, message, download>>

FilesFound ==
  /\ winPc = "drain" /\ ptFileQueue = <<>> /\ winPc' = "ready"
  /\ rows' = TRUE /\ g_eFileSearch' = "IDLE" /\ srhTimer' = FALSE /\ message' = "other"
  /\ UNCHANGED <<m_iWaitFileCnt, m_FileString, ptFileQueue, answers, download>>

\* PmsgProc drops an answer when no search is on ...
PmsgProc ==
  /\ wire # <<>> /\ procPc = "idle" /\ wire' = Tail(wire)
  /\ procPc' = IF g_eFileSearch # "SEARCHING" THEN "idle" ELSE IF Head(wire) THEN "new" ELSE "old"
  /\ UNCHANGED <<winPc, search, overdue, message, download>>

\* ... and queues it otherwise.
PutFileInfo ==
  /\ procPc # "idle" /\ procPc' = "idle"
  /\ ptFileQueue' = Append(ptFileQueue, procPc = "new")
  /\ UNCHANGED <<winPc, g_eFileSearch, m_iWaitFileCnt, srhTimer, m_FileString, rows, wire, overdue,
                 message, download>>

Search == NVR_CleanFileInfo \/ SendSearch \/ NVR_GetFileInfo \/ FilesFound

-----------------------------------------------------------------------------
(* The download: the main thread *)

\* DownBtnClicked: a connection, the sizes of the files, and the thread ...
DownBtnClicked ==
  /\ winPc = "ready" /\ usb /\ g_eFileDownState # "DOWNING" /\ rows
  /\ winPc' = "start"
  /\ \E n \in 1 .. MaxFile : \E size \in n .. n * MaxSize : \E said \in 0 .. size :
       /\ files' = n /\ todo' = n /\ toCome' = size
       /\ DownloadFileSize' = said /\ honest' = (said = size)
  /\ iFileSize' = 0 /\ left' = 0
  /\ lack' = FALSE /\ whole' = 0 /\ lost' = 0 /\ broken' = FALSE
  /\ threadRunFlag' = TRUE /\ ftpPc' = "top" /\ iPos' = 0
  /\ leftover' = g_iFileProgress
  /\ UNCHANGED <<search, answers, g_eFileDownState, g_iFileProgress, downTimer, message, usb>>

\* ... which runs already when this is stored.
SetDowning ==
  /\ winPc = "start" /\ winPc' = "ready"
  /\ g_eFileDownState' = "DOWNING" /\ downTimer' = TRUE /\ message' = "other"
  /\ UNCHANGED <<search, answers, g_iFileProgress, leftover, job, ftp, usb>>

\* CheckDownProcessFun reads the progress ...
CheckDownProcessFun ==
  /\ winPc = "ready" /\ downTimer /\ g_iFileProgress /\ winPc' = "full"
  /\ UNCHANGED <<search, answers, progress, downTimer, message, job, ftp, usb>>

\* ... and then the state.
ShowResult ==
  /\ winPc = "full" /\ winPc' = "destroy" /\ downTimer' = FALSE
  /\ message' = IF g_eFileDownState = "SUCC" THEN "succeeded" ELSE "failed"
  /\ UNCHANGED <<search, answers, progress, job, ftp, usb>>

\* FTP_DestoryConnect: the thread is told to end ...
FTP_DestoryConnect ==
  /\ winPc = "destroy" /\ winPc' = "join"
  /\ g_eFileDownState' = "IDLE" /\ threadRunFlag' = FALSE
  /\ UNCHANGED <<search, answers, g_iFileProgress, leftover, downTimer, message, job, ftpPc, iPos, usb>>

\* ... and waited for, and the connection is freed.
JoinThread ==
  /\ winPc = "join" /\ ftpPc = "ended" /\ winPc' = "ready"
  /\ files' = 0 /\ todo' = 0 /\ toCome' = 0 /\ left' = 0
  /\ DownloadFileSize' = 0 /\ iFileSize' = 0 /\ honest' = TRUE
  /\ iPos' = 0 /\ lack' = FALSE /\ whole' = 0 /\ lost' = 0 /\ broken' = FALSE /\ leftover' = FALSE
  /\ UNCHANGED <<search, answers, g_eFileDownState, g_iFileProgress, downTimer, message,
                 threadRunFlag, ftpPc, usb>>

Window == SetDowning \/ CheckDownProcessFun \/ ShowResult \/ FTP_DestoryConnect \/ JoinThread

-----------------------------------------------------------------------------
(* The download: FTP_DownloadDataRecvThread *)

Ftp(pc) ==
  /\ ftpPc' = pc
  /\ UNCHANGED <<winPc, search, answers, g_eFileDownState, downTimer, message, amount,
                 threadRunFlag, usb>>

\* "report" before a file is open, "flush" when it is.
Fail(pc, pos) ==
  /\ Ftp(pc) /\ iPos' = pos
  /\ UNCHANGED <<g_iFileProgress, leftover, todo, toCome, iFileSize, left, saved>>

\* The stick is looked for before each file, before each block, and again when
\* select has waited for one in vain.
UsbIsGone ==
  /\ threadRunFlag /\ ~usb
  /\ \/ ftpPc = "top" /\ Fail("report", -1)
     \/ ftpPc \in {"data", "recv"} /\ Fail("flush", -1)

UsbIsThere ==
  /\ ftpPc = "data" /\ threadRunFlag /\ usb /\ Ftp("recv")
  /\ UNCHANGED <<g_iFileProgress, leftover, todo, toCome, iFileSize, left, iPos, saved>>

\* The next file; a thread without one goes on looking.
GetNode ==
  /\ ftpPc = "top" /\ threadRunFlag /\ usb /\ todo > 0
  /\ Ftp("setup") /\ todo' = todo - 1
  /\ left' \in {n \in 1 .. MaxSize : toCome - n \in todo - 1 .. (todo - 1) * MaxSize}
  /\ toCome' = toCome - left'
  /\ UNCHANGED <<g_iFileProgress, leftover, iFileSize, iPos, saved>>

\* fopen, TYPE, PASV, connect and RETR.
Setup ==
  /\ ftpPc = "setup" /\ Ftp("data")
  /\ UNCHANGED <<g_iFileProgress, leftover, todo, toCome, iFileSize, left, iPos, saved>>

SetupFails == ftpPc = "setup" /\ \E pos \in {-2, -3} : Fail("report", pos)

\* A block has come.  At 100 nothing more is received.
Block ==
  /\ ftpPc = "recv" /\ left > 0 /\ DownloadFileSize > 0 /\ left' = left - 1
  /\ UNCHANGED <<todo, toCome, whole, lost>>

\* fwrite accepts it; "end" when the thread takes it for the last, otherwise the
\* progress is 100 or less as "full" says.
Accepted(end, full) ==
  /\ Block /\ iFileSize' = iFileSize + 1
  /\ IF end THEN iPos' = 100 /\ Ftp("flush") /\ UNCHANGED <<g_iFileProgress, leftover>>
     ELSE iPos' = 1 /\ Ftp("data") /\ g_iFileProgress' = full /\ leftover' = FALSE
  /\ UNCHANGED <<lack, broken>>

\* Mutant: when a file is complete the progress is 100.
RecvPerFile == Accepted(iFileSize + 1 = DownloadFileSize, left = 1)

\* Mutant: one block more is waited for.
RecvOneMore == Accepted(iFileSize = DownloadFileSize, FALSE)

\* At 100 all is done, whatever is left to get.
RecvBlock == Accepted(iFileSize + 1 = DownloadFileSize, FALSE)

\* Mutant: what was received counts, not what was written.
WriteShortCounts ==
  /\ Block /\ lack' = TRUE /\ broken' = TRUE /\ iFileSize' = iFileSize + 1
  /\ IF iFileSize' = DownloadFileSize THEN iPos' = 100 /\ Ftp("flush") ELSE iPos' = 1 /\ Ftp("data")
  /\ g_iFileProgress' = FALSE /\ leftover' = FALSE

\* fwrite accepts a part of it, and the rest is not written again.
WriteShort ==
  /\ Block /\ lack' = TRUE /\ broken' = TRUE /\ UNCHANGED iFileSize
  /\ iPos' = 1 /\ Ftp("data") /\ g_iFileProgress' = FALSE /\ leftover' = FALSE

WriteFails == ftpPc = "recv" /\ left > 0 /\ Fail("flush", IF usb THEN -2 ELSE -1)

\* recv returns 0: at the end of the file, when the recorder breaks off, or when
\* nothing is announced and it is asked for no byte.  It counts as a success.
RecvEnd ==
  /\ ftpPc = "recv" /\ Ftp("flush")
  /\ lack' = (lack \/ left > 0) /\ broken' = (broken \/ left > 0) /\ left' = 0
  /\ UNCHANGED <<g_iFileProgress, leftover, todo, toCome, iFileSize, iPos, whole, lost>>

\* recv fails, or select too often.
RecvFails == ftpPc = "recv" /\ Fail("flush", -3)

\* The thread is told to end; within a file it closes it first.
Stop ==
  /\ ~threadRunFlag
  /\ \/ ftpPc = "top" /\ Ftp("ended")
     \/ ftpPc \in {"data", "recv"} /\ Ftp("flush")
  /\ UNCHANGED <<g_iFileProgress, leftover, todo, toCome, iFileSize, left, iPos, saved>>

Final == iPos \in {100, -1, -2, -3}

\* fflush, fsync and fclose, whose results are not looked at: a stick that is full,
\* or pulled out since the block was accepted, does not take the file's end.
Flush ==
  /\ ftpPc = "flush" /\ Ftp(IF Final THEN "report" ELSE "top")
  /\ left' = 0 /\ lack' = FALSE
  /\ IF left = 0 /\ ~lack
     THEN \/ usb /\ whole' = whole + 1 /\ UNCHANGED lost
          \/ lost' = lost + 1 /\ UNCHANGED whole
     ELSE UNCHANGED <<whole, lost>>
  /\ UNCHANGED <<g_iFileProgress, leftover, todo, toCome, iFileSize, iPos, broken>>

\* PftpProc stores the progress ...
SetFileDownProgress ==
  /\ ftpPc = "report" /\ Ftp("result") /\ g_iFileProgress' = TRUE /\ leftover' = FALSE
  /\ UNCHANGED <<todo, toCome, iFileSize, left, iPos, saved>>

\* ... and then the state.
SetFileDownState ==
  /\ ftpPc = "result" /\ ftpPc' = "ended"
  /\ g_eFileDownState' = IF iPos = 100 THEN "SUCC" ELSE "FAIL"
  /\ UNCHANGED <<winPc, search, answers, g_iFileProgress, leftover, downTimer, message, job,
                 threadRunFlag, iPos, usb>>

Thread ==
  \/ UsbIsGone \/ UsbIsThere \/ GetNode \/ Setup \/ SetupFails
  \/ RecvBlock \/ WriteShort \/ WriteFails \/ RecvEnd \/ RecvFails \/ Stop \/ Flush
  \/ SetFileDownProgress \/ SetFileDownState

UsbChanges ==
  /\ usb' = ~usb
  /\ UNCHANGED <<winPc, search, answers, progress, downTimer, message, job, ftp>>

-----------------------------------------------------------------------------

RecNext ==
  \/ SearchBtnClicked \/ FileSrhResultTimer \/ Search \/ PmsgProc \/ PutFileInfo
  \/ DownBtnClicked \/ Window \/ Thread \/ UsbChanges

RecSpec == RecInit /\ [][RecNext]_recVars

\* The threads run, what the main thread has begun it ends, and the timer comes
\* when it is free.
FairRecSpec ==
  /\ RecSpec
  /\ WF_recVars(Search) /\ WF_recVars(Window) /\ WF_recVars(Thread)
  /\ SF_recVars(CheckDownProcessFun)

-----------------------------------------------------------------------------
(* Properties *)

\* The list shows answers to the last search only - unless an answer was still
\* outstanding when it began.
ListIsOfThisSearch == rows /\ FALSE \in m_FileString => overdue

\* When a download is said to have succeeded every block of every file was written:
\* each file is whole on the stick, unless the stick did not take at the end what
\* fwrite had accepted, or the recorder said less than a file's size.
SuccessIsWhole ==
  message = "succeeded" /\ winPc # "start" /\ honest => whole + lost = files

\* The window ends a download only when the thread has reported its end - or when
\* the progress it reads is the last download's.
EndedByReport ==
  [][winPc = "ready" /\ winPc' = "full" => ftpPc \in {"result", "ended"} \/ leftover]_recVars

\* A download comes to an end and the window goes on - unless the recorder said
\* more than it sends, or no size at all, or the stick took only a part of a block.
DownloadEnds ==
  g_eFileDownState = "DOWNING"
    ~> (g_eFileDownState # "DOWNING" /\ winPc = "ready") \/ broken \/ DownloadFileSize = 0
=============================================================================
