----------------------------- MODULE Downloads ------------------------------
(***************************************************************************)
(* Files that a browser fetches from a host: Downloader of files/mod.rs,   *)
(* FileReceiver of fileTransfer.ts and the buttons of app.ts around it.    *)
(*                                                                         *)
(* When the host's user copies files the host offers them as a numbered    *)
(* list; the browser fetches a list, and a task of its own sends the files *)
(* one by one, beside the host's loop that answers the channel.  A file is *)
(* its number of chunks, a chunk is the id of the transfer that sent it,   *)
(* and a folder is sent as one file under the same contract.  The task's   *)
(* last message and its end are one step: a fetch takes a click and a      *)
(* round trip to come.                                                     *)
(***************************************************************************)
EXTENDS Integers, Sequences
LOCAL INSTANCE SequencesExt

CONSTANTS FileSize,     \* chunks a copied file may have
          OfferSizes,   \* lists of sizes the host may offer
          MaxBytes,     \* defaultMaxDownloadBytes()
          MaxLists, MaxFetches

ASSUME DownloadsAssumption ==
    /\ FileSize \subseteq Nat /\ MaxBytes \in Nat
    /\ OfferSizes \subseteq Seq(FileSize) \ {<<>>}

VARIABLES
    \* the host
    hostList,     \* Downloader.list
    nextList, nextFile,
    sending,      \* the running send_files task
    \* the channel
    toHost, toBrowser,
    fileChannel,  \* open
    \* FileReceiver
    offer, wanted, incoming, cancelled, fetchSeq, lastId,
    \* app.ts
    offeredFiles, \* whether the button shows an offer
    downloadFailed,
    progressShown,
    \* for the properties
    handed        \* the file handed to the user last

hostVars == <<hostList, nextList, nextFile, sending>>
browserVars == <<offer, wanted, incoming, cancelled, fetchSeq, lastId,
                 offeredFiles, downloadFailed, progressShown, handed>>
dlVars == <<hostVars, toHost, toBrowser, fileChannel, browserVars>>

NoList == [id |-> 0, sizes |-> <<>>]
NoSend == [rest |-> <<>>, id |-> 0, left |-> 0, cancel |-> FALSE, fetch |-> 0]
NotWanted == [total |-> 0, done |-> 0, budget |-> 0]
NoFileIn == [id |-> 0, size |-> 0, got |-> <<>>, fetch |-> 0]
Total(sizes) == FoldSeq(LAMBDA a, b : a + b, 0, sizes)

DlInit ==
    /\ hostList = NoList /\ nextList = 1 /\ nextFile = 1 /\ sending = NoSend
    /\ toHost = <<>> /\ toBrowser = <<>> /\ fileChannel = TRUE
    /\ offer = NoList /\ wanted = NotWanted /\ incoming = NoFileIn
    /\ cancelled = FALSE /\ fetchSeq = 0 /\ lastId = 0
    /\ offeredFiles = FALSE /\ downloadFailed = FALSE /\ progressShown = FALSE
    /\ handed = NoFileIn
-----------------------------------------------------------------------------
(* The host *)

Tells(msgs) == toBrowser' = toBrowser \o msgs

Offers(sizes) ==
    /\ fileChannel /\ nextList <= MaxLists
    /\ hostList' = [id |-> nextList, sizes |-> sizes]
    /\ nextList' = nextList + 1
    /\ Tells(<<[t |-> "offer", list |-> hostList']>>)
    /\ UNCHANGED <<nextFile, sending, toHost, fileChannel, browserVars>>

(* Nothing to offer any more: the list is withdrawn.                       *)
Clears ==
    /\ fileChannel /\ nextList <= MaxLists /\ hostList # NoList
    /\ hostList' = NoList
    /\ nextList' = nextList + 1
    /\ Tells(<<[t |-> "offer", list |-> NoList]>>)
    /\ UNCHANGED <<nextFile, sending, toHost, fileChannel, browserVars>>

HostTakes(t) ==
    /\ fileChannel /\ toHost # <<>> /\ Head(toHost).t = t
    /\ toHost' = Tail(toHost)

(* A fetch while a download runs is ignored; while a cancelled one stops,  *)
(* it waits.  A fetch for another list than the last one is ignored.       *)
HostFetch ==
    /\ HostTakes("fetch")
    /\ ~sending.cancel
    /\ LET m == Head(toHost)
           serves == sending = NoSend /\ hostList # NoList /\ hostList.id = m.list
       IN sending' = IF serves
                     THEN [rest |-> hostList.sizes, id |-> 0, left |-> 0,
                           cancel |-> FALSE, fetch |-> m.fetch]
                     ELSE sending
    /\ UNCHANGED <<hostList, nextList, nextFile, toBrowser, fileChannel, browserVars>>

(* client_abort: whichever file it names.                                  *)
HostAbort ==
    /\ HostTakes("abort")
    /\ sending' = IF sending = NoSend THEN sending ELSE [sending EXCEPT !.cancel = TRUE]
    /\ UNCHANGED <<hostList, nextList, nextFile, toBrowser, fileChannel, browserVars>>

(* The file in hand is over; with none left so is the task.                *)
FileEnds == sending' = IF sending.rest = <<>> THEN NoSend ELSE [sending EXCEPT !.id = 0]

(* The next file is opened.  It may be gone, or not as long as offered.    *)
SendsStart ==
    /\ sending # NoSend /\ sending.id = 0 /\ ~sending.cancel
    /\ nextFile' = nextFile + 1
    /\ LET rest == Tail(sending.rest)
           Start(size) == [t |-> "start", id |-> nextFile, size |-> size,
                           fetch |-> sending.fetch]
       IN \/ \E size \in FileSize :
               /\ Tells(<<Start(size)>>)
               /\ sending' = [sending EXCEPT !.rest = rest, !.id = nextFile, !.left = size]
          \/ /\ Tells(<<Start(Head(sending.rest)), [t |-> "abort", id |-> nextFile]>>)
             /\ sending' = IF rest = <<>> THEN NoSend ELSE [sending EXCEPT !.rest = rest]
    /\ UNCHANGED <<hostList, nextList, toHost, fileChannel, browserVars>>

SendsChunk ==
    /\ sending.id # 0 /\ sending.left > 0 /\ ~sending.cancel
    /\ \/ /\ Tells(<<[t |-> "chunk", id |-> sending.id]>>)
          /\ sending' = [sending EXCEPT !.left = @ - 1]
       \/ /\ Tells(<<[t |-> "abort", id |-> sending.id]>>)   \* cannot be read
          /\ FileEnds
    /\ UNCHANGED <<hostList, nextList, nextFile, toHost, fileChannel, browserVars>>

(* After the last chunk of a file nothing looks at `cancel` any more.      *)
SendsEnd ==
    /\ sending.id # 0 /\ sending.left = 0
    /\ Tells(<<[t |-> "end", id |-> sending.id]>>)
    /\ FileEnds
    /\ UNCHANGED <<hostList, nextList, nextFile, toHost, fileChannel, browserVars>>

(* `cancel` is seen between two files and before a chunk.                  *)
SendStops ==
    /\ sending.cancel
    /\ sending' = NoSend
    /\ UNCHANGED <<hostList, nextList, nextFile, toHost, toBrowser, fileChannel, browserVars>>
-----------------------------------------------------------------------------
(* The browser *)

Wanting == wanted # NotWanted

(* finish and onDone: after a download without a failure the button goes.  *)
Finishes(failed) ==
    /\ wanted' = NotWanted /\ incoming' = NoFileIn
    /\ progressShown' = IF Wanting THEN FALSE ELSE progressShown
    /\ offeredFiles' = (offeredFiles /\ (Wanting => failed))

(* The button shows while there is an offer and no download.               *)
Fetch ==
    /\ fileChannel /\ offeredFiles /\ ~Wanting /\ fetchSeq < MaxFetches
    /\ offer # NoList
    /\ IF Total(offer.sizes) > MaxBytes
       THEN /\ downloadFailed' = TRUE
            /\ UNCHANGED <<toHost, wanted, cancelled, fetchSeq>>
       ELSE /\ downloadFailed' = FALSE
            /\ cancelled' = FALSE
            /\ fetchSeq' = fetchSeq + 1
            /\ toHost' = Append(toHost, [t |-> "fetch", list |-> offer.id, fetch |-> fetchSeq'])
            /\ wanted' = [total |-> Len(offer.sizes), done |-> 0, budget |-> Total(offer.sizes)]
    /\ UNCHANGED <<hostVars, toBrowser, fileChannel, offer, incoming, lastId,
                   offeredFiles, progressShown, handed>>

AbortsDownload(id) ==
    /\ toHost' = Append(toHost, [t |-> "abort", id |-> id])
    /\ cancelled' = TRUE /\ downloadFailed' = TRUE
    /\ Finishes(TRUE)

(* The button to cancel shows once there is progress.                      *)
Cancel ==
    /\ fileChannel /\ Wanting /\ progressShown
    /\ AbortsDownload(IF incoming = NoFileIn THEN lastId ELSE incoming.id)
    /\ UNCHANGED <<hostVars, toBrowser, fileChannel, offer, fetchSeq, lastId, handed>>

BrowserTakes(t) ==
    /\ fileChannel /\ toBrowser # <<>> /\ Head(toBrowser).t = t
    /\ toBrowser' = Tail(toBrowser)
    /\ UNCHANGED <<hostVars, fileChannel, fetchSeq>>

BrowserOffer ==
    /\ BrowserTakes("offer")
    /\ offer' = Head(toBrowser).list
    /\ offeredFiles' = (offer' # NoList)
    /\ UNCHANGED <<toHost, wanted, incoming, cancelled, lastId,
                   downloadFailed, progressShown, handed>>

(* The host echoes the number of the request.                              *)
Belongs_AnyRequest(m) == Wanting /\ ~cancelled
Belongs(m) == m.fetch = fetchSeq /\ Wanting /\ ~cancelled

(* A start of an earlier request than the latest is ignored; one larger    *)
(* than what is left of the offer is a violation of the protocol.          *)
BrowserStart ==
    /\ BrowserTakes("start")
    /\ LET m == Head(toBrowser)
       IN \/ /\ ~Belongs(m)
             /\ UNCHANGED <<toHost, wanted, incoming, cancelled, lastId, offeredFiles,
                            downloadFailed, progressShown>>
          \/ /\ Belongs(m)
             /\ lastId' = m.id
             /\ IF m.size > wanted.budget
                THEN AbortsDownload(m.id)
                ELSE /\ incoming' = [id |-> m.id, size |-> m.size, got |-> <<>>,
                                     fetch |-> m.fetch]
                     /\ progressShown' = TRUE
                     /\ UNCHANGED <<toHost, wanted, cancelled, offeredFiles, downloadFailed>>
    /\ UNCHANGED <<offer, handed>>

BrowserChunk ==
    /\ BrowserTakes("chunk")
    /\ IF incoming = NoFileIn \/ cancelled
       THEN UNCHANGED <<toHost, wanted, incoming, cancelled, offeredFiles,
                        downloadFailed, progressShown>>
       ELSE IF Len(incoming.got) = incoming.size
       THEN AbortsDownload(incoming.id)
       ELSE /\ incoming' = [incoming EXCEPT !.got = Append(@, Head(toBrowser).id)]
            /\ progressShown' = TRUE
            /\ UNCHANGED <<toHost, wanted, cancelled, offeredFiles, downloadFailed>>
    /\ UNCHANGED <<offer, lastId, handed>>

(* fileOver: the file is over, and with the last one the list.             *)
FileOver_OneMore(failed) ==
    IF wanted.done < wanted.total
    THEN /\ incoming' = NoFileIn
         /\ wanted' = [wanted EXCEPT !.done = @ + 1, !.budget = @ - incoming.size]
         /\ UNCHANGED <<offeredFiles, progressShown>>
    ELSE Finishes(failed)

FileOver(failed) ==
    IF wanted.done + 1 < wanted.total
    THEN /\ incoming' = NoFileIn
         /\ wanted' = [wanted EXCEPT !.done = @ + 1, !.budget = @ - incoming.size]
         /\ UNCHANGED <<offeredFiles, progressShown>>
    ELSE Finishes(failed)

(* onEnd and onHostAbort look at the id; a wrong amount of data is a       *)
(* violation of the protocol.                                              *)
BrowserEnd ==
    /\ BrowserTakes("end")
    /\ IF incoming.id # Head(toBrowser).id \/ cancelled
       THEN UNCHANGED <<toHost, wanted, incoming, cancelled, offeredFiles,
                        downloadFailed, progressShown, handed>>
       ELSE IF Len(incoming.got) # incoming.size
       THEN AbortsDownload(incoming.id) /\ UNCHANGED handed
       ELSE /\ FileOver(downloadFailed)
            /\ handed' = incoming
            /\ UNCHANGED <<toHost, cancelled, downloadFailed>>
    /\ UNCHANGED <<offer, lastId>>

BrowserAbort ==
    /\ BrowserTakes("abort")
    /\ IF incoming.id # Head(toBrowser).id \/ cancelled
       THEN UNCHANGED <<wanted, incoming, offeredFiles, downloadFailed, progressShown>>
       ELSE downloadFailed' = TRUE /\ FileOver(TRUE)
    /\ UNCHANGED <<toHost, offer, cancelled, lastId, handed>>
-----------------------------------------------------------------------------
(* The channel closes: the host's loop ends and aborts its task.           *)
ChannelCloses ==
    /\ fileChannel /\ fileChannel' = FALSE
    /\ toHost' = <<>> /\ toBrowser' = <<>>
    /\ sending' = NoSend /\ hostList' = NoList
    /\ offer' = NoList
    /\ downloadFailed' = (downloadFailed \/ incoming # NoFileIn)
    /\ Finishes(downloadFailed')
    /\ UNCHANGED <<nextList, nextFile, cancelled, fetchSeq, lastId, handed>>

SendStep == SendsStart \/ SendsChunk \/ SendsEnd \/ SendStops
HostHears == HostFetch \/ HostAbort
BrowserHears == \/ BrowserOffer \/ BrowserStart \/ BrowserChunk
                \/ BrowserEnd \/ BrowserAbort

DlNext ==
    \/ \E sizes \in OfferSizes : Offers(sizes)
    \/ Clears \/ Fetch \/ Cancel \/ ChannelCloses
    \/ HostHears \/ SendStep \/ BrowserHears

(* Messages arrive and the task goes on; copying, fetching, cancelling and *)
(* closing are up to the users.                                            *)
DlFairness == WF_dlVars(HostHears) /\ WF_dlVars(SendStep) /\ WF_dlVars(BrowserHears)

DlSpec == DlInit /\ [][DlNext]_dlVars /\ DlFairness
-----------------------------------------------------------------------------
(* Properties *)

(* A file handed to the user holds every chunk of one transfer, in order,  *)
(* and no other, though chunks carry no id, and the user may cancel and    *)
(* fetch again while files of the cancelled download are on their way.     *)
(* When it is handed over its download is the latest (file.rs:33-38).      *)
HandedIsWhole ==
    [][handed' # handed =>
         /\ handed'.fetch = fetchSeq
         /\ Len(handed'.got) = handed'.size
         /\ \A i \in DOMAIN handed'.got : handed'.got[i] = handed'.id]_dlVars

(* A download that the host began for the latest request comes to an end   *)
(* in the browser, whatever files vanish, grow or cannot be read, and      *)
(* whatever the host's user copies meanwhile (files/mod.rs:1169).          *)
FetchIsServed ==
    (Wanting /\ sending # NoSend /\ sending.fetch = fetchSeq) ~> ~Wanting

(* The protocol's rule: the client asks with `fetch`, the host then sends  *)
(* every file (file.rs:25).  A fetch that crosses a new offer is ignored:  *)
(* the browser waits on, the button hidden (files/mod.rs:1193).            *)
FetchIsAnswered == Wanting ~> ~Wanting
=============================================================================
