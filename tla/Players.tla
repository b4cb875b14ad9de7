------------------------------- MODULE Players -------------------------------
(***************************************************************************)
(* What the window shows over a chat: the picture viewer with its          *)
(* slideshow, the video viewer, and the composer's voice recorder.         *)
(*                                                                         *)
(* The viewers are opened by the event loop; what they show is read and    *)
(* downloaded by workers and comes back as a posted closure, when the user *)
(* may have gone on, closed the viewer or opened another.  "here" is the   *)
(* chat that is open, "none" if there is none.                             *)
(***************************************************************************)
EXTENDS EventLoop, Bags

CONSTANTS
  Pictures,  \* per chat: its pictures in message order
  Videos,
  MaxSecs    \* the maximum clip length (120)

Gallery == UNION {ToSet(Pictures[c]) : c \in DOMAIN Pictures}

ASSUME PlayersConstantsOK ==
  /\ \A c \in DOMAIN Pictures : Pictures[c] \in Seq(Gallery) /\ IsInjective(Pictures[c])
  /\ "none" \notin Gallery \cup Videos /\ MaxSecs \in Nat \ {0}

VARIABLES
  viewer,   \* image_viewer_open, _loading and _image
  slides,   \* VIEWER_SLIDESHOW: the pictures, and the position
  decoded,  \* the pictures in the cache
  reads,    \* slideshows being read
  fetches,  \* pictures being downloaded for the viewer
  film,     \* video_viewer_open, _loading, the target and the player
  films,    \* videos being loaded
  mic,      \* there is a recorder; composer_recording; its seconds
  tickers,  \* the tickers' seconds
  wanted,   \* history: the picture the user asked for last
  crossed,  \* history: a slideshow came for another request than the last
  missed,   \* history: pictures whose download failed, or was not begun
  late,     \* history: a player was stored for a viewer that had gone
  hasty     \* history: a recording was replaced or stopped before it was shown

looking == <<viewer, slides, decoded, reads, fetches, wanted, crossed, missed>>
filming == <<film, films, late>>
talking == <<mic, tickers, hasty>>
players == <<looking, filming, talking>>

Picked == IF slides.pos \in DOMAIN slides.items THEN slides.items[slides.pos] ELSE "none"
NoSlides == [items |-> <<>>, pos |-> 1]
NoFilm == [open |-> FALSE, busy |-> FALSE, target |-> "none", player |-> "none"]

PlayersIdle ==
  /\ viewer = [open |-> FALSE, busy |-> FALSE, shown |-> "none"] /\ slides = NoSlides
  /\ decoded = {} /\ reads = EmptyBag /\ fetches = EmptyBag
  /\ film = NoFilm /\ films = EmptyBag
  /\ mic = [on |-> FALSE, shown |-> FALSE, secs |-> 0] /\ tickers = EmptyBag
  /\ wanted = "none" /\ crossed = FALSE /\ missed = {} /\ late = FALSE /\ hasty = FALSE
-----------------------------------------------------------------------------
(* The picture viewer.                                                     *)

(* load_viewer_image: at once from the cache, else a download, with the    *)
(* open chat's keys; the spinner turns even if no chat is open, and there  *)
(* is nothing to end it then.                                              *)
Load(p, pos, here) ==
  \/ /\ p \in decoded
     /\ viewer' = [viewer EXCEPT !.shown = p, !.busy = FALSE]
     /\ UNCHANGED <<fetches, missed>>
  \/ /\ p \notin decoded /\ viewer' = [viewer EXCEPT !.busy = TRUE]
     /\ IF here = "none"
          THEN missed' = missed \cup {p} /\ UNCHANGED fetches
          ELSE /\ fetches' = fetches (+) SetToBag({[pic |-> p, pos |-> pos, chat |-> here]})
               /\ UNCHANGED missed

(* on_album_cell_clicked; on_attachment_clicked, which opens the viewer    *)
(* only for a picture that is decoded.                                     *)
LookAt(p, here) ==
  /\ here # "none" /\ p \in ToSet(Pictures[here]) /\ ~viewer.open /\ ~film.open
  /\ Spend("look")
  /\ viewer' = IF p \in decoded THEN [open |-> TRUE, busy |-> FALSE, shown |-> p]
               ELSE [viewer EXCEPT !.open = TRUE, !.busy = TRUE]
  /\ reads' = reads (+) SetToBag({[pic |-> p, chat |-> here]})
  /\ wanted' = p /\ crossed' = FALSE
  /\ UNCHANGED <<uiq, slides, decoded, fetches, missed, filming, talking>>

(* build_viewer_slideshow: read on the runtime, stored on the event loop,  *)
(* whatever the viewer shows by then.                                      *)
SlidesRead(r) ==
  /\ BagIn(r, reads) /\ reads' = reads (-) SetToBag({r})
  /\ Post([kind |-> "slides", pic |-> r.pic, chat |-> r.chat])
  /\ UNCHANGED <<plan, viewer, slides, decoded, fetches, wanted, crossed, missed,
                 filming, talking>>
RunSlides(here) ==
  /\ Turn("slides") /\ Take(<<>>)
  /\ LET items == Pictures[Head(uiq).chat]
         pos == CHOOSE i \in DOMAIN items : items[i] = Head(uiq).pic
     IN  slides' = [items |-> items, pos |-> pos] /\ Load(items[pos], pos, here)
  /\ crossed' = (crossed \/ Head(uiq).pic # wanted)
  /\ UNCHANGED <<plan, decoded, reads, wanted, filming, talking>>

(* on_image_viewer_prev, on_image_viewer_next: no-ops at the ends.         *)
Leaf(by, here) ==
  /\ viewer.open /\ slides.items # <<>> /\ Spend("leaf")
  /\ LET pos == IF slides.pos + by \in DOMAIN slides.items THEN slides.pos + by
                ELSE slides.pos
     IN  /\ slides' = [slides EXCEPT !.pos = pos]
         /\ Load(slides.items[pos], pos, here)
         /\ wanted' = slides.items[pos]
  /\ UNCHANGED <<uiq, decoded, reads, crossed, filming, talking>>

DismissPicture ==
  /\ viewer.open /\ viewer' = [viewer EXCEPT !.open = FALSE, !.busy = FALSE]
  /\ slides' = NoSlides /\ wanted' = "none"
  /\ UNCHANGED <<loop, decoded, reads, fetches, crossed, missed, filming, talking>>

(* The download ends; another chat's keys do not decrypt it.               *)
Fetched(f, ok) ==
  /\ BagIn(f, fetches) /\ fetches' = fetches (-) SetToBag({f})
  /\ ok => f.pic \in ToSet(Pictures[f.chat])
  /\ decoded' = IF ok THEN decoded \cup {f.pic} ELSE decoded
  /\ missed' = IF ok THEN missed ELSE missed \cup {f.pic}
  /\ Post([kind |-> "picture", pic |-> f.pic, pos |-> f.pos, ok |-> ok])
  /\ UNCHANGED <<plan, viewer, slides, reads, wanted, crossed, filming, talking>>

(* "Drop the result if the user navigated on" (and a mutant: shown as long *)
(* as the viewer is open, whatever it is parked on).                       *)
AnyPicture(p, pos)   == viewer.open
StillCurrent(p, pos) == slides.pos = pos /\ Picked = p
RunPicture ==
  /\ Turn("picture") /\ Take(<<>>)
  /\ LET h == Head(uiq) IN
       viewer' = IF ~StillCurrent(h.pic, h.pos) THEN viewer
                 ELSE [viewer EXCEPT !.busy = FALSE, !.shown = IF h.ok THEN h.pic ELSE @]
  /\ UNCHANGED <<plan, slides, decoded, reads, fetches, wanted, crossed, missed,
                 filming, talking>>
-----------------------------------------------------------------------------
(* The video viewer.                                                       *)

(* A video is tapped: stop_current_player, the viewer opens, the load      *)
(* begins.                                                                 *)
Watch(v, here) ==
  /\ here # "none" /\ ~film.open /\ ~viewer.open /\ Spend("watch")
  /\ film' = [open |-> TRUE, busy |-> TRUE, target |-> v, player |-> "none"]
  /\ films' = films (+) SetToBag({v})
  /\ UNCHANGED <<uiq, late, looking, talking>>

(* spawn_video_player, on the runtime: the player is stored, or it or the  *)
(* download fails and a closure clears the spinner.                        *)
FilmLoaded(v, ok) ==
  /\ BagIn(v, films) /\ films' = films (-) SetToBag({v})
  /\ IF ok THEN /\ film' = [film EXCEPT !.player = v]
                /\ late' = (late \/ ~film.open \/ film.target # v)
                /\ Post([kind |-> "frame"])
           ELSE Post([kind |-> "nofilm"]) /\ UNCHANGED <<film, late>>
  /\ UNCHANGED <<plan, looking, talking>>
RunFilm ==
  /\ Turn("frame") \/ Turn("nofilm")
  /\ Take(<<>>) /\ film' = [film EXCEPT !.busy = FALSE]
  /\ UNCHANGED <<plan, films, late, looking, talking>>

(* on_dismiss_video_viewer: stop_current_player; the target is forgotten.  *)
DismissFilm ==
  /\ film.open /\ film' = NoFilm
  /\ late' = (late /\ film.player = "none")
  /\ UNCHANGED <<loop, films, looking, talking>>
-----------------------------------------------------------------------------
(* The recorder.                                                           *)

(* on_record_clicked: the button is there until the posted closure hides   *)
(* it.  A ticker is started; one of a recording stopped less than a second *)
(* ago is still alive.                                                     *)
Record ==
  /\ ~mic.shown /\ Spend("record")
  /\ hasty' = (hasty \/ mic.on)
  /\ mic' = [mic EXCEPT !.on = TRUE] /\ tickers' = tickers (+) SetToBag({0})
  /\ Post([kind |-> "recording", shown |-> TRUE])
  /\ UNCHANGED <<looking, filming>>

(* The ticker's thread, a second later.                                    *)
TickerWakes(n) ==
  /\ BagIn(n, tickers)
  /\ IF ~mic.on
       THEN tickers' = tickers (-) SetToBag({n}) /\ UNCHANGED uiq
       ELSE /\ tickers' = (tickers (-) SetToBag({n}))
                          (+) (IF n + 1 < MaxSecs THEN SetToBag({n + 1}) ELSE EmptyBag)
            /\ uiq' = uiq \o <<[kind |-> "secs", secs |-> n + 1]>>
                          \o (IF n + 1 >= MaxSecs THEN <<[kind |-> "stop"]>> ELSE <<>>)
  /\ UNCHANGED <<plan, mic, hasty, looking, filming>>
RunSecs ==
  /\ Turn("secs") /\ Take(<<>>) /\ mic' = [mic EXCEPT !.secs = Head(uiq).secs]
  /\ UNCHANGED <<plan, tickers, hasty, looking, filming>>

(* on_stop_recording: nothing without a recorder.  The clip goes to the    *)
(* chat that is open now, by the durable queue.                            *)
Stopped == IF mic.on THEN [mic EXCEPT !.on = FALSE, !.shown = FALSE] ELSE mic
StopRecording ==
  /\ mic.shown /\ mic' = Stopped
  /\ UNCHANGED <<loop, tickers, hasty, looking, filming>>
RunStop ==
  /\ Turn("stop") /\ Take(<<>>) /\ mic' = Stopped
  /\ hasty' = (hasty \/ (mic.on /\ ~mic.shown))
  /\ UNCHANGED <<plan, tickers, looking, filming>>

(* on_cancel_recording.                                                    *)
CancelRecording ==
  /\ mic.shown /\ Spend("cancel") /\ mic' = [mic EXCEPT !.on = FALSE]
  /\ Post([kind |-> "recording", shown |-> FALSE])
  /\ UNCHANGED <<tickers, hasty, looking, filming>>
RunRecording ==
  /\ Turn("recording") /\ Take(<<>>)
  /\ LET shown == Head(uiq).shown IN
       mic' = [mic EXCEPT !.shown = shown, !.secs = IF shown THEN 0 ELSE @]
  /\ UNCHANGED <<plan, tickers, hasty, looking, filming>>
-----------------------------------------------------------------------------
PlayersNext(here) ==
  \/ \E p \in Gallery : LookAt(p, here)
  \/ \E r \in BagToSet(reads) : SlidesRead(r)
  \/ RunSlides(here)
  \/ \E by \in {-1, 1} : Leaf(by, here)
  \/ \E f \in BagToSet(fetches), ok \in BOOLEAN : Fetched(f, ok)
  \/ RunPicture \/ DismissPicture
  \/ \E v \in Videos : Watch(v, here)
  \/ \E v \in BagToSet(films), ok \in BOOLEAN : FilmLoaded(v, ok)
  \/ RunFilm \/ DismissFilm
  \/ Record \/ StopRecording \/ CancelRecording
  \/ \E n \in BagToSet(tickers) : TickerWakes(n)
  \/ RunSecs \/ RunStop \/ RunRecording
-----------------------------------------------------------------------------
Settled == uiq = <<>> /\ reads = EmptyBag /\ fetches = EmptyBag /\ films = EmptyBag

(* When nothing is under way, the open viewer shows the picture the user   *)
(* asked for last, the one the counter counts, unless its download failed  *)
(* or was not begun, as no chat was open (missed), or the slideshow of an  *)
(* earlier tap came after it (crossed); no spinner is left.                *)
PictureBelongs ==
  viewer.open /\ ~crossed /\ wanted \notin missed =>
    viewer.shown = wanted /\ Picked = wanted /\ ~viewer.busy

(* A video plays only in an open viewer that was opened for it, unless it  *)
(* was still loading when its viewer was closed (late).                    *)
VideoBelongs ==
  /\ film.player # "none" /\ ~late => film.open /\ film.target = film.player
  /\ film.open => ~film.busy

(* The composer shows a recording exactly while there is a recorder,       *)
(* unless one was replaced by a second click, or stopped by the ticker of  *)
(* an earlier one, before the closure that shows it ran (hasty).           *)
RecordingShown == ~hasty => mic.shown = mic.on

PlayersBelong == Settled => PictureBelongs /\ VideoBelongs /\ RecordingShown
=============================================================================
