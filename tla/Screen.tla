------------------------------- MODULE Screen -------------------------------
(***************************************************************************)
(* From the framebuffer of the VNC client to the screens of the clients:   *)
(* the frame events of the display (display/vnc.ts), their batching        *)
(* (Rects), the frame and resize handlers, the full screens sent to a      *)
(* client that connects or becomes staff, and the hiding of the screen     *)
(* (CollabVMServer.ts).                                                    *)
(*                                                                         *)
(* A JPEG is encoded by a pool of threads out of the live framebuffer      *)
(* (JPEGEncoder.ts, cvm-rs jpeg_js.rs): a job reads each pixel at some     *)
(* moment between its request and its end, and jobs end in any order.      *)
(* Each pixel carries the number of the update that drew it last, sizes    *)
(* are numbered too, and a picture is what it shows of each pixel.         *)
(*                                                                         *)
(* The VM has a display throughout.  The VncClient is external: it writes  *)
(* the rectangles of an update as they come, says so, and says when the    *)
(* update is complete; after a change of size it is sent a whole screen.   *)
(***************************************************************************)
EXTENDS Rects, FiniteSets

CONSTANTS
    Clients,
    Admins,         \* the clients that know a password of staff
    Size,           \* width and height, in pixels
    Drawn,          \* the rectangles the VM may draw
    MaxUpdates,     \* bound: rectangles drawn
    MaxResizes,     \* bound: changes of size
    MaxHides,       \* bound: times the screen is hidden, and shown
    MaxConnects     \* bound: times a client connects to the node or asks to view it

ASSUME AdminsAssumption == Admins \subseteq Clients
ASSUME SizeAssumption == Size \in [width : Nat \ {0}, height : Nat \ {0}]
ASSUME DrawnAssumption == \A r \in Drawn : r \in Rectangles /\ Within(r, Whole(Size))
ASSUME BoundsAssumption ==
    MaxUpdates \in Nat /\ MaxResizes \in Nat /\ MaxHides \in Nat /\ MaxConnects \in Nat

Screen == Pixels(Whole(Size))

VARIABLES
    fb,         \* the framebuffer: the update that drew each pixel
    updates,    \* updates drawn so far
    rects,      \* vnc.ts: the rectangles of the update that is coming in
    size,       \* the number of the current size
    jobs,       \* encodings under way, with what follows them
    joined,     \* clients with connectedToNode
    connects,   \* times each client has connected
    staff,      \* clients whose rank is not Unregistered
    hidden,     \* screenHidden
    hides,      \* times the screen was hidden
    shows,      \* times the screen was shown
    view,       \* what each client sees
    overtaken,  \* history: clients sent something older than what they had
    leaked,     \* history: clients sent a picture asked for before the hiding
    blank       \* history: clients told that they cannot connect, but marked as
                \* joined, with no full screen asked for since

vars == <<fb, updates, rects, size, jobs, joined, connects, staff, hidden, hides,
          shows, view, overtaken, leaked, blank>>
displayVars == <<fb, updates, rects, size>>
clientVars == <<joined, connects, staff, blank>>
hideVars == <<hidden, hides, shows>>
viewVars == <<view, overtaken, leaked>>

Veil == -1      \* the image of the hidden screen, and its size
Live == <<>>    \* a job whose buffer is still the framebuffer

Pictures == [Screen -> -1 .. MaxUpdates + MaxResizes]
Views == [size : -1 .. MaxResizes, pic : Pictures]

\* kind: what follows the encoding; n: which showing it belongs to.
Jobs ==
    [kind : {"rect", "full", "show"}, to : SUBSET Clients, n : 0 .. MaxHides,
     box : SUBSET Screen, size : 0 .. MaxResizes, open : BOOLEAN,
     from : [Screen -> 0 .. MaxUpdates + MaxResizes],
     till : {Live} \cup [Screen -> 0 .. MaxUpdates + MaxResizes]]

TypeOK ==
    /\ fb \in [Screen -> 0 .. MaxUpdates + MaxResizes]
    /\ updates \in 0 .. MaxUpdates + MaxResizes
    /\ \A i \in DOMAIN rects : Pixels(rects[i]) \subseteq Screen
    /\ size \in 0 .. MaxResizes
    /\ \A j \in jobs : j \in Jobs
    /\ joined \in SUBSET Clients /\ staff \in SUBSET Clients
    /\ hidden \in BOOLEAN
    /\ hides \in 0 .. MaxHides /\ shows \in 0 .. MaxHides
    /\ \A c \in Clients : view[c] \in Views
    /\ overtaken \in SUBSET Clients /\ leaked \in SUBSET Clients
    /\ blank \in SUBSET Clients /\ connects \in [Clients -> 0 .. MaxConnects]

Nothing == [size |-> -1, pic |-> [p \in Screen |-> Veil]]

Init ==
    /\ fb = [p \in Screen |-> 0]
    /\ updates = 0
    /\ rects = <<>>
    /\ size = 0
    /\ jobs = {}
    /\ joined = {} /\ staff = {} /\ blank = {}
    /\ connects = [c \in Clients |-> 0]
    /\ hidden = FALSE /\ hides = 0 /\ shows = 0
    /\ view = [c \in Clients |-> Nothing]
    /\ overtaken = {}
    /\ leaked = {}

-----------------------------------------------------------------------------
(***************************************************************************)
(* Pictures and jobs.                                                      *)
(***************************************************************************)

\* MakeRectData of some pixels, requested now.
Job(kind, to, n, box) ==
    [kind |-> kind, to |-> to, n |-> n, box |-> box, size |-> size,
     open |-> ~hidden, from |-> fb, till |-> Live]

\* SendFullScreenWithSize up to its await.
FullScreen(c, n) == Job("full", {c}, n, Screen)

\* The pictures a job may have taken: it reads each pixel when it likes.
Encoded(j) ==
    LET till == IF j.till = Live THEN fb ELSE j.till
    IN  {pic \in [j.box -> 0 .. updates] :
           \A p \in j.box : j.from[p] <= pic[p] /\ pic[p] <= till[p]}

\* Drawing a picture over what a client sees.
Over(old, pic) == [p \in Screen |-> IF p \in DOMAIN pic THEN pic[p] ELSE old[p]]

\* A picture and, if it is not Veil, a size are sent to some clients.
Sent(to, pic, s) ==
    /\ view' = [c \in Clients |-> IF c \notin to THEN view[c] ELSE
                  [size |-> IF s = Veil THEN view[c].size ELSE s,
                   pic |-> Over(view[c].pic, pic)]]
    /\ overtaken' = overtaken \cup
         {c \in to : \/ s # Veil /\ s < view[c].size
                     \/ \E p \in DOMAIN pic : pic[p] < view[c].pic[p]}

\* The hidden screen is sent: whatever a client has seen is covered.
Veiled(to) ==
    /\ view' = [c \in Clients |-> IF c \in to THEN Nothing ELSE view[c]]
    /\ overtaken' = overtaken \ to

\* Fault: a frame is sent to all, as if its encoding could not outlast a hiding.
MaySeeAll(c) == c \in joined

\* The filter of OnDisplayFrame and OnDisplayResized.
MaySee(c) == c \in joined /\ (hidden => c \in staff)

-----------------------------------------------------------------------------
(***************************************************************************)
(* The display.                                                            *)
(***************************************************************************)

\* VncClient: a rectangle of an update is written; 'rectUpdateProcessed'.
RectUpdateProcessed(r) ==
    /\ updates < MaxUpdates + size
    /\ updates' = updates + 1
    /\ fb' = [p \in Screen |-> IF p \in Pixels(r) THEN updates' ELSE fb[p]]
    /\ rects' = Append(rects, r)
    /\ UNCHANGED <<size, jobs, clientVars, hideVars, viewVars>>

\* 'frameUpdated': the batch goes to OnDisplayRectangle and, with the 'frame'
\* that follows at once, to OnDisplayFrame up to its await.
FrameUpdated ==
    /\ rects # <<>>
    /\ jobs' = jobs \cup {Job("rect", {}, 0, Pixels(BatchRects(Size, rects)))}
    /\ rects' = <<>>
    /\ UNCHANGED <<fb, updates, size, clientVars, hideVars, viewVars>>

\* 'desktopSizeChanged', and OnDisplayResized.  The framebuffer is a new one;
\* jobs under way keep the old one.
DesktopSizeChanged ==
    /\ size < MaxResizes
    /\ size' = size + 1
    /\ updates' = updates + 1
    /\ fb' = [p \in Screen |-> updates']
    /\ rects' = <<Whole(Size)>>
    /\ jobs' = {[j EXCEPT !.till = IF @ = Live THEN fb ELSE @] : j \in jobs}
    /\ Sent({c \in Clients : MaySee(c)}, <<>>, size')
    /\ UNCHANGED <<clientVars, hideVars, leaked>>

\* OnDisplayFrame after its await, for one rectangle.
FrameEncoded(j) ==
    /\ j.kind = "rect"
    /\ jobs' = jobs \ {j}
    /\ \E pic \in Encoded(j) :
         Sent({c \in Clients : MaySee(c)}, pic, Veil)
    /\ UNCHANGED <<displayVars, clientVars, hideVars, leaked>>

-----------------------------------------------------------------------------
(***************************************************************************)
(* Clients.                                                                *)
(***************************************************************************)

\* connectViewShared: the client hears of frames from here on, and its picture is
\* the hidden screen, or comes later.  It may connect again.
Connect(c) ==
    /\ connects[c] < MaxConnects
    /\ connects' = [connects EXCEPT ![c] = @ + 1]
    /\ joined' = joined \cup {c}
    /\ blank' = blank \ {c}
    /\ IF hidden
       THEN Veiled({c}) /\ UNCHANGED jobs
       ELSE jobs' = jobs \cup {FullScreen(c, 0)} /\ UNCHANGED <<view, overtaken>>
    /\ UNCHANGED <<displayVars, staff, hideVars, leaked>>

\* connectViewShared with a view mode that does not exist: the client is told that
\* it cannot connect and is sent no picture, but hears of frames all the same.
ConnectRefused(c) ==
    /\ joined' = joined \cup {c}
    /\ blank' = blank \cup ({c} \ joined)
    /\ UNCHANGED <<displayVars, jobs, connects, staff, hideVars, viewVars>>

\* onAdminLogin with a password of staff, up to its await.
OnAdminLogin(c) ==
    /\ c \in Admins \ staff
    /\ staff' = staff \cup {c}
    /\ jobs' = IF hidden THEN jobs \cup {FullScreen(c, 0)} ELSE jobs
    /\ blank' = IF hidden THEN blank \ {c} ELSE blank
    /\ UNCHANGED <<displayVars, joined, connects, hideVars, viewVars>>

\* SendFullScreenWithSize after its await: nothing is checked any more.
FullScreenEncoded(j) ==
    /\ j.kind = "full"
    /\ jobs' = jobs \ {j}
    /\ \E pic \in Encoded(j) : Sent(j.to, pic, j.size)
    /\ leaked' = IF hidden /\ j.open THEN leaked \cup (j.to \ staff) ELSE leaked
    /\ UNCHANGED <<displayVars, clientVars, hideVars>>

\* onAdminHideScreen, show == false.
HideScreen ==
    /\ hides < MaxHides
    /\ hidden' = TRUE /\ hides' = hides + 1
    /\ Veiled(Clients \ staff)
    /\ leaked' = {}
    /\ UNCHANGED <<displayVars, jobs, clientVars, shows>>

\* onAdminHideScreen, show == true, up to its await.
ShowScreen ==
    /\ shows < MaxHides
    /\ hidden' = FALSE /\ shows' = shows + 1
    /\ jobs' = jobs \cup {[Job("show", {}, shows', Screen) EXCEPT !.open = TRUE]}
    /\ UNCHANGED <<displayVars, clientVars, hides, viewVars>>

\* onAdminHideScreen after its await: a full screen is begun for every client.
\* The picture it waited for is not used.
ShowScreenEncoded(j) ==
    /\ j.kind = "show"
    /\ jobs' = (jobs \ {j}) \cup
               {[FullScreen(c, j.n) EXCEPT !.open = j.open] : c \in Clients}
    /\ blank' = {}
    /\ UNCHANGED <<displayVars, joined, connects, staff, hideVars, viewVars>>

Next ==
    \/ \E r \in Drawn : RectUpdateProcessed(r)
    \/ FrameUpdated \/ DesktopSizeChanged
    \/ \E c \in Clients : Connect(c) \/ ConnectRefused(c) \/ OnAdminLogin(c)
    \/ HideScreen \/ ShowScreen
    \/ \E j \in jobs : FrameEncoded(j) \/ FullScreenEncoded(j) \/ ShowScreenEncoded(j)

Spec == Init /\ [][Next]_vars

-----------------------------------------------------------------------------
(***************************************************************************)
(* Properties.                                                             *)
(***************************************************************************)

AtRest == jobs = {} /\ rects = <<>>

Current(v) == v.pic = fb /\ v.size = size

\* When nothing is being drawn or encoded, every client that may see the
\* screen sees the present state of each pixel in the present size, whenever
\* and however often it connected and however hiding and showing fell in
\* between: unless something older was sent to it after something newer, or it
\* was told that it cannot connect and is sent frames only.
ViewersCurrent ==
    AtRest /\ ~hidden => \A c \in joined \ (overtaken \cup blank) : Current(view[c])

\* While the screen is hidden, a client that is not staff sees nothing of it,
\* unless a full screen asked for before the hiding was sent after it.
HiddenUnlessInFlight ==
    hidden => \A c \in Clients \ (staff \cup leaked) : view[c] = Nothing
=============================================================================
