--------------------------- MODULE VideoSettings ---------------------------
(***************************************************************************)
(* DisplaySettings, video: queries and settings of the video ports, and    *)
(* the three caches they keep (resolution, HDMI connection, HDR of the     *)
(* set-top), which events of the device-settings library invalidate.  The  *)
(* calls run one at a time (locked API); the library's events and the      *)
(* requests of SystemMode come beside them, so that a value may be read    *)
(* before and stored after one.  The library is external: it holds the     *)
(* state of the ports, any call of it may throw, it changes a resolution   *)
(* for whoever asks, and its events arrive after some time.                *)
(***************************************************************************)
EXTENDS Integers

CONSTANTS MaxCalls

Default == "HDMI0"                         \* getDefaultVideoPortName
VideoPorts == {Default, "SCART0"}
Resolutions == {"720p", "1080i"}
Standards == {"SDR", "HDR10", "HLG"}
Lanes == {"call", "event", "mode"}         \* the API lock, the library's thread, SystemMode

VARIABLES
  resolution, \* of each port (external)
  connected,  \* is a display on each port (external)
  change,     \* of the resolution: none, asked, pre (its first event has come), early
              \* (changed before that event), done
  plugged,    \* a hot plug whose event is still to come
  resCache,   \* currentResolutionCache, isResCacheUpdated
  conCache,   \* isHdmiDisplayConnected, isDisplayConnectedCacheUpdated
  hdrCache,   \* stbHDRcapabilitiesCache, isStbHDRcapabilitiesCache
  reading,    \* getCurrentResolution between its read and its store
  look,       \* isDisplayConnected between its read and its store, in each lane
  device,     \* zoom, colour depth, forced HDR mode and ALLM that are set
  hotplug,    \* previousStatus and firstTime of connectedVideoDisplaysUpdated
  answer,     \* of the last call
  told,       \* the last event
  calls

vars == <<resolution, connected, change, plugged, resCache, conCache, hdrCache, reading, look,
          device, hotplug, answer, told, calls>>

(* A cache; its field late is history: it was filled with the value of     *)
(* another port, or with one that was overtaken by a change.               *)
Cold(cache) == [cache EXCEPT !.updated = FALSE, !.late = FALSE]
Warm(v, late) == [value |-> v, updated |-> TRUE, late |-> late]
Empty(v) == [value |-> v, updated |-> FALSE, late |-> FALSE]

(* What was read of a port, and whether that has changed since; a walk     *)
(* goes on to the next port when this one has no display.                  *)
No == [port |-> "none"]
Read(p, v, walk) == [port |-> p, value |-> v, walk |-> walk, overtaken |-> FALSE]
Overtake(r) == IF r.port = Default THEN [r EXCEPT !.overtaken = TRUE] ELSE r
Late(r) == r.port # Default \/ r.overtaken

Init == /\ resolution = [p \in VideoPorts |-> "720p"]
        /\ connected \in [VideoPorts -> BOOLEAN]
        /\ change = "none" /\ plugged = FALSE
        /\ resCache = Empty("720p") /\ conCache = Empty(FALSE) /\ hdrCache = Empty("none")
        /\ reading = No /\ look = [l \in Lanes |-> No]
        /\ device = [zoom |-> "None", depth |-> "Auto", hdr |-> "NONE", allm |-> FALSE]
        /\ hotplug = [previous |-> TRUE, first |-> TRUE]
        /\ answer = "none" /\ told = "none" /\ calls = 0

Call == reading = No /\ look["call"] = No /\ calls < MaxCalls /\ calls' = calls + 1
Ports == UNCHANGED <<resolution, connected, change, plugged>>
Caches == UNCHANGED <<resCache, conCache, hdrCache, look>>

(* A query that leaves everything as it is; the library answers or throws. *)
Query(answers) == /\ Call /\ Ports /\ Caches /\ answer' \in answers
                  /\ UNCHANGED <<reading, device, hotplug, told>>

-----------------------------------------------------------------------------
(* isDisplayConnected: only the HDMI port is looked up in the cache, but   *)
(* the cache is filled by every port.  Nothing locks it: another lane may  *)
(* come between the read of the port and the store.                        *)
Connected(p) == IF conCache.updated /\ p = Default THEN conCache.value ELSE connected[p]

isDisplayConnected(l, p) ==
  IF conCache.updated /\ p = Default THEN UNCHANGED look
  ELSE look' = [look EXCEPT ![l] = Read(p, connected[p], FALSE)]

(* getConnectedVideoDisplaysHelper walks the ports, HDMI first, up to the  *)
(* first HDMI port with a display; an exception ends the walk.             *)
ConnectedDisplays == IF Connected(Default) THEN {Default}
                     ELSE {p \in VideoPorts \ {Default} : connected[p]}

Other == "SCART0"                          \* the port after the HDMI one

getConnectedVideoDisplaysHelper(l, found) ==
  \/ /\ found = ConnectedDisplays
     /\ IF ~conCache.updated
        THEN look' = [look EXCEPT ![l] = Read(Default, connected[Default], TRUE)]
        ELSE IF conCache.value THEN UNCHANGED look ELSE isDisplayConnected(l, Other)
  \/ found = {} /\ UNCHANGED look

(* The cache takes what was read, then the walk goes on. *)
StoreConnection(l) ==
  /\ look[l] # No
  /\ conCache' = Warm(look[l].value, Late(look[l]))
  /\ look' = [look EXCEPT ![l] = IF @.walk /\ ~@.value THEN Read(Other, connected[Other], FALSE) ELSE No]
  /\ UNCHANGED <<resolution, connected, change, plugged, resCache, hdrCache, reading, device,
                 hotplug, answer, told, calls>>

getConnectedVideoDisplays ==
  /\ Call /\ Ports
  /\ \E found \in SUBSET VideoPorts :
       /\ getConnectedVideoDisplaysHelper("call", found)
       /\ answer' = IF found = {} THEN "none" ELSE "list"
  /\ UNCHANGED <<resCache, conCache, hdrCache, reading, device, hotplug, told>>

(* What the queries below share: they ask the port only if it is connected. *)
IfConnected(p, yes, no) ==
  /\ Call /\ Ports
  /\ \/ isDisplayConnected("call", p) /\ answer' \in (IF Connected(p) THEN yes ELSE no) \cup {"failed"}
     \/ UNCHANGED look /\ answer' = "failed"
  /\ UNCHANGED <<resCache, conCache, hdrCache, reading, device, hotplug, told>>

readEDID == IfConnected(Default, {"edid"}, {"empty"})
getActiveInput(p) == IfConnected(p, {"yes", "no"}, {"no"})
getTvHDRSupport == IfConnected(Default, {"list", "none"}, {"none"})
getTVHDRCapabilities == IfConnected(Default, {"list", "none"}, {})
getCurrentOutputSettings == IfConnected(Default, {"settings"}, {})
isConnectedDeviceRepeater == IfConnected(Default, {"yes", "no"}, {})
getDefaultResolution == IfConnected(Default, Resolutions, {})

readHostEDID == Query({"edid", "unknown"})
getSupportedResolutions == Query({"list", "empty"})
getSupportedVideoDisplays == Query({"list", "empty"})
getSupportedTvResolutions == Query({"list", "none", "empty"})
getSupportedSettopResolutions == Query({"list", "empty", "failed"})
getColorDepthCapabilities == Query({"list", "none", "empty"})

-----------------------------------------------------------------------------
(* getCurrentResolution: a warm cache answers for any port.  A cold one is *)
(* filled in two steps, between which the events may come.                 *)
getCurrentResolution(p) ==
  /\ Call /\ Ports /\ Caches /\ UNCHANGED <<device, hotplug, told>>
  /\ \/ /\ resCache.updated
        /\ answer' = resCache.value
        /\ UNCHANGED reading
     \/ /\ ~resCache.updated
        /\ reading' = Read(p, resolution[p], FALSE)
        /\ UNCHANGED answer
     \/ /\ ~resCache.updated
        /\ answer' = "failed"
        /\ UNCHANGED reading

(* A value stored between the first event and the change is overtaken too. *)
StoreResolution ==
  /\ reading # No
  /\ resCache' = Warm(reading.value, Late(reading) \/ change = "pre")
  /\ answer' = reading.value /\ reading' = No
  /\ UNCHANGED <<resolution, connected, change, plugged, conCache, hdrCache, look, device, hotplug,
                 told, calls>>

(* setCurrentResolution asks the library, which may refuse; another        *)
(* process, or the library itself after a hot plug, may ask as well.       *)
setCurrentResolution(r) ==
  /\ Call /\ Caches /\ UNCHANGED <<resolution, connected, plugged, reading, device, hotplug, told>>
  /\ \/ change = "none" /\ change' = "asked" /\ answer' = r
     \/ change # "none" /\ UNCHANGED change /\ answer' = r   \* taken up later, as OthersAsk
     \/ UNCHANGED change /\ answer' = "failed"

OthersAsk ==
  /\ calls < MaxCalls /\ calls' = calls + 1
  /\ change = "none" /\ change' = "asked"
  /\ Caches /\ UNCHANGED <<resolution, connected, plugged, reading, device, hotplug, answer, told>>

resolutionPreChange == told' = "resolutionPreChange"

FirstEvent == /\ look["event"] = No /\ change \in {"asked", "early"}
              /\ change' = IF change = "asked" THEN "pre" ELSE "done"

(* as OnResolutionPreChange below, but the cache is left *)
OnResolutionPreChangeOnly ==
  /\ FirstEvent /\ resolutionPreChange
  /\ UNCHANGED <<resolution, connected, plugged, resCache, conCache, hdrCache, reading, look, device, hotplug, answer, calls>>

(* The first event: the clients are told, the cache is invalidated. *)
OnResolutionPreChange ==
  /\ FirstEvent /\ resolutionPreChange
  /\ resCache' = Cold(resCache)
  /\ UNCHANGED <<resolution, connected, plugged, conCache, hdrCache, reading, look, device, hotplug, answer, calls>>

(* The library changes the resolution, perhaps before its event has come. *)
ResolutionChanges(r) ==
  /\ change \in {"asked", "pre"} /\ change' = IF change = "asked" THEN "early" ELSE "done"
  /\ resolution' = [resolution EXCEPT ![Default] = r]
  /\ reading' = Overtake(reading)
  /\ UNCHANGED <<connected, plugged, resCache, conCache, hdrCache, look, device, hotplug, answer, told, calls>>

(* The second event tells the resolution of the first display found; the   *)
(* cache is not invalidated again.                                         *)
resolutionChanged ==
  \E found \in SUBSET VideoPorts :
    /\ getConnectedVideoDisplaysHelper("event", found)
    /\ told' = IF found = {} THEN told ELSE "resolutionChanged"

OnResolutionPostChange ==
  /\ look["event"] = No /\ change = "done" /\ change' = "none"
  /\ resolutionChanged
  /\ UNCHANGED <<resolution, connected, plugged, resCache, conCache, hdrCache, reading, device, hotplug, answer, calls>>

-----------------------------------------------------------------------------
(* getSettopHDRSupport: what the library answers is kept until the next    *)
(* hot plug, an exception ("none") as well; no video device is a failure.  *)
getSettopHDRSupport ==
  /\ Call /\ Ports /\ UNCHANGED <<resCache, conCache, reading, look, device, hotplug, told>>
  /\ \/ hdrCache.updated /\ answer' = hdrCache.value /\ UNCHANGED hdrCache
     \/ /\ ~hdrCache.updated
        /\ \E caps \in {"list", "none"} : hdrCache' = Warm(caps, FALSE) /\ answer' = caps
     \/ ~hdrCache.updated /\ answer' = "failed" /\ UNCHANGED hdrCache

(* the formats of the video device, or an empty list *)
getSupportedVideoFormats == {"list", "empty"}

(* The names of the formats.  "HLG" is read as another standard, and       *)
(* "TechnicolorPrime" as none.                                             *)
getVideoFormatTypeToString(f) == IF f \in Standards \cup {"HDR10PLUS", "DV", "TechnicolorPrime"} THEN f ELSE "NONE"
getVideoFormatTypeFromString(s) ==
  CASE s \in {"SDR", "NONE", "HDR10", "HDR10PLUS", "DV"} -> s
    [] s = "HLG" -> "TechnicolorPrime"
    [] s = "TechnicolorPrime" -> "NONE"
    [] OTHER -> "Invalid"

getVideoFormat == IfConnected(Default, {getVideoFormatTypeToString(f) : f \in Standards}, {"NONE"})

setForceHDRMode(s) ==
  /\ Call /\ Ports
  /\ \/ /\ isDisplayConnected("call", Default)
        /\ \/ /\ Connected(Default) /\ answer' = "done"
              /\ device' = [device EXCEPT !.hdr = getVideoFormatTypeFromString(s)]
           \/ UNCHANGED device /\ answer' = "failed"
     \/ UNCHANGED <<look, device>> /\ answer' = "failed"
  /\ UNCHANGED <<resCache, conCache, hdrCache, reading, hotplug, told>>

Depths == {"8 Bit", "10 Bit", "12 Bit", "Auto"}
getPreferredColorDepth == Query({device.depth, "failed"})
setPreferredColorDepth(d) ==
  /\ Call /\ Ports /\ Caches /\ UNCHANGED <<reading, hotplug, told>>
  /\ \/ d \in Depths /\ device' = [device EXCEPT !.depth = d] /\ answer' = "done"
     \/ UNCHANGED device /\ answer' = "failed"

setScartParameter == Query({"done", "failed"})

(* The zoom has one name in the library and another in the interface. *)
svc2iarm(z) == CASE z = "FULL" -> "Full" [] z = "NONE" -> "None" [] OTHER -> z
iarm2svc(z) == CASE z = "Full" -> "FULL" [] z = "None" -> "NONE" [] z = "unknown" -> "UNKNOWN" [] OTHER -> z

getZoomSetting == Query({iarm2svc(device.zoom), iarm2svc("unknown"), "failed"})
setZoomSetting(z) ==
  /\ Call /\ Ports /\ Caches /\ UNCHANGED <<reading, hotplug, told>>
  /\ \/ device' = [device EXCEPT !.zoom = svc2iarm(z)] /\ answer' = "done"
     \/ UNCHANGED device /\ answer' = "failed"

-----------------------------------------------------------------------------
(* Events. *)
zoomSettingUpdated == told' = "zoomSettingUpdated"
activeInputChanged == told' = "activeInputChanged"
notifyVideoFormatChange == \E list \in getSupportedVideoFormats : told' = [list |-> "videoFormatChanged", empty |-> "videoFormatChanged without formats"][list]

Event == /\ calls < MaxCalls /\ calls' = calls + 1
         /\ Ports /\ Caches /\ UNCHANGED <<reading, device, hotplug, answer>>

OnZoomSettingsChanged(z) == Event /\ IF z \in {"NONE", "FULL"} THEN zoomSettingUpdated ELSE UNCHANGED told
OnDisplayRxSense(e) == Event /\ IF e \in {"on", "off"} THEN activeInputChanged ELSE UNCHANGED told
OnVideoFormatUpdate == Event /\ notifyVideoFormatChange

(* Request, from SystemMode: ALLM on the displays that are connected. *)
SetAllm(found, state) == device' = IF found # {} THEN [device EXCEPT !.allm = (state = "GAME")] ELSE device

Request(state) ==
  /\ look["mode"] = No /\ calls < MaxCalls /\ calls' = calls + 1
  /\ Ports
  /\ \E found \in SUBSET VideoPorts :
       /\ getConnectedVideoDisplaysHelper("mode", found)
       /\ SetAllm(found, state)
       /\ answer' = IF found = {} THEN "failed" ELSE "done"
  /\ UNCHANGED <<resCache, conCache, hdrCache, reading, hotplug, told>>

(* A display is plugged or unplugged (external); the event comes later.    *)
Plug == /\ calls < MaxCalls /\ calls' = calls + 1 /\ ~plugged
        /\ connected' = [connected EXCEPT ![Default] = ~@] /\ plugged' = TRUE
        /\ look' = [l \in Lanes |-> Overtake(look[l])]
        /\ UNCHANGED <<resolution, change, resCache, conCache, hdrCache, reading, device, hotplug, answer, told>>

(* OnDisplayHDMIHotPlug: the caches are cold again, then the clients are   *)
(* told of a status other than the last one, and ALLM is set again from    *)
(* the state in the system-mode file, on what is found connected.          *)
connectedVideoDisplaysUpdated(status, state) ==
  /\ told' = IF hotplug.first \/ hotplug.previous # status THEN "connectedVideoDisplaysUpdated" ELSE told
  /\ hotplug' = [previous |-> status, first |-> FALSE]
  /\ \/ state = "none" /\ UNCHANGED <<device, look>>
     \/ /\ state # "none"
        /\ look' = [look EXCEPT !["event"] = Read(Default, connected[Default], TRUE)]
        /\ SetAllm({p \in VideoPorts : connected[p]}, state)
     \/ state # "none" /\ UNCHANGED <<device, look>>

OnDisplayHDMIHotPlug(state) ==
  /\ look["event"] = No /\ plugged /\ plugged' = FALSE
  /\ resCache' = Cold(resCache) /\ conCache' = Cold(conCache) /\ hdrCache' = Cold(hdrCache)
  /\ connectedVideoDisplaysUpdated(connected[Default], state)
  /\ UNCHANGED <<resolution, connected, change, reading, answer, calls>>

(* onPowerModeChanged, as far as the caches go: power-on makes them cold.  *)
onPowerModeChanged(new) ==
  /\ calls < MaxCalls /\ calls' = calls + 1 /\ Ports
  /\ IF new = "ON"
     THEN resCache' = Cold(resCache) /\ conCache' = Cold(conCache) /\ hdrCache' = Cold(hdrCache)
     ELSE UNCHANGED <<resCache, conCache, hdrCache>>
  /\ UNCHANGED <<reading, look, device, hotplug, answer, told>>

-----------------------------------------------------------------------------
Queries == \/ getConnectedVideoDisplays \/ readEDID \/ getTvHDRSupport \/ getTVHDRCapabilities
           \/ getCurrentOutputSettings \/ isConnectedDeviceRepeater \/ getDefaultResolution
           \/ readHostEDID \/ getSupportedResolutions \/ getSupportedVideoDisplays
           \/ getSupportedTvResolutions \/ getSupportedSettopResolutions \/ getColorDepthCapabilities
           \/ getSettopHDRSupport \/ getVideoFormat \/ getPreferredColorDepth \/ getZoomSetting
           \/ \E p \in VideoPorts : getActiveInput(p) \/ getCurrentResolution(p)

Sets == \/ \E r \in Resolutions : setCurrentResolution(r)
        \/ \E s \in Standards \cup {"bad"} : setForceHDRMode(s)
        \/ \E d \in {"8 Bit", "bad"} : setPreferredColorDepth(d)
        \/ \E z \in {"NONE", "FULL"} : setZoomSetting(z)
        \/ setScartParameter

Events == \/ OnResolutionPreChange \/ OnResolutionPostChange
          \/ \E r \in Resolutions : ResolutionChanges(r)
          \/ \E z \in {"NONE", "OTHER"} : OnZoomSettingsChanged(z)
          \/ \E e \in {"on", "other"} : OnDisplayRxSense(e)
          \/ OnVideoFormatUpdate
          \/ \E s \in {"GAME", "VIDEO"} : Request(s)
          \/ \E s \in {"GAME", "none"} : OnDisplayHDMIHotPlug(s)
          \/ \E s \in {"ON", "STANDBY"} : onPowerModeChanged(s)
          \/ Plug \/ OthersAsk

Stores == StoreResolution \/ \E l \in Lanes : StoreConnection(l)

Next == Queries \/ Sets \/ Events \/ Stores

Spec == Init /\ [][Next]_vars

-----------------------------------------------------------------------------
(* The caches hold what the default port has, except from a change until   *)
(* its event has come.  Where that fails for longer the cache was filled   *)
(* with a value that a change or a hot plug had overtaken between the read *)
(* and the store, or, of the resolution, between OnResolutionPreChange,    *)
(* which invalidates, and the change itself; or with the value of another  *)
(* port; and only until the next event that invalidates it                 *)
(* (isDisplayConnected 722-733, getCurrentResolution 1117-1123, the events *)
(* 5959-5964 and 6042-6050).                                               *)
CachesAreReal ==
  /\ resCache.updated /\ ~resCache.late /\ change # "early" => resCache.value = resolution[Default]
  /\ conCache.updated /\ ~conCache.late /\ ~plugged => conCache.value = connected[Default]
=============================================================================
