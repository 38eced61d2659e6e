------------------------------- MODULE Parcelables -------------------------------
(* The objects that travel inside messages. Each writes itself with Marshalling
   and is made again with Unmarshalling: one definition for the fields each of
   the two goes through, in its order. They are checked as messages of their own,
   whose code is the class (for a WindowProperty sent by UpdateProperty, the
   action): what one function writes the other must read.                      *)
EXTENDS IpcFields

Words(names) == [i \in 1 .. Len(names) |-> W(names[i])]
(* the four words of a Rect *)
RectOf(posX, posY, width, height) == Words(<<posX, posY, width, height>>)
Writes(class, fields) == Post(class, class, fields)
Reads(class, fields)  == Case(class, fields, class, <<>>)

WriteWindowVisibilityInfo == Writes("WindowVisibilityInfo",
    Words(<<"windowId", "pid", "uid", "isVisible", "windowType">>))
ReadWindowVisibilityInfo == Reads("WindowVisibilityInfo",
    Words(<<"windowId", "pid", "uid", "isVisible", "windowType">>))

WriteWindowInfo == Writes("WindowInfo",
    Words(<<"wid", "width", "height", "posX", "posY", "focused", "isDecorEnable">>)
    \o <<D("displayId"), W("mode"), W("type")>>)
ReadWindowInfo == Reads("WindowInfo",
    Words(<<"wid", "width", "height", "posX", "posY", "focused", "isDecorEnable">>)
    \o <<D("displayId"), W("mode"), W("type")>>)

WriteAccessibilityWindowInfo == Writes("AccessibilityWindowInfo", <<P("currentWindowInfo"), V("windowList")>>)
ReadAccessibilityWindowInfo == Reads("AccessibilityWindowInfo", <<P("currentWindowInfo"), V("windowList")>>)

WriteFocusChangeInfo == Writes("FocusChangeInfo",
    <<W("windowId"), D("displayId"), W("pid"), W("uid"), W("windowType")>>)
ReadFocusChangeInfo == Reads("FocusChangeInfo",
    <<W("windowId"), D("displayId"), W("pid"), W("uid"), W("windowType")>>)

WriteOccupiedAreaChangeInfo == Writes("OccupiedAreaChangeInfo",
    RectOf("rect.posX", "rect.posY", "rect.width", "rect.height") \o <<W("type")>>)
ReadOccupiedAreaChangeInfo == Reads("OccupiedAreaChangeInfo",
    RectOf("rect.posX", "rect.posY", "rect.width", "rect.height") \o <<W("type")>>)

WriteDisplayInfo == Writes("DisplayInfo",
    <<S("name"), D("id"), W("type"), W("width"), W("height"), W("refreshRate"), D("screenId")>>
    \o Words(<<"virtualPixelRatio", "xDpi", "yDpi", "rotation", "orientation", "offsetX", "offsetY">>))
ReadDisplayInfo == Reads("DisplayInfo",
    <<S("name"), D("id"), W("type"), W("width"), W("height"), W("refreshRate"), D("screenId")>>
    \o Words(<<"virtualPixelRatio", "xDpi", "yDpi", "rotation", "orientation", "offsetX", "offsetY">>))

(* a count, and for each mode height, width and refresh rate *)
WriteScreenInfo == Writes("ScreenInfo",
    <<S("name"), D("id"), W("virtualWidth"), W("virtualHeight"), W("virtualPixelRatio"), D("parent")>>
    \o Words(<<"isScreenGroup", "rotation", "orientation", "type", "modeId", "modes.size">>)
    \o Words(<<"mode.height", "mode.width", "mode.refreshRate">>))
ReadScreenInfo == Reads("ScreenInfo",
    <<S("name"), D("id"), W("virtualWidth"), W("virtualHeight"), W("virtualPixelRatio"), D("parent")>>
    \o Words(<<"isScreenGroup", "rotation", "orientation", "type", "modeId", "modes.size">>)
    \o Words(<<"mode.height", "mode.width", "mode.refreshRate">>))

(* a screen group is a screen followed by its combination, children and positions *)
WriteScreenGroupInfo == Writes("ScreenGroupInfo", WriteScreenInfo.args
    \o <<W("combination"), V("children"), W("position.size"), W("position.posX"), W("position.posY")>>)
ReadScreenGroupInfo == Reads("ScreenGroupInfo", ReadScreenInfo.args
    \o <<W("combination"), V("children"), W("position.size"), W("position.posX"), W("position.posY")>>)

(* the rectangles of a notch on each side, then the bounding rectangles *)
BoundingRectFields == Words(<<"size">>) \o RectOf("bound.posX", "bound.posY", "bound.width", "bound.height")
WriteCutoutInfo == Writes("CutoutInfo",
    RectOf("left.posX", "left.posY", "left.width", "left.height")
    \o RectOf("top.posX", "top.posY", "top.width", "top.height")
    \o RectOf("right.posX", "right.posY", "right.width", "right.height")
    \o RectOf("bottom.posX", "bottom.posY", "bottom.width", "bottom.height") \o BoundingRectFields)
ReadWaterfallDisplayAreaRects ==
    RectOf("left.posX", "left.posY", "left.width", "left.height")
    \o RectOf("top.posX", "top.posY", "top.width", "top.height")
    \o RectOf("right.posX", "right.posY", "right.width", "right.height")
    \o RectOf("bottom.posX", "bottom.posY", "bottom.width", "bottom.height")
ReadBoundingRectsVector ==
    Words(<<"size">>) \o RectOf("bound.posX", "bound.posY", "bound.width", "bound.height")
ReadCutoutInfo == Reads("CutoutInfo", ReadWaterfallDisplayAreaRects \o ReadBoundingRectsVector)

(* the token of the ability follows a flag that says it is there *)
WriteWindowTransitionInfo == Writes("WindowTransitionInfo",
    <<S("bundleName"), S("abilityName"), W("mode")>>
    \o RectOf("rect.posX", "rect.posY", "rect.width", "rect.height")
    \o <<W("hasToken"), Opt(O("abilityToken")), D("displayId")>>
    \o Words(<<"windowType", "isShowWhenLocked", "isRecent", "reason">>))
ReadWindowTransitionInfo == Reads("WindowTransitionInfo",
    <<S("bundleName"), S("abilityName"), W("mode")>>
    \o RectOf("rect.posX", "rect.posY", "rect.width", "rect.height")
    \o <<W("hasToken"), Opt(O("abilityToken")), D("displayId")>>
    \o Words(<<"windowType", "isShowWhenLocked", "isRecent", "reason">>))

WriteSystemConfig == Writes("SystemConfig",
    Words(<<"isSystemDecorEnable", "isStretchable", "fullScreenRadius", "splitRadius", "floatRadius">>)
    \o <<W("focused.elevation"), S("focused.color"), W("focused.offsetX"), W("focused.offsetY"),
         W("focused.alpha"), W("unfocused.elevation"), S("unfocused.color"), W("unfocused.offsetX"),
         W("unfocused.offsetY"), W("unfocused.alpha")>>)
ReadSystemConfig == Reads("SystemConfig",
    Words(<<"isSystemDecorEnable", "isStretchable", "fullScreenRadius", "splitRadius", "floatRadius">>)
    \o <<W("focused.elevation"), S("focused.color"), W("focused.offsetX"), W("focused.offsetY"),
         W("focused.alpha"), W("unfocused.elevation"), S("unfocused.color"), W("unfocused.offsetX"),
         W("unfocused.offsetY"), W("unfocused.alpha")>>)

WriteMoveDragProperty == Writes("MoveDragProperty",
    Words(<<"startPointPosX", "startPointPosY", "startPointerId", "startDragFlag", "startMoveFlag",
            "pointEventStarted", "dragType">>)
    \o RectOf("point.posX", "point.posY", "point.width", "point.height")
    \o RectOf("frame.posX", "frame.posY", "frame.width", "frame.height")
    \o RectOf("corner.posX", "corner.posY", "corner.width", "corner.height"))
ReadMoveDragProperty == Reads("MoveDragProperty",
    Words(<<"startPointPosX", "startPointPosY", "startPointerId", "startDragFlag", "startMoveFlag",
            "pointEventStarted", "dragType">>)
    \o RectOf("point.posX", "point.posY", "point.width", "point.height")
    \o RectOf("frame.posX", "frame.posY", "frame.width", "frame.height")
    \o RectOf("corner.posX", "corner.posY", "corner.width", "corner.height"))

WriteAvoidArea == Writes("AvoidArea",
    RectOf("left.posX", "left.posY", "left.width", "left.height")
    \o RectOf("top.posX", "top.posY", "top.width", "top.height")
    \o RectOf("right.posX", "right.posY", "right.width", "right.height")
    \o RectOf("bottom.posX", "bottom.posY", "bottom.width", "bottom.height"))
ReadAvoidArea == Reads("AvoidArea",
    RectOf("left.posX", "left.posY", "left.width", "left.height")
    \o RectOf("top.posX", "top.posY", "top.width", "top.height")
    \o RectOf("right.posX", "right.posY", "right.width", "right.height")
    \o RectOf("bottom.posX", "bottom.posY", "bottom.width", "bottom.height"))

(* the parts of a WindowProperty: a count and its elements, of which one is shown *)
MapMarshalling == Words(<<"bar.size", "bar.type", "bar.enable", "bar.backgroundColor", "bar.contentColor">>)
MapUnmarshalling == Words(<<"bar.size", "bar.type", "bar.enable", "bar.backgroundColor", "bar.contentColor">>)
MarshallingTouchHotAreas == Words(<<"hot.size", "hot.posX", "hot.posY", "hot.width", "hot.height">>)
UnmarshallingTouchHotAreas == Words(<<"hot.size", "hot.posX", "hot.posY", "hot.width", "hot.height">>)
MarshallingTransform == Words(<<"pivotX", "pivotY", "scaleX", "scaleY", "rotationX", "rotationY", "rotationZ",
    "translateX", "translateY", "translateZ">>)
UnmarshallingTransform == Words(<<"pivotX", "pivotY", "scaleX", "scaleY", "rotationX", "rotationY", "rotationZ",
    "translateX", "translateY", "translateZ">>)
MarshallingWindowSizeLimits ==
    Words(<<"maxWidth", "maxHeight", "minWidth", "minHeight", "maxRatio", "minRatio">>)
UnmarshallingWindowSizeLimits ==
    Words(<<"maxWidth", "maxHeight", "minWidth", "minHeight", "maxRatio", "minRatio">>)

(* only the size of originRect is sent: its position becomes 0 *)
WriteWindowProperty == Writes("WindowProperty",
    <<S("windowName")>> \o RectOf("rect.posX", "rect.posY", "rect.width", "rect.height")
    \o RectOf("request.posX", "request.posY", "request.width", "request.height")
    \o Words(<<"decoStatus", "type", "mode", "lastMode", "flags", "isFullScreen", "focusable", "touchable",
               "isPrivacyMode", "isTransparent", "alpha", "brightness">>)
    \o <<D("displayId"), W("windowId"), W("parentId")>> \o MapMarshalling
    \o Words(<<"isDecorEnable", "hitOffset.x", "hitOffset.y", "animationFlag", "sizeChangeReason", "tokenState",
               "callingWindow", "requestedOrientation", "turnScreenOn", "keepScreenOn", "modeSupportInfo",
               "requestModeSupportInfo", "dragType", "origin.width", "origin.height", "isStretchable">>)
    \o MarshallingTouchHotAreas \o <<W("accessTokenId")>> \o MarshallingTransform \o MarshallingWindowSizeLimits)
ReadWindowProperty == Reads("WindowProperty",
    <<S("windowName")>> \o RectOf("rect.posX", "rect.posY", "rect.width", "rect.height")
    \o RectOf("request.posX", "request.posY", "request.width", "request.height")
    \o Words(<<"decoStatus", "type", "mode", "lastMode", "flags", "isFullScreen", "focusable", "touchable",
               "isPrivacyMode", "isTransparent", "alpha", "brightness">>)
    \o <<D("displayId"), W("windowId"), W("parentId")>> \o MapUnmarshalling
    \o Words(<<"isDecorEnable", "hitOffset.x", "hitOffset.y", "animationFlag", "sizeChangeReason", "tokenState",
               "callingWindow", "requestedOrientation", "turnScreenOn", "keepScreenOn", "modeSupportInfo",
               "requestModeSupportInfo", "dragType", "origin.width", "origin.height", "isStretchable">>)
    \o UnmarshallingTouchHotAreas \o <<W("accessTokenId")>> \o UnmarshallingTransform
    \o UnmarshallingWindowSizeLimits)

(* UpdateProperty sends the window and what its action changes, nothing for an
   action without a case                                                       *)
WriteByAction == [
    ACTION_UPDATE_RECT |-> Words(<<"decoStatus", "dragType">>)
        \o RectOf("origin.posX", "origin.posY", "origin.width", "origin.height")
        \o RectOf("request.posX", "request.posY", "request.width", "request.height")
        \o Words(<<"sizeChangeReason">>),
    ACTION_UPDATE_MODE |-> Words(<<"mode">>), ACTION_UPDATE_FLAGS |-> Words(<<"flags">>),
    ACTION_UPDATE_OTHER_PROPS |-> MapMarshalling, ACTION_UPDATE_FOCUSABLE |-> Words(<<"focusable">>),
    ACTION_UPDATE_TOUCHABLE |-> Words(<<"touchable">>),
    ACTION_UPDATE_CALLING_WINDOW |-> Words(<<"callingWindow">>),
    ACTION_UPDATE_ORIENTATION |-> Words(<<"requestedOrientation">>),
    ACTION_UPDATE_TURN_SCREEN_ON |-> Words(<<"turnScreenOn">>),
    ACTION_UPDATE_KEEP_SCREEN_ON |-> Words(<<"keepScreenOn">>),
    ACTION_UPDATE_SET_BRIGHTNESS |-> Words(<<"brightness">>),
    ACTION_UPDATE_MODE_SUPPORT_INFO |-> Words(<<"modeSupportInfo">>),
    ACTION_UPDATE_TOUCH_HOT_AREA |-> MarshallingTouchHotAreas,
    ACTION_UPDATE_TRANSFORM_PROPERTY |-> MarshallingTransform,
    ACTION_UPDATE_ANIMATION_FLAG |-> Words(<<"animationFlag">>),
    ACTION_UPDATE_PRIVACY_MODE |-> Words(<<"isPrivacyMode">>)]
ReadByAction == [
    ACTION_UPDATE_RECT |-> Words(<<"decoStatus", "dragType">>)
        \o RectOf("origin.posX", "origin.posY", "origin.width", "origin.height")
        \o RectOf("request.posX", "request.posY", "request.width", "request.height")
        \o Words(<<"sizeChangeReason">>),
    ACTION_UPDATE_MODE |-> Words(<<"mode">>), ACTION_UPDATE_FLAGS |-> Words(<<"flags">>),
    ACTION_UPDATE_OTHER_PROPS |-> MapUnmarshalling, ACTION_UPDATE_FOCUSABLE |-> Words(<<"focusable">>),
    ACTION_UPDATE_TOUCHABLE |-> Words(<<"touchable">>),
    ACTION_UPDATE_CALLING_WINDOW |-> Words(<<"callingWindow">>),
    ACTION_UPDATE_ORIENTATION |-> Words(<<"requestedOrientation">>),
    ACTION_UPDATE_TURN_SCREEN_ON |-> Words(<<"turnScreenOn">>),
    ACTION_UPDATE_KEEP_SCREEN_ON |-> Words(<<"keepScreenOn">>),
    ACTION_UPDATE_SET_BRIGHTNESS |-> Words(<<"brightness">>),
    ACTION_UPDATE_MODE_SUPPORT_INFO |-> Words(<<"modeSupportInfo">>),
    ACTION_UPDATE_TOUCH_HOT_AREA |-> UnmarshallingTouchHotAreas,
    ACTION_UPDATE_TRANSFORM_PROPERTY |-> UnmarshallingTransform,
    ACTION_UPDATE_ANIMATION_FLAG |-> Words(<<"animationFlag">>),
    ACTION_UPDATE_PRIVACY_MODE |-> Words(<<"isPrivacyMode">>)]
WriteOfAction == {Writes(a, Words(<<"windowId">>) \o WriteByAction[a]) : a \in DOMAIN WriteByAction}
ReadOfAction  == {Reads(a, Words(<<"windowId">>) \o ReadByAction[a]) : a \in DOMAIN ReadByAction}
=============================================================================
