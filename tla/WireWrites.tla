------------------------------ MODULE WireWrites ------------------------------
(*
  What the encoder writes: for every record and union case, which key carries which member, and
  when.
*)
EXTENDS WireTypes

(* Members the generated writers hand to a writer of their own. *)

encode_exposed_node_ids == NonEmpty({"exposedNodeIds"})

encode_fragment_effect ==
  Unless("effect",
    Record("EffectClass", [hostEffect |-> Str("Pure"), determinism |-> Str("Deterministic")]))

encode_fragment_args(key) == NonEmpty({key})

omit_literal_zero(key) == Unless(key, Record("Binding_Static", [value |-> Holding("Ast", Num(0))]))
encode_tabs_active_index == omit_literal_zero("activeIndex")
encode_stepper_active_step == omit_literal_zero("activeStep")

encode_aria_role == Given({"role"})

\* Mutant: the label goes out under the name of another dialect.
encode_text_label_as_text == PutAs("text", "label")
encode_text_label == Put({"label"})
encode_tone_map == Put({"map"})
encode_button_group == Rule("buttons", "buttons", "labels", None)

\* A payload that is no value at all has no key; a State's default is written where one was declared.
encode_static_payload == Rule("payload", "value", "value", None)
encode_state_default == Rule("declared", "defaultValue", "defaultValue", None)
encode_depends_on == Rule("filledOption", "dependsOn", "dependsOn", None)
encode_binding_params == Rule("filledOption", "params", "params", None)

encode_node_state ==
  Unless("state", Record("StateBehaviour", [k \in {"onEmpty", "onError", "onLoading"} |-> None]))

encode_node_style ==
  Unless("style",
    Record("SemanticStyle",
      [direction |-> Defaults.SEMANTIC_STYLE_DIRECTION, emphasis |-> Defaults.SEMANTIC_STYLE_EMPHASIS,
       role |-> Defaults.SEMANTIC_STYLE_ROLE, tone |-> Defaults.SEMANTIC_STYLE_TONE,
       voice |-> Defaults.SEMANTIC_STYLE_VOICE, weight |-> Defaults.SEMANTIC_STYLE_WEIGHT]))

-----------------------------------------------------------------------------
(* Owners written by hand. *)

encode_filters_kind == Tag("Filters") @@ Put({"items"})

\* A state that declares no default is written as its key alone.
encode_switch_spec ==
  Tag("Switch") @@ Put({"cases", "default"}) @@ Given({"autoAdvanceMs"}) @@
  Rule("undeclared", "stateKey", "on", None) @@ Rule("otherOn", "on", "on", None)

encode_switch_case ==
  Put({"child"}) @@ Rule("case", "match", "condition", "Match") @@ Rule("case", "when", "condition", "When")

encode_form_field ==
  Put({"id", "label"}) @@ Rule("control", "kind", "kind", "id") @@ Unless("required", Bool(FALSE)) @@
  Given({"help", "rule", "affordance"})

encode_filter_spec == Put({"label", "name"}) @@ Rule("control", "kind", "kind", "name")

handler_field == Given({"onChange"})
control_value_field == Given({"value"})

\* A control's value reaches its writer absent when it is the binding its absence stands for.
form_field_kind ==
  LET Control(tag) == Tag(tag) @@ handler_field @@ control_value_field
      limits == Given({"min", "max", "step"})
      free(default) == Unless("allowFreeText", default)
  IN
  [ FormFieldKind_Text |-> Control("Text"),
    FormFieldKind_Number |-> Control("Number"),
    FormFieldKind_Checkbox |-> Control("Checkbox"),
    FormFieldKind_Toggle |-> Control("Toggle"),
    FormFieldKind_Choice |-> Control("Choice") @@ Put({"options"}),
    FormFieldKind_Combobox |-> Control("Combobox") @@ Put({"options"}) @@
          free(Defaults.FORM_FIELD_KIND_COMBOBOX_ALLOW_FREE_TEXT),
    FormFieldKind_Range |-> Control("Range") @@ limits,
    FormFieldKind_RangedNumber |-> Control("RangedNumber") @@ limits,
    FormFieldKind_SegmentedChoice |-> Control("SegmentedChoice") @@ Put({"options"}) @@
          Unless("orientation", Defaults.FORM_FIELD_KIND_SEGMENTED_CHOICE_ORIENTATION),
    FormFieldKind_TextArea |-> Control("TextArea") @@ Put({"rows"}),
    FormFieldKind_DateTime |-> Control("DateTime") @@ Put({"variant"}) @@ limits,
    FormFieldKind_DateTimeRange |-> Control("DateTimeRange") @@ Put({"variant"}) @@ limits,
    FormFieldKind_Tokens |-> Control("Tokens") @@ Given({"suggestions"}) @@
          free(Defaults.FORM_FIELD_KIND_TOKENS_ALLOW_FREE_TEXT),
    FormFieldKind_Rating |-> Control("Rating") @@ Put({"max"}) @@
          Unless("allowHalf", Defaults.FORM_FIELD_KIND_RATING_ALLOW_HALF),
    FormFieldKind_Color |-> Control("Color") ]

HandWrites ==
  [ FiltersSpec |-> encode_filters_kind,
    SwitchSpec |-> encode_switch_spec,
    SwitchCase |-> encode_switch_case,
    FormField |-> encode_form_field,
    FilterSpec |-> encode_filter_spec,
    FragmentArg_Slot |-> Tag("SlotArg") @@ Put({"tree"}) ]

-----------------------------------------------------------------------------
(* The generated writers. *)

WritesBadgeToCustom ==
  [ BadgeSpec |-> Tag("Badge") @@ Put({"label"}) @@ Unless("variant", Defaults.BADGE_VARIANT),
    BoxSpec |-> Tag("Box") @@ Put({"children", "layout", "role"}) @@ Given({"heading"}) @@
          Unless("keepTogether", Defaults.BOX_KEEP_TOGETHER) @@
          Unless("breakBefore", Defaults.BOX_BREAK_BEFORE),
    ButtonSpec |-> Tag("Button") @@ Put({"label", "onClick"}) @@
          Given({"icon", "disabled", "affordance"}) @@ Unless("variant", Defaults.BUTTON_VARIANT),
    CalloutSpec |-> Tag("Callout") @@ Put({"body"}) @@ Given({"heading", "icon"}) @@
          Unless("dismissable", Defaults.CALLOUT_DISMISSABLE) @@ Unless("tone", Defaults.CALLOUT_TONE),
    ChartSpec |-> Tag("Chart") @@ Put({"kind", "source", "xField", "yFields"}) @@
          Given({"title", "valueFormat", "xTitle", "yTitle", "subtitle", "legendPosition", "dataLabels", "xScale", "annotations", "onPointClick"}) @@
          Unless("stacked", Defaults.CHART_STACKED),
    CodeBlockSpec |-> Tag("CodeBlock") @@ Put({"code", "language"}) @@ NonEmpty({"highlightLines"}) @@
          Unless("copyable", Defaults.CODE_BLOCK_COPYABLE) @@
          Unless("lineNumbers", Defaults.CODE_BLOCK_LINE_NUMBERS),
    CustomSpec |-> Tag("Custom") @@ Put({"moduleId", "componentId", "props"}) @@
          Given({"contentHash"}) @@ encode_exposed_node_ids ]

WritesGridToFact ==
  [ GridSpec |-> Tag("DataGrid") @@ Put({"columns", "source"}) @@
          Given({"rowKey", "rowKeyField", "sortStateKey", "pageSize", "pageStateKey", "defaultSort", "editStateKey", "transferInKey", "transferOutKey", "windowStateKey", "rowTotal", "staticRows", "onRowClick"}) @@
          Unless("editable", Defaults.DATA_GRID_EDITABLE) @@
          Unless("reorderable", Defaults.DATA_GRID_REORDERABLE) @@
          Unless("keepRowsTogether", Defaults.DATA_GRID_KEEP_ROWS_TOGETHER) @@
          Unless("repeatHeader", Defaults.DATA_GRID_REPEAT_HEADER) @@
          Unless("exportable", Defaults.DATA_GRID_EXPORTABLE),
    DisclosureSpec |-> Tag("Disclosure") @@ Put({"children", "defaultOpen", "heading", "open"}) @@
          Given({"onToggle"}),
    DrawingSpec |-> Tag("Drawing") @@ Put({"shapes", "style", "viewBox"}) @@
          Given({"description", "title"}),
    EmbedSpec |-> Tag("Embed") @@ Put({"src", "title"}) @@ NonEmpty({"permissions"}) @@
          Unless("aspectRatio", Defaults.EMBED_ASPECT_RATIO),
    ErrorBoundarySpec |-> Tag("ErrorBoundary") @@ Put({"child", "fallback"}),
    FactSpec |-> Tag("Fact") @@ Put({"label", "value"}) @@ Given({"help", "icon", "reference"}) @@
          Unless("emphasis", Defaults.FACT_EMPHASIS) @@ Unless("tone", Defaults.FACT_TONE) ]

WritesFileUploadToLink ==
  [ FileUploadSpec |-> Tag("FileUpload") @@ Put({"accept", "label"}) @@
          Given({"onSelect", "disabled", "capture", "destination", "maxBytes", "maxFiles"}) @@
          Unless("multiple", Defaults.FILE_UPLOAD_MULTIPLE) @@
          Unless("acceptPaste", Defaults.FILE_UPLOAD_ACCEPT_PASTE) @@
          Unless("dropTarget", Defaults.FILE_UPLOAD_DROP_TARGET),
    FormSpec |-> Tag("Form") @@ Put({"fields", "onSubmit", "submitLabel"}) @@ Given({"disabled"}),
    FragmentDeclSpec |-> Tag("FragmentDecl") @@ Put({"body", "name"}) @@ NonEmpty({"holes"}) @@
          encode_fragment_effect,
    FragmentRefSpec |-> Tag("FragmentRef") @@ Put({"name"}) @@ encode_fragment_args("args"),
    HeadingSpec |-> Tag("Heading") @@ Put({"level", "text"}) @@
          Unless("variant", Defaults.HEADING_VARIANT),
    IconSpec |-> Tag("Icon") @@ Put({"icon"}) @@ Given({"label"}) @@
          Unless("size", Defaults.ICON_SIZE) @@ Unless("tone", Defaults.ICON_TONE),
    ImageSpec |-> Tag("Image") @@ Put({"alt", "src"}) @@ Given({"caption"}) @@ NonEmpty({"srcSet"}) @@
          Unless("variant", Defaults.IMAGE_VARIANT) @@ Unless("fit", Defaults.IMAGE_FIT) @@
          Unless("aspectRatio", Defaults.IMAGE_ASPECT_RATIO) @@
          Unless("loading", Defaults.IMAGE_LOADING) @@ Unless("expandable", Defaults.IMAGE_EXPANDABLE),
    LabelValueRowSpec |-> Tag("LabelValueRow") @@ Put({"label", "value"}) @@ Given({"help"}) @@
          Unless("emphasis", Defaults.LABEL_VALUE_ROW_EMPHASIS) @@
          Unless("format", Defaults.LABEL_VALUE_ROW_FORMAT),
    LinkSpec |-> Tag("Link") @@ Put({"href", "label"}) @@ Given({"rel", "target", "protection"}) @@
          Unless("download", Defaults.LINK_DOWNLOAD) ]

WritesListToProgress ==
  [ ListSpec |-> Tag("List") @@ Put({"items"}) @@ Unless("ordered", Defaults.LIST_ORDERED),
    MapSpec |-> Tag("Map") @@ Put({"centreLatitude", "centreLongitude", "source", "zoom"}) @@
          Given({"onMarkerClick"}),
    MarkdownSpec |-> Tag("Markdown") @@ Put({"text"}) @@ NonEmpty({"citations"}),
    MathSpec |-> Tag("Math") @@ Put({"source", "display"}),
    MediaSpec |-> Tag("Media") @@ Put({"kind", "label", "src"}) @@ Given({"transcript"}) @@
          NonEmpty({"tracks"}) @@ Unless("controls", Defaults.MEDIA_CONTROLS) @@
          Unless("loop", Defaults.MEDIA_LOOP),
    MetricSpec |-> Tag("Metric") @@ Put({"label", "value"}) @@
          Given({"trend", "trendFormat", "icon", "subtext"}) @@ NonEmpty({"comparisons"}) @@
          Unless("format", Defaults.METRIC_FORMAT) @@ Unless("tone", Defaults.METRIC_TONE) @@
          Unless("weight", Defaults.METRIC_WEIGHT) @@ Unless("emphasis", Defaults.METRIC_EMPHASIS) @@
          Unless("trendPolarity", Defaults.METRIC_TREND_POLARITY),
    ModalSpec |-> Tag("Modal") @@ Put({"children", "open"}) @@
          Given({"onDismiss", "heading", "anchor"}) @@
          Unless("dismissable", Defaults.MODAL_DISMISSABLE) @@
          Unless("modality", Defaults.MODAL_MODALITY),
    MountSpec |-> Tag("Mount") @@ Put({"capabilities", "channel", "scopeId"}) @@ Mark({"onBubble"}) @@
          encode_fragment_args("inputs"),
    ProgressSpec |-> Tag("Progress") @@ Put({"fraction"}) @@ Given({"label", "caveat"}) @@
          Unless("indeterminate", Defaults.PROGRESS_INDETERMINATE) @@
          Unless("tone", Defaults.PROGRESS_TONE) ]

WritesScrollAreaToTree ==
  [ ScrollAreaSpec |-> Tag("ScrollArea") @@ Put({"children", "orientation"}) @@
          Given({"maxHeight", "maxWidth"}),
    SelectSpec |-> Tag("Select") @@ Put({"label", "source"}) @@
          Given({"onChange", "onChangeMulti", "value", "placeholder", "disabled", "multiple", "values", "affordance"}) @@
          NonEmpty({"groups"}),
    SkeletonSpec |-> Tag("Skeleton") @@ Put({"rows"}),
    SparklineSpec |-> Tag("Sparkline") @@ Put({"source"}),
    SplitPanelSpec |-> Tag("SplitPanel") @@ Put({"children", "weight"}),
    StepperSpec |-> Tag("Stepper") @@ Put({"children"}) @@ Given({"onSelect"}) @@
          encode_stepper_active_step,
    SummaryListSpec |-> Tag("SummaryList") @@ Put({"children"}) @@ Given({"heading"}),
    TabsSpec |-> Tag("Tabs") @@ Put({"children"}) @@
          Given({"onSelect", "onSelectTag", "tabHeaders", "tabTags", "activeTag"}) @@
          encode_tabs_active_index @@ Unless("orientation", Defaults.TABS_ORIENTATION),
    ToastSpec |-> Tag("Toast") @@ Put({"message", "open"}) @@
          Unless("dismissable", Defaults.TOAST_DISMISSABLE) @@ Unless("tone", Defaults.TOAST_TONE),
    TreeSpec |-> Tag("Tree") @@ Put({"items"}) @@
          Given({"expandedStateKey", "onSelect", "selectionStateKey"}) ]

WritesAccessibilityToEffectClass ==
  [ Accessibility |-> Given({"describedBy", "hidden", "label", "labelledBy", "liveRegion", "speak"}) @@
          encode_aria_role,
    Affordance |-> Given({"description"}) @@ NonEmpty({"patterns", "readPatterns", "aliases"}) @@
          Unless("clearable", Defaults.AFFORDANCE_CLEARABLE) @@
          Unless("neverControllable", Defaults.AFFORDANCE_NEVER_CONTROLLABLE),
    AffordanceAlias |-> Put({"alias", "value"}),
    ColumnErased |-> Put({"kind", "label"}) @@ Given({"field", "sortable", "editable", "value"}) @@
          Unless("format", Defaults.COLUMN_ERASED_FORMAT) @@
          Unless("width", Defaults.COLUMN_ERASED_WIDTH),
    CompareRule |-> Put({"against", "op"}),
    ContentHash |-> Put({"algorithm", "hash", "strictness"}),
    DefaultSort |-> Put({"column", "direction"}),
    DrawPoint |-> Put({"x", "y"}),
    DrawStyle |->
          Given({"emphasis", "fill", "fontFamily", "fontSize", "markId", "opacity", "rotation", "stroke", "strokeWidth", "textAnchor", "tip"}),
    EffectClass |-> Put({"determinism", "hostEffect"}) ]

WritesFieldRuleToStateBehaviour ==
  [ FieldRule |-> Given({"compare", "format", "maxLength", "message", "minLength", "pattern"}),
    MountChannel |-> Put({"direction"}) @@ Given({"messageShape"}),
    InvokeArg |-> Put({"addr", "value"}),
    MapMarker |-> Put({"latitude", "longitude"}) @@ encode_text_label,
    MarkdownCitation |-> Put({"name", "reference"}) @@ Given({"label"}),
    MetricComparison |-> Put({"label", "value"}) @@
          Unless("format", Defaults.METRIC_COMPARISON_FORMAT) @@
          Unless("polarity", Defaults.METRIC_COMPARISON_POLARITY),
    SelectOption |-> Put({"value"}) @@ encode_text_label,
    SelectOptionGroup |-> Put({"label", "values"}),
    SemanticStyle |-> Unless("direction", Defaults.SEMANTIC_STYLE_DIRECTION) @@
          Unless("emphasis", Defaults.SEMANTIC_STYLE_EMPHASIS) @@
          Unless("role", Defaults.SEMANTIC_STYLE_ROLE) @@
          Unless("tone", Defaults.SEMANTIC_STYLE_TONE) @@
          Unless("voice", Defaults.SEMANTIC_STYLE_VOICE) @@
          Unless("weight", Defaults.SEMANTIC_STYLE_WEIGHT),
    SrcSetEntry |-> Put({"src", "width"}),
    StateBehaviour |-> Given({"onEmpty", "onError", "onLoading"}) ]

WritesStaticRowsToViewBox ==
  [ StaticRows |-> Put({"headers", "rows"}) @@ Given({"defaultSort", "sortable"}) @@
          NonEmpty({"citations"}),
    StyleDelta |-> Given({"direction", "emphasis", "role", "tone", "voice", "weight"}),
    TabHeader |-> Put({"label"}) @@ Given({"icon", "disabled"}),
    TableCitation |-> Put({"column", "reference", "row"}) @@ Given({"label"}),
    TrackEntry |-> Put({"kind", "label", "src", "srcLang"}) @@
          Unless("default", Defaults.TRACK_ENTRY_DEFAULT),
    TransformParam |-> Put({"from", "name"}),
    TreeItem |-> Put({"id", "label"}) @@ Given({"icon"}) @@ NonEmpty({"children"}),
    ViewBox |-> Put({"height", "minX", "minY", "width"}) ]

WritesAction ==
  [ Action_Chain |-> Tag("Chain") @@ PutAs("ops", "m0"),
    Action_WriteToClipboard |-> Tag("WriteToClipboard") @@ Put({"text"}),
    Action_Dispatch |-> Tag("Dispatch"),
    Action_Invoke |-> Tag("Invoke") @@ Put({"capabilityId", "args"}),
    Action_ReadFileBody |-> Tag("ReadFileBody") @@ Put({"fileRef", "encoding"}) @@ Mark({"onRead"}),
    Action_Call |-> Tag("Call") @@ Put({"endpoint"}) @@ Given({"onResult", "into"}),
    Action_Navigate |-> Tag("Navigate") @@ Put({"route"}) @@
          Unless("target", Defaults.ACTION_NAVIGATE_TARGET),
    Action_CommitLocal |-> Tag("CommitLocal") @@ Put({"nodeId"}),
    Action_Notify |-> Tag("Notify") @@ Put({"channel", "payload"}),
    Action_SetState |-> Tag("SetState") @@ Put({"key"}) @@ Given({"value", "valueFrom"}),
    Action_AiTool |-> Tag("AiTool") @@ Put({"toolName", "args"}),
    Action_Print |-> Tag("Print"),
    Action_Confirm |-> Tag("Confirm") @@ Put({"prompt", "onConfirm"}) @@ Given({"onCancel"}),
    Action_Focus |-> Tag("Focus") @@ Put({"nodeId"}) ]

WritesBindingToCallResultTarget ==
  [ Binding_Static |-> Tag("Static") @@ encode_static_payload,
    Binding_Query |-> Tag("Query") @@ Put({"name"}) @@ encode_depends_on,
    Binding_Filter |-> Tag("Filter") @@ Put({"name"}) @@ Given({"defaultValue"}),
    Binding_Selection |-> Tag("Selection") @@ Put({"nodeId"}) @@ Given({"defaultValue", "field"}),
    Binding_State |-> Tag("State") @@ Put({"key"}) @@ encode_state_default,
    Binding_Now |-> Tag("Now") @@ Given({"grain"}),
    Binding_Computed |-> Tag("Computed") @@ Mark({"fn"}),
    Binding_Local |-> Tag("Local") @@ Put({"flushOn", "initialFrom"}) @@
          Given({"onCommit", "codec", "commitTo"}) @@ Mark({"format", "parse"}),
    Binding_Format |-> Tag("Format") @@ Put({"source", "format", "locale"}),
    Binding_I18n |-> Tag("I18n") @@ Put({"key"}) @@ Given({"args"}),
    Binding_Transform |-> Tag("Transform") @@ Put({"source", "pipeline"}) @@ encode_binding_params,
    Binding_Expr |-> Tag("Expr") @@ Put({"expr"}) @@ encode_binding_params,
    Binding_Invoke |-> Tag("Invoke") @@ Put({"capabilityId", "args"}),
    BoxLayout_Auto |-> Tag("Auto"),
    BoxLayout_Flex |-> Tag("Flex") @@ Put({"direction"}) @@ Given({"gap"}) @@
          Unless("wrap", Defaults.BOX_LAYOUT_FLEX_WRAP),
    BoxLayout_Grid |-> Tag("Grid") @@ Put({"cols"}) @@ Given({"templateColumns", "gap"}),
    BoxLayout_Masonry |-> Tag("Masonry") @@ Put({"cols"}) @@ Given({"gap"}),
    CallResultTarget_State |-> Tag("State") @@ Put({"key"}),
    CallResultTarget_Query |-> Tag("Query") @@ Put({"name"}) ]

WritesCellFormatToChartAnnotationRange ==
  [ CellFormat_None |-> Tag("None"),
    CellFormat_Number |-> Tag("Number") @@ Given({"decimals", "locale"}),
    CellFormat_Currency |-> Tag("Currency") @@ Put({"code"}) @@ Given({"decimals", "locale"}),
    CellFormat_Percent |-> Tag("Percent") @@ Given({"decimals", "locale"}),
    CellFormat_SignificantDigits |-> Tag("SignificantDigits") @@ Put({"digits"}),
    CellFormat_DateTime |-> Tag("DateTime") @@ Put({"format"}),
    CellFormat_Duration |-> Tag("Duration") @@ Put({"unit", "style"}),
    CellFormat_RelativeTime |-> Tag("RelativeTime") @@ Put({"unit"}),
    CellFormat_Custom |-> Tag("Custom") @@ Mark({"fn"}),
    CellKindErased_Text |-> Tag("Text"),
    CellKindErased_Numeric |-> Tag("Numeric"),
    CellKindErased_Date |-> Tag("Date"),
    CellKindErased_Editable |-> Tag("Editable") @@ Mark({"onEdit"}),
    CellKindErased_Checkbox |-> Tag("Checkbox") @@ Mark({"get", "onToggle"}),
    CellKindErased_Button |-> Tag("Button") @@ Put({"label"}) @@ Mark({"onClick"}),
    CellKindErased_ButtonGroup |-> Tag("ButtonGroup") @@ encode_button_group,
    CellKindErased_Link |-> Tag("Link") @@ Mark({"hrefFn", "labelFn"}),
    CellKindErased_Pill |-> Tag("Pill") @@ Mark({"labelFn", "toneFn"}),
    CellKindErased_TonedPill |-> Tag("TonedPill") @@ Put({"field"}) @@ encode_tone_map @@
          UnlessAs("default", "defaultTone", Defaults.CELL_KIND_ERASED_TONED_PILL_DEFAULT),
    CellKindErased_Progress |-> Tag("Progress") @@ Mark({"fractionFn", "labelFn"}),
    CellKindErased_Custom |-> Tag("Custom") @@ Mark({"fn"}),
    ChartAnnotation_ReferenceLine |-> Tag("ReferenceLine") @@ Put({"value"}) @@ Given({"label"}),
    ChartAnnotation_EventMarker |-> Tag("EventMarker") @@ Put({"at"}) @@ Given({"label"}),
    ChartAnnotation_RangeBand |-> Tag("RangeBand") @@ Put({"range"}) @@ Given({"label"}),
    ChartAnnotationRange_ValueRange |-> Tag("ValueRange") @@ Put({"from", "to"}),
    ChartAnnotationRange_XRange |-> Tag("XRange") @@ Put({"from", "to"}) ]

WritesChartAnnotationXToHoleValueSpace ==
  [ ChartAnnotationX_Category |-> Tag("Category") @@ PutAs("key", "m0"),
    ChartAnnotationX_Date |-> Tag("Date") @@ PutAs("iso", "m0"),
    ColumnWidth_Auto |-> Tag("Auto"),
    ColumnWidth_Fixed |-> Tag("Fixed") @@ Put({"pixels"}),
    ColumnWidth_Flex |-> Tag("Flex") @@ Put({"weight"}),
    CurveCommand_MoveTo |-> Tag("MoveTo") @@ PutAs("to", "m0"),
    CurveCommand_LineTo |-> Tag("LineTo") @@ PutAs("to", "m0"),
    CurveCommand_CubicTo |-> Tag("CubicTo") @@ Put({"control1", "control2", "to"}),
    CurveCommand_QuadraticTo |-> Tag("QuadraticTo") @@ Put({"control", "to"}),
    CurveCommand_Close |-> Tag("Close"),
    Format_Number |-> Tag("Number") @@ Given({"decimals"}),
    Format_Currency |-> Tag("Currency") @@ Put({"isoCode"}) @@ Given({"decimals"}),
    Format_Percent |-> Tag("Percent") @@ Given({"decimals"}),
    Format_DateTime |-> Tag("DateTime") @@ Given({"dateStyle", "timeStyle"}),
    Format_RelativeTime |-> Tag("RelativeTime") @@ Put({"unit"}),
    Format_Duration |-> Tag("Duration") @@ Put({"unit", "style"}),
    Format_Since |-> Tag("Since") @@ Given({"unit"}),
    HoleDecl_Value |-> Tag("Value") @@ Put({"name", "space"}) @@ Given({"default"}),
    HoleDecl_Slot |-> Tag("Slot") @@ Put({"name"}) @@ Given({"kindConstraint"}),
    HoleDecl_Repeat |-> Tag("Repeat") @@ Put({"name", "countSpace"}),
    HoleValueSpace_IntRange |-> Tag("IntRange") @@ Put({"min", "max"}),
    HoleValueSpace_FloatRange |-> Tag("FloatRange") @@ Put({"min", "max"}),
    HoleValueSpace_StringLen |-> Tag("StringLen") @@ Put({"minLen", "maxLen"}),
    HoleValueSpace_Enum |-> Tag("Enum") @@ Put({"choices"}),
    HoleValueSpace_AnyString |-> Tag("AnyString") ]

WritesLocalFlushTriggerToNode ==
  [ LocalFlushTrigger_OnBlur |-> Tag("OnBlur"),
    LocalFlushTrigger_OnSubmit |-> Tag("OnSubmit"),
    LocalFlushTrigger_OnDebounce |-> Tag("OnDebounce") @@ Put({"milliseconds"}),
    LocalFlushTrigger_OnCommitAction |-> Tag("OnCommitAction"),
    LocaleSource_Ambient |-> Tag("Ambient"),
    LocaleSource_Explicit |-> Tag("Explicit") @@ Put({"tag"}),
    MediaKind_Video |-> Tag("Video") @@ Given({"poster"}) @@
          Unless("autoplay", Defaults.MEDIA_KIND_VIDEO_AUTOPLAY),
    MediaKind_Audio |-> Tag("Audio"),
    FragmentScalar_Int |-> Tag("Int") @@ PutAs("value", "m0"),
    FragmentScalar_Float |-> Tag("Float") @@ PutAs("value", "m0"),
    FragmentScalar_Bool |-> Tag("Bool") @@ PutAs("value", "m0"),
    FragmentScalar_Str |-> Tag("Str") @@ PutAs("value", "m0"),
    Shape_Group |-> Tag("Group") @@ Put({"children", "style"}),
    Shape_Rectangle |-> Tag("Rectangle") @@ Put({"x", "y", "width", "height", "style"}) @@
          Given({"cornerRadius"}),
    Shape_Line |-> Tag("Line") @@ Put({"x1", "y1", "x2", "y2", "style"}),
    Shape_Polyline |-> Tag("Polyline") @@ Put({"points", "style"}),
    Shape_Polygon |-> Tag("Polygon") @@ Put({"points", "style"}),
    Shape_Curve |-> Tag("Curve") @@ Put({"commands", "style"}),
    Shape_Circle |-> Tag("Circle") @@ Put({"cx", "cy", "r", "style"}),
    Shape_Ellipse |-> Tag("Ellipse") @@ Put({"cx", "cy", "rx", "ry", "style"}),
    Shape_Label |-> Tag("Label") @@ Put({"x", "y", "text", "style"}),
    TextSource_Bound |-> Tag("Bound") @@ PutAs("binding", "m0"),
    TextSource_I18n |-> Tag("I18n") @@ Put({"key", "args"}),
    Node |-> Put({"id", "kind"}) @@ Given({"accessibility", "fallback", "tooltip", "visible"}) @@
          encode_node_state @@ encode_node_style ]

WritesTreeOp ==
  [ TreeOp_Batch |-> Tag("Batch") @@ PutAs("ops", "m0"),
    TreeOp_EditNode |-> Tag("EditNode") @@ Put({"newKind", "target"}),
    TreeOp_InsertChild |-> Tag("InsertChild") @@ Put({"child", "parentId"}),
    TreeOp_MoveNode |-> Tag("MoveNode") @@ Put({"newParentId", "target"}),
    TreeOp_PatchStyle |-> Tag("PatchStyle") @@ Put({"style", "target"}),
    TreeOp_RemoveNode |-> Tag("RemoveNode") @@ Put({"target"}),
    TreeOp_ReorderChildren |-> Tag("ReorderChildren") @@ Put({"newOrder", "parentId"}),
    TreeOp_ReplaceBinding |-> Tag("ReplaceBinding") @@ Put({"binding", "slot", "target"}),
    TreeOp_ReplaceRoot |-> Tag("ReplaceRoot") @@ Put({"node"}),
    TreeOp_UpdateAccessibility |-> Tag("UpdateAccessibility") @@ Put({"accessibility", "target"}),
    TreeOp_UpdateProp |-> Tag("UpdateProp") @@ Put({"path", "target", "value"}),
    TreeOp_UpdateState |-> Tag("UpdateState") @@ Put({"state", "target"}),
    TreeOp_UpdateStyle |-> Tag("UpdateStyle") @@ Put({"style", "target"}),
    TreeOp_UpdateTooltip |-> Tag("UpdateTooltip") @@ Put({"target"}) @@ Given({"tooltip"}) ]

GeneratedWrites == WritesBadgeToCustom @@ WritesGridToFact @@ WritesFileUploadToLink @@
  WritesListToProgress @@ WritesScrollAreaToTree @@ WritesAccessibilityToEffectClass @@
  WritesFieldRuleToStateBehaviour @@ WritesStaticRowsToViewBox @@ WritesAction @@
  WritesBindingToCallResultTarget @@ WritesCellFormatToChartAnnotationRange @@
  WritesChartAnnotationXToHoleValueSpace @@ WritesLocalFlushTriggerToNode @@ WritesTreeOp


DialectWrites == GeneratedWrites @@ HandWrites @@ form_field_kind @@ ComputeWrites
=============================================================================
