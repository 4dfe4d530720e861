------------------------------ MODULE WireReads ------------------------------
(*
  What the decoder reads. A record or a union case is read member by member, in this order; a
  union is read by the tag of its object.
*)
EXTENDS WireTypes

(* Members the generated readers hand to a reader of their own. *)

decode_chart_source == Also(Req("source", <<"slot", "Rows">>), <<"data">>)
decode_grid_source == Also(Req("source", <<"slot", "Rows">>), <<"data", "rows">>)
decode_exposed_node_ids == Or("exposedNodeIds", <<"list", "string">>, List(<<>>))

PURE_DETERMINISTIC ==
  Record("EffectClass", [hostEffect |-> Str("Pure"), determinism |-> Str("Deterministic")])
decode_fragment_effect == Or("effect", <<"EffectClass">>, PURE_DETERMINISTIC)

decode_fragment_ref_args == Or("args", <<"map", "FragmentArg">>, Object(NoMembers))
decode_mount_inputs == Or("inputs", <<"map", "FragmentArg">>, Object(NoMembers))

\* `Switch.on`: where it is absent `stateKey` names a state and declares no default.
decode_switch_on ==
  Otherwise(Req("on", <<"slot", "Untyped">>), Into(Req("stateKey", <<"stateKey">>), "on"))

ZERO == Record("Binding_Static", [value |-> Holding("Ast", Num(0))])
int_binding_or_zero(key) == Or(key, <<"slot", "Int">>, ZERO)
decode_tabs_active_index == int_binding_or_zero("activeIndex")
decode_stepper_active_step == int_binding_or_zero("activeStep")

decode_aria_role == Opt("role", <<"string">>)
decode_text_label == Req("label", <<"TextSource">>)
decode_toned_pill_map == Also(Req("map", <<"map", "ToneVariant">>), <<"toneMap", "tones">>)
decode_button_group == Into(Req("buttons", <<"list", "button">>), "labels")
decode_grid_cols == Also(Or("cols", <<"int">>, Num(1)), <<"columns">>)

NO_STYLE ==
  Record("DrawStyle", [k \in {"emphasis", "fill", "fontFamily", "fontSize", "markId", "opacity",
    "rotation", "stroke", "strokeWidth", "textAnchor", "tip"} |-> None])
decode_style_or_default == Or("style", <<"DrawStyle">>, NO_STYLE)

decode_text_bound == Into(Req("binding", <<"slot", "Untyped">>), "m0")
decode_text_i18n_args == Or("args", <<"map", "I18nArg">>, Object(NoMembers))
decode_fact_emphasis == Or("emphasis", <<"flag">>, Defaults.FACT_EMPHASIS)
decode_row_emphasis == Or("emphasis", <<"flag">>, Defaults.LABEL_VALUE_ROW_EMPHASIS)
decode_src_set_width == Req("width", <<"pixels">>)

\* Whether a Select must have a value depends on `multiple`, which SelectValue reads.
decode_select_value == Opt("value", <<"slot", "StringOpt">>)

decode_node_id == Req("id", <<"nodeId">>)

NO_STATE == Record("StateBehaviour", [k \in {"onEmpty", "onError", "onLoading"} |-> None])
decode_node_state == Or("state", <<"StateBehaviour">>, NO_STATE)

PLAIN_STYLE ==
  Record("SemanticStyle",
    [direction |-> Defaults.SEMANTIC_STYLE_DIRECTION, emphasis |-> Defaults.SEMANTIC_STYLE_EMPHASIS,
     role |-> Defaults.SEMANTIC_STYLE_ROLE, tone |-> Defaults.SEMANTIC_STYLE_TONE,
     voice |-> Defaults.SEMANTIC_STYLE_VOICE, weight |-> Defaults.SEMANTIC_STYLE_WEIGHT])
decode_node_style == Or("style", <<"SemanticStyle">>, PLAIN_STYLE)

\* A control is read knowing the name it binds itself to when it carries no value.
decode_form_field_control == Req("kind", <<"control", "FormFieldId", "id">>)
decode_filter_control == Req("kind", <<"control", "FilterChip", "name">>)

-----------------------------------------------------------------------------
(* Owners read by hand. *)

decode_set_state == <<Req("key", <<"string">>), Opt("value", <<"json">>), Opt("valueFrom", <<"slot", "Untyped">>)>>

decode_switch_case_folded ==
  <<Otherwise(Into(Req("when", <<"as", "When", "slot", "Bool">>), "condition"),
      Into(Req("match", <<"as", "Match", "string">>), "condition")),
    Req("child", <<"Node">>)>>

decode_filters_kind == <<Req("items", <<"list", "FilterSpec">>)>>

HandReads ==
  [ Action_SetState |-> decode_set_state,
    Action_Print |-> <<>>,
    SwitchCase |-> decode_switch_case_folded,
    FiltersSpec |-> decode_filters_kind,
    FragmentArg_Slot |-> <<Req("tree", <<"Node">>)>> ]

\* A default that is unreadable is no default.
Default(slot) == Opt("defaultValue", <<"lenient", "static", slot>>)
Params == Opt("params", <<"params">>)

\* The cases of a binding, its literal payloads read as the slot's own type.
decode_binding_slot(slot) ==
  [ Binding_Static |-> <<Or("value", <<"static", slot>>, Null)>>,
    Binding_Query |-> <<Req("name", <<"string">>),
          Also(Opt("dependsOn", <<"names">>), <<"deps", "dependencies">>)>>,
    Binding_Filter |-> <<Req("name", <<"string">>), Default(slot)>>,
    Binding_Selection |-> <<Req("nodeId", <<"string">>), Default(slot),
          Opt("field", <<"lenient", "text">>)>>,
    Binding_State |-> <<Req("key", <<"string">>),
          Also(Opt("defaultValue", <<"lenient", "declared", slot>>), <<"initialValue", "default">>)>>,
    Binding_Computed |-> <<>>,
    Binding_Now |-> <<Opt("grain", <<"TimeGrain">>)>>,
    Binding_I18n |-> <<Req("key", <<"string">>), Opt("args", <<"map", "slot", "Untyped">>)>>,
    Binding_Local |-> <<Req("initialFrom", <<"slot", slot>>),
          Or("flushOn", <<"LocalFlushTrigger">>, Record("LocalFlushTrigger_OnBlur", NoMembers)),
          Opt("codec", <<"Format">>), Opt("onCommit", <<"closure">>), Opt("commitTo", <<"string">>)>>,
    Binding_Format |-> <<Req("source", <<"slot", "Untyped">>), Req("format", <<"Format">>),
          Req("locale", <<"LocaleSource">>)>>,
    Binding_Transform |-> <<Req("source", <<"TransformSource">>), Req("pipeline", <<"compute", "list", "TransformStep">>),
          Params>>,
    Binding_Expr |-> <<Req("expr", <<"compute", "ColExpr">>), Params>>,
    Binding_Invoke |-> <<Req("capabilityId", <<"string">>), Req("args", <<"list", "InvokeArg">>)>> ]

-----------------------------------------------------------------------------
(* Controls. *)

\* What an absent `value` stands for, before the control's own name is put to it.
value_or(slot, placeholder) == Or("value", <<"slot", slot>>, Holding("Auto", placeholder))
pair_or(slot, placeholder) == Or("value", <<"pair", slot>>, Holding("Auto", placeholder))

control_value_defaults ==
  [ text |-> Holding("Ast", Str("")),
    number |-> Holding("Ast", Num(0)),
    checkbox |-> Holding("Ast", Bool(FALSE)),
    choice |-> Holding("StringOpt", None),
    range |-> Record("FloatPair", [min |-> Num(0), max |-> Num(0)]),
    date_time |-> Holding("Ast", Str("")),
    date_time_range |-> Record("StringPair", [from |-> Str(""), to |-> Str("")]),
    tokens |-> Holding("StringList", List(<<>>)),
    rating |-> Holding("Ast", Num(0)),
    color |-> Holding("Ast", Str("#000000")) ]

Handler == Opt("onChange", <<"closure">>)
Bounds(type) == <<Opt("min", type), Opt("max", type), Opt("step", <<"float">>), Handler>>
OptionsOf(key) == Req(key, <<"slot", "Options">>)

decode_form_field_kind ==
  LET free(default) == Or("allowFreeText", <<"bool">>, default)
      d == control_value_defaults
  IN
  [ FormFieldKind_Text |-> <<value_or("Str", d.text), Handler>>,
    FormFieldKind_Number |-> <<value_or("Float", d.number), Handler>>,
    FormFieldKind_Checkbox |-> <<value_or("Bool", d.checkbox), Handler>>,
    FormFieldKind_Toggle |-> <<value_or("Bool", d.checkbox), Handler>>,
    FormFieldKind_Choice |-> <<OptionsOf("options"), value_or("StringOpt", d.choice), Handler>>,
    FormFieldKind_Combobox |-> <<OptionsOf("options"), value_or("StringOpt", d.choice),
          free(Defaults.FORM_FIELD_KIND_COMBOBOX_ALLOW_FREE_TEXT), Handler>>,
    FormFieldKind_Range |-> <<pair_or("FloatPair", d.range)>> \o Bounds(<<"float">>),
    FormFieldKind_RangedNumber |-> <<value_or("Float", d.number)>> \o Bounds(<<"float">>),
    FormFieldKind_SegmentedChoice |-> <<OptionsOf("options"),
          Or("orientation", <<"Orientation">>, Defaults.FORM_FIELD_KIND_SEGMENTED_CHOICE_ORIENTATION),
          value_or("StringOpt", d.choice), Handler>>,
    FormFieldKind_TextArea |-> <<Req("rows", <<"int">>), value_or("Str", d.text), Handler>>,
    FormFieldKind_DateTime |-> <<value_or("Str", d.date_time), Req("variant", <<"DateTimeVariant">>)>>
          \o Bounds(<<"string">>),
    FormFieldKind_DateTimeRange |-> <<pair_or("StringPair", d.date_time_range),
          Req("variant", <<"DateTimeVariant">>)>> \o Bounds(<<"string">>),
    FormFieldKind_Tokens |-> <<Opt("suggestions", <<"slot", "Options">>),
          free(Defaults.FORM_FIELD_KIND_TOKENS_ALLOW_FREE_TEXT),
          value_or("StringList", d.tokens), Handler>>,
    FormFieldKind_Rating |-> <<Req("max", <<"int">>), value_or("Float", d.rating),
          Or("allowHalf", <<"bool">>, Defaults.FORM_FIELD_KIND_RATING_ALLOW_HALF), Handler>>,
    FormFieldKind_Color |-> <<value_or("Str", d.color), Handler>> ]

-----------------------------------------------------------------------------
(* The generated readers. *)

ReadsBadgeToErrorBoundary ==
  [ BadgeSpec |-> <<Req("label", <<"TextSource">>),
          Or("variant", <<"BadgeVariant">>, Defaults.BADGE_VARIANT)>>,
    BoxSpec |-> <<Req("children", <<"list", "Node">>),
          Also(Opt("heading", <<"TextSource">>), <<"title">>), Req("layout", <<"BoxLayout">>),
          Req("role", <<"BoxRole">>), Or("keepTogether", <<"bool">>, Defaults.BOX_KEEP_TOGETHER),
          Or("breakBefore", <<"bool">>, Defaults.BOX_BREAK_BEFORE)>>,
    ButtonSpec |-> <<Req("label", <<"TextSource">>), Req("onClick", <<"Action">>),
          Or("variant", <<"ButtonVariant">>, Defaults.BUTTON_VARIANT), Opt("icon", <<"string">>),
          Opt("disabled", <<"slot", "Bool">>), Opt("affordance", <<"Affordance">>)>>,
    CalloutSpec |-> <<Req("body", <<"TextSource">>),
          Or("dismissable", <<"bool">>, Defaults.CALLOUT_DISMISSABLE),
          Or("tone", <<"ToneVariant">>, Defaults.CALLOUT_TONE),
          Also(Opt("heading", <<"TextSource">>), <<"title">>), Opt("icon", <<"string">>)>>,
    ChartSpec |-> <<Req("kind", <<"ChartKind">>), decode_chart_source,
          Or("stacked", <<"bool">>, Defaults.CHART_STACKED), Req("xField", <<"string">>),
          Req("yFields", <<"list", "string">>), Opt("title", <<"TextSource">>),
          Opt("valueFormat", <<"Format">>), Opt("xTitle", <<"TextSource">>),
          Opt("yTitle", <<"TextSource">>), Opt("subtitle", <<"TextSource">>),
          Opt("legendPosition", <<"ChartLegendPosition">>), Opt("dataLabels", <<"ChartDataLabels">>),
          Opt("xScale", <<"ChartXScale">>), Opt("annotations", <<"list", "ChartAnnotation">>),
          Opt("onPointClick", <<"closure">>)>>,
    CodeBlockSpec |-> <<Req("code", <<"string">>),
          Or("copyable", <<"bool">>, Defaults.CODE_BLOCK_COPYABLE),
          Or("highlightLines", <<"list", "int">>, List(<<>>)), Req("language", <<"string">>),
          Or("lineNumbers", <<"bool">>, Defaults.CODE_BLOCK_LINE_NUMBERS)>>,
    CustomSpec |-> <<Req("moduleId", <<"string">>), Req("componentId", <<"string">>),
          Req("props", <<"map", "json">>), Opt("contentHash", <<"ContentHash">>),
          decode_exposed_node_ids>>,
    GridSpec |-> <<Req("columns", <<"list", "ColumnErased">>),
          Or("editable", <<"bool">>, Defaults.DATA_GRID_EDITABLE), Opt("rowKey", <<"closure">>),
          Opt("rowKeyField", <<"string">>), Opt("sortStateKey", <<"string">>),
          Opt("pageSize", <<"int">>), Opt("pageStateKey", <<"string">>),
          Opt("defaultSort", <<"DefaultSort">>), Opt("editStateKey", <<"string">>),
          Or("reorderable", <<"bool">>, Defaults.DATA_GRID_REORDERABLE),
          Opt("transferInKey", <<"string">>), Opt("transferOutKey", <<"string">>),
          Or("keepRowsTogether", <<"bool">>, Defaults.DATA_GRID_KEEP_ROWS_TOGETHER),
          Or("repeatHeader", <<"bool">>, Defaults.DATA_GRID_REPEAT_HEADER),
          Or("exportable", <<"bool">>, Defaults.DATA_GRID_EXPORTABLE),
          Opt("windowStateKey", <<"string">>), Opt("rowTotal", <<"slot", "Int">>), decode_grid_source,
          Opt("staticRows", <<"StaticRows">>), Opt("onRowClick", <<"closure">>)>>,
    DisclosureSpec |-> <<Req("children", <<"list", "Node">>), Req("defaultOpen", <<"bool">>),
          Also(Req("heading", <<"TextSource">>), <<"title">>), Opt("onToggle", <<"closure">>),
          Req("open", <<"slot", "Bool">>)>>,
    DrawingSpec |-> <<Opt("description", <<"TextSource">>), Req("shapes", <<"list", "Shape">>),
          decode_style_or_default, Opt("title", <<"TextSource">>), Req("viewBox", <<"ViewBox">>)>>,
    EmbedSpec |-> <<Or("aspectRatio", <<"ImageAspect">>, Defaults.EMBED_ASPECT_RATIO),
          Or("permissions", <<"list", "EmbedPermission">>, List(<<>>)), Req("src", <<"slot", "Str">>),
          Req("title", <<"TextSource">>)>>,
    ErrorBoundarySpec |-> <<Req("child", <<"Node">>), Req("fallback", <<"Node">>)>> ]

ReadsFactToMath ==
  [ FactSpec |-> <<decode_fact_emphasis, Opt("help", <<"TextSource">>), Opt("icon", <<"string">>),
          Req("label", <<"TextSource">>), Or("tone", <<"ToneVariant">>, Defaults.FACT_TONE),
          Req("value", <<"TextSource">>), Opt("reference", <<"string">>)>>,
    FileUploadSpec |-> <<Req("accept", <<"list", "string">>), Req("label", <<"TextSource">>),
          Or("multiple", <<"bool">>, Defaults.FILE_UPLOAD_MULTIPLE), Opt("onSelect", <<"closure">>),
          Opt("disabled", <<"slot", "Bool">>),
          Or("acceptPaste", <<"bool">>, Defaults.FILE_UPLOAD_ACCEPT_PASTE),
          Or("dropTarget", <<"bool">>, Defaults.FILE_UPLOAD_DROP_TARGET),
          Opt("capture", <<"CaptureSource">>), Opt("destination", <<"string">>),
          Opt("maxBytes", <<"int">>), Opt("maxFiles", <<"int">>)>>,
    FormSpec |-> <<Req("fields", <<"list", "FormField">>), Req("onSubmit", <<"Action">>),
          Req("submitLabel", <<"TextSource">>), Opt("disabled", <<"slot", "Bool">>)>>,
    FragmentDeclSpec |-> <<Req("body", <<"Node">>), Req("name", <<"string">>),
          Or("holes", <<"list", "HoleDecl">>, List(<<>>)), decode_fragment_effect>>,
    FragmentRefSpec |-> <<Req("name", <<"string">>), decode_fragment_ref_args>>,
    HeadingSpec |-> <<Req("level", <<"int">>), Req("text", <<"TextSource">>),
          Or("variant", <<"HeadingVariant">>, Defaults.HEADING_VARIANT)>>,
    IconSpec |-> <<Req("icon", <<"string">>), Or("size", <<"IconSize">>, Defaults.ICON_SIZE),
          Or("tone", <<"ToneVariant">>, Defaults.ICON_TONE), Opt("label", <<"string">>)>>,
    ImageSpec |-> <<Req("alt", <<"TextSource">>), Req("src", <<"slot", "Str">>),
          Or("variant", <<"ImageVariant">>, Defaults.IMAGE_VARIANT),
          Or("fit", <<"ImageFit">>, Defaults.IMAGE_FIT),
          Or("aspectRatio", <<"ImageAspect">>, Defaults.IMAGE_ASPECT_RATIO),
          Or("loading", <<"ImageLoading">>, Defaults.IMAGE_LOADING),
          Or("srcSet", <<"list", "SrcSetEntry">>, List(<<>>)),
          Or("expandable", <<"bool">>, Defaults.IMAGE_EXPANDABLE), Opt("caption", <<"TextSource">>)>>,
    LabelValueRowSpec |-> <<decode_row_emphasis,
          Or("format", <<"CellFormat">>, Defaults.LABEL_VALUE_ROW_FORMAT),
          Req("label", <<"TextSource">>), Also(Req("value", <<"slot", "Float">>), <<"data">>),
          Opt("help", <<"TextSource">>)>>,
    LinkSpec |-> <<Req("href", <<"slot", "Str">>), Req("label", <<"TextSource">>),
          Or("download", <<"bool">>, Defaults.LINK_DOWNLOAD), Opt("rel", <<"string">>),
          Opt("target", <<"string">>), Opt("protection", <<"LinkProtection">>)>>,
    ListSpec |-> <<Req("items", <<"list", "TextSource">>),
          Or("ordered", <<"bool">>, Defaults.LIST_ORDERED)>>,
    MapSpec |-> <<Req("centreLatitude", <<"float">>), Req("centreLongitude", <<"float">>),
          Also(Req("source", <<"slot", "Markers">>), <<"data", "markers">>), Req("zoom", <<"int">>),
          Opt("onMarkerClick", <<"closure">>)>>,
    MarkdownSpec |-> <<Or("citations", <<"list", "MarkdownCitation">>, List(<<>>)),
          Req("text", <<"TextSource">>)>>,
    MathSpec |-> <<Req("source", <<"string">>), Req("display", <<"MathDisplay">>)>> ]

ReadsMediaToTabs ==
  [ MediaSpec |-> <<Or("controls", <<"bool">>, Defaults.MEDIA_CONTROLS), Req("kind", <<"MediaKind">>),
          Req("label", <<"TextSource">>), Or("loop", <<"bool">>, Defaults.MEDIA_LOOP),
          Req("src", <<"slot", "Str">>), Or("tracks", <<"list", "TrackEntry">>, List(<<>>)),
          Opt("transcript", <<"TextSource">>)>>,
    MetricSpec |-> <<Req("label", <<"TextSource">>),
          Also(Req("value", <<"slot", "Float">>), <<"data">>),
          Or("format", <<"CellFormat">>, Defaults.METRIC_FORMAT),
          Or("tone", <<"ToneVariant">>, Defaults.METRIC_TONE),
          Or("weight", <<"StyleWeight">>, Defaults.METRIC_WEIGHT),
          Or("emphasis", <<"Emphasis">>, Defaults.METRIC_EMPHASIS), Opt("trend", <<"slot", "Float">>),
          Opt("trendFormat", <<"CellFormat">>),
          Or("trendPolarity", <<"TrendPolarity">>, Defaults.METRIC_TREND_POLARITY),
          Or("comparisons", <<"list", "MetricComparison">>, List(<<>>)), Opt("icon", <<"string">>),
          Opt("subtext", <<"TextSource">>)>>,
    ModalSpec |-> <<Req("children", <<"list", "Node">>),
          Or("dismissable", <<"bool">>, Defaults.MODAL_DISMISSABLE), Opt("onDismiss", <<"Action">>),
          Req("open", <<"slot", "Bool">>), Also(Opt("heading", <<"TextSource">>), <<"title">>),
          Or("modality", <<"ModalityKind">>, Defaults.MODAL_MODALITY), Opt("anchor", <<"string">>)>>,
    MountSpec |-> <<Req("capabilities", <<"list", "string">>), Req("channel", <<"MountChannel">>),
          decode_mount_inputs, Req("scopeId", <<"string">>)>>,
    ProgressSpec |-> <<Req("fraction", <<"slot", "Float">>),
          Or("indeterminate", <<"bool">>, Defaults.PROGRESS_INDETERMINATE),
          Or("tone", <<"ToneVariant">>, Defaults.PROGRESS_TONE), Opt("label", <<"TextSource">>),
          Opt("caveat", <<"TextSource">>)>>,
    ScrollAreaSpec |-> <<Req("children", <<"list", "Node">>),
          Req("orientation", <<"ScrollOrientation">>), Opt("maxHeight", <<"int">>),
          Opt("maxWidth", <<"int">>)>>,
    SelectSpec |-> <<Req("label", <<"TextSource">>), Opt("onChange", <<"closure">>),
          Opt("onChangeMulti", <<"closure">>),
          Also(Req("source", <<"slot", "Options">>), <<"options", "data">>), decode_select_value,
          Opt("placeholder", <<"TextSource">>), Opt("disabled", <<"slot", "Bool">>),
          Opt("multiple", <<"bool">>), Opt("values", <<"slot", "StringList">>),
          Opt("affordance", <<"Affordance">>),
          Or("groups", <<"list", "SelectOptionGroup">>, List(<<>>))>>,
    SkeletonSpec |-> <<Req("rows", <<"int">>)>>,
    SparklineSpec |-> <<Also(Req("source", <<"slot", "FloatSeq">>), <<"data">>)>>,
    SplitPanelSpec |-> <<Req("children", <<"list", "Node">>), Req("weight", <<"float">>)>>,
    StepperSpec |-> <<decode_stepper_active_step, Req("children", <<"list", "Node">>),
          Opt("onSelect", <<"closure">>)>>,
    SummaryListSpec |-> <<Req("children", <<"list", "Node">>),
          Also(Opt("heading", <<"TextSource">>), <<"title">>)>>,
    SwitchSpec |-> <<Opt("autoAdvanceMs", <<"int">>), Req("cases", <<"list", "SwitchCase">>),
          Req("default", <<"Node">>), decode_switch_on>>,
    TabsSpec |-> <<decode_tabs_active_index, Req("children", <<"list", "Node">>),
          Or("orientation", <<"Orientation">>, Defaults.TABS_ORIENTATION),
          Opt("onSelect", <<"closure">>), Opt("onSelectTag", <<"closure">>),
          Opt("tabHeaders", <<"list", "TabHeader">>), Opt("tabTags", <<"list", "string">>),
          Opt("activeTag", <<"slot", "Str">>)>> ]

ReadsToastToNodeKind ==
  [ ToastSpec |-> <<Or("dismissable", <<"bool">>, Defaults.TOAST_DISMISSABLE),
          Req("message", <<"TextSource">>), Req("open", <<"slot", "Bool">>),
          Or("tone", <<"ToneVariant">>, Defaults.TOAST_TONE)>>,
    TreeSpec |-> <<Opt("expandedStateKey", <<"string">>), Req("items", <<"list", "TreeItem">>),
          Opt("onSelect", <<"closure">>), Opt("selectionStateKey", <<"string">>)>>,
    NodeKind |-> [Badge |-> "BadgeSpec", Box |-> "BoxSpec", Button |-> "ButtonSpec",
          Callout |-> "CalloutSpec", Chart |-> "ChartSpec", CodeBlock |-> "CodeBlockSpec",
          Custom |-> "CustomSpec", DataGrid |-> "GridSpec", Disclosure |-> "DisclosureSpec",
          Drawing |-> "DrawingSpec", Embed |-> "EmbedSpec", ErrorBoundary |-> "ErrorBoundarySpec",
          Fact |-> "FactSpec", FileUpload |-> "FileUploadSpec", Filters |-> "FiltersSpec",
          Form |-> "FormSpec", FragmentDecl |-> "FragmentDeclSpec", FragmentRef |-> "FragmentRefSpec",
          Heading |-> "HeadingSpec", Icon |-> "IconSpec", Image |-> "ImageSpec",
          LabelValueRow |-> "LabelValueRowSpec", Link |-> "LinkSpec", List |-> "ListSpec",
          Map |-> "MapSpec", Markdown |-> "MarkdownSpec", Math |-> "MathSpec", Media |-> "MediaSpec",
          Metric |-> "MetricSpec", Modal |-> "ModalSpec", Mount |-> "MountSpec",
          Progress |-> "ProgressSpec", ScrollArea |-> "ScrollAreaSpec", Select |-> "SelectSpec",
          Skeleton |-> "SkeletonSpec", Sparkline |-> "SparklineSpec", SplitPanel |-> "SplitPanelSpec",
          Stepper |-> "StepperSpec", SummaryList |-> "SummaryListSpec", Switch |-> "SwitchSpec",
          Tabs |-> "TabsSpec", Toast |-> "ToastSpec", Tree |-> "TreeSpec"] ]

ReadsAccessibilityToInvokeArg ==
  [ Accessibility |-> <<Opt("describedBy", <<"string">>), Opt("hidden", <<"slot", "Bool">>),
          Opt("label", <<"slot", "Str">>), Opt("labelledBy", <<"string">>),
          Opt("liveRegion", <<"LiveRegionKind">>), decode_aria_role, Opt("speak", <<"TextSource">>)>>,
    Affordance |-> <<Or("patterns", <<"list", "string">>, List(<<>>)),
          Or("readPatterns", <<"list", "string">>, List(<<>>)),
          Or("aliases", <<"list", "AffordanceAlias">>, List(<<>>)), Opt("description", <<"string">>),
          Or("clearable", <<"bool">>, Defaults.AFFORDANCE_CLEARABLE),
          Or("neverControllable", <<"bool">>, Defaults.AFFORDANCE_NEVER_CONTROLLABLE)>>,
    AffordanceAlias |-> <<Req("alias", <<"string">>), Req("value", <<"string">>)>>,
    ColumnErased |-> <<Opt("field", <<"string">>), Opt("sortable", <<"bool">>),
          Opt("editable", <<"bool">>), Or("format", <<"CellFormat">>, Defaults.COLUMN_ERASED_FORMAT),
          Also(Req("kind", <<"CellKindErased">>), <<"type">>),
          Also(Req("label", <<"string">>), <<"header", "title">>), Opt("value", <<"closure">>),
          Or("width", <<"ColumnWidth">>, Defaults.COLUMN_ERASED_WIDTH)>>,
    CompareRule |-> <<Req("against", <<"slot", "Untyped">>), Req("op", <<"CompareOp">>)>>,
    ContentHash |-> <<Req("algorithm", <<"string">>), Req("hash", <<"string">>),
          Req("strictness", <<"HashStrictness">>)>>,
    DefaultSort |-> <<Req("column", <<"int">>), Req("direction", <<"SortDirection">>)>>,
    DrawPoint |-> <<Req("x", <<"float">>), Req("y", <<"float">>)>>,
    DrawStyle |-> <<Opt("emphasis", <<"Emphasis">>), Opt("fill", <<"slot", "Str">>),
          Opt("fontFamily", <<"string">>), Opt("fontSize", <<"float">>), Opt("markId", <<"string">>),
          Opt("opacity", <<"slot", "Float">>), Opt("rotation", <<"float">>),
          Opt("stroke", <<"slot", "Str">>), Opt("strokeWidth", <<"slot", "Float">>),
          Opt("textAnchor", <<"TextAnchor">>), Opt("tip", <<"TextSource">>)>>,
    EffectClass |-> <<Req("determinism", <<"DeterminismSource">>), Req("hostEffect", <<"HostEffect">>)>>,
    FieldRule |-> <<Opt("compare", <<"CompareRule">>), Opt("format", <<"TextFormat">>),
          Opt("maxLength", <<"int">>), Opt("message", <<"TextSource">>), Opt("minLength", <<"int">>),
          Opt("pattern", <<"string">>)>>,
    FilterSpec |-> <<decode_filter_control, Req("label", <<"TextSource">>), Req("name", <<"string">>)>>,
    FormField |-> <<Also(Req("id", <<"string">>), <<"name">>), decode_form_field_control,
          Req("label", <<"TextSource">>), Or("required", <<"bool">>, Defaults.FORM_FIELD_REQUIRED),
          Opt("help", <<"TextSource">>), Opt("rule", <<"FieldRule">>),
          Opt("affordance", <<"Affordance">>)>>,
    MountChannel |-> <<Req("direction", <<"ChannelDirection">>), Opt("messageShape", <<"string">>)>>,
    InvokeArg |-> <<Req("addr", <<"string">>), Req("value", <<"string">>)>> ]

ReadsMapMarkerToViewBox ==
  [ MapMarker |-> <<decode_text_label, Req("latitude", <<"float">>), Req("longitude", <<"float">>)>>,
    MarkdownCitation |-> <<Opt("label", <<"TextSource">>), Req("name", <<"string">>),
          Req("reference", <<"string">>)>>,
    MetricComparison |-> <<Req("label", <<"TextSource">>), Req("value", <<"slot", "Float">>),
          Or("format", <<"CellFormat">>, Defaults.METRIC_COMPARISON_FORMAT),
          Or("polarity", <<"TrendPolarity">>, Defaults.METRIC_COMPARISON_POLARITY)>>,
    SelectOption |-> <<decode_text_label, Req("value", <<"string">>)>>,
    SelectOptionGroup |-> <<Req("label", <<"string">>), Req("values", <<"list", "string">>)>>,
    SemanticStyle |-> <<Or("direction", <<"TextDirection">>, Defaults.SEMANTIC_STYLE_DIRECTION),
          Or("emphasis", <<"Emphasis">>, Defaults.SEMANTIC_STYLE_EMPHASIS),
          Or("role", <<"StyleRole">>, Defaults.SEMANTIC_STYLE_ROLE),
          Or("tone", <<"ToneVariant">>, Defaults.SEMANTIC_STYLE_TONE),
          Or("voice", <<"FontVoice">>, Defaults.SEMANTIC_STYLE_VOICE),
          Or("weight", <<"StyleWeight">>, Defaults.SEMANTIC_STYLE_WEIGHT)>>,
    SrcSetEntry |-> <<Req("src", <<"slot", "Str">>), decode_src_set_width>>,
    StateBehaviour |-> <<Opt("onEmpty", <<"Node">>), Opt("onError", <<"closure">>),
          Opt("onLoading", <<"Node">>)>>,
    StaticRows |-> <<Or("citations", <<"list", "TableCitation">>, List(<<>>)),
          Opt("defaultSort", <<"DefaultSort">>), Req("headers", <<"list", "TextSource">>),
          Req("rows", <<"list", "list", "TextSource">>), Opt("sortable", <<"bool">>)>>,
    StyleDelta |-> <<Opt("direction", <<"TextDirection">>), Opt("emphasis", <<"Emphasis">>),
          Opt("role", <<"StyleRole">>), Opt("tone", <<"ToneVariant">>), Opt("voice", <<"FontVoice">>),
          Opt("weight", <<"StyleWeight">>)>>,
    TabHeader |-> <<Req("label", <<"TextSource">>), Opt("icon", <<"string">>),
          Opt("disabled", <<"slot", "Bool">>)>>,
    TableCitation |-> <<Req("column", <<"int">>), Opt("label", <<"TextSource">>),
          Req("reference", <<"string">>), Req("row", <<"int">>)>>,
    TrackEntry |-> <<Or("default", <<"bool">>, Defaults.TRACK_ENTRY_DEFAULT),
          Req("kind", <<"TrackKind">>), Req("label", <<"TextSource">>), Req("src", <<"slot", "Str">>),
          Req("srcLang", <<"string">>)>>,
    TransformParam |-> <<Req("from", <<"slot", "Untyped">>), Req("name", <<"string">>)>>,
    TreeItem |-> <<Or("children", <<"list", "TreeItem">>, List(<<>>)), Opt("icon", <<"string">>),
          Req("id", <<"string">>), Req("label", <<"TextSource">>)>>,
    ViewBox |-> <<Req("height", <<"float">>), Req("minX", <<"float">>), Req("minY", <<"float">>),
          Req("width", <<"float">>)>> ]

ReadsActionToActionFocus ==
  [ Action |-> [Chain |-> "Action_Chain", WriteToClipboard |-> "Action_WriteToClipboard",
          Dispatch |-> "Action_Dispatch", Invoke |-> "Action_Invoke",
          ReadFileBody |-> "Action_ReadFileBody", Call |-> "Action_Call",
          Navigate |-> "Action_Navigate", CommitLocal |-> "Action_CommitLocal",
          Notify |-> "Action_Notify", SetState |-> "Action_SetState", AiTool |-> "Action_AiTool",
          Confirm |-> "Action_Confirm", Focus |-> "Action_Focus"] @@ ("Print" :> "Action_Print"),
    Action_Chain |-> <<Into(Req("ops", <<"list", "Action">>), "m0")>>,
    Action_WriteToClipboard |-> <<Req("text", <<"TextSource">>)>>,
    Action_Dispatch |-> <<>>,
    Action_Invoke |-> <<Req("capabilityId", <<"string">>), Req("args", <<"list", "InvokeArg">>)>>,
    Action_ReadFileBody |-> <<Req("fileRef", <<"string">>), Req("encoding", <<"FileReadEncoding">>)>>,
    Action_Call |-> <<Also(Req("endpoint", <<"string">>), <<"url">>), Opt("onResult", <<"closure">>),
          Opt("into", <<"CallResultTarget">>)>>,
    Action_Navigate |-> <<Also(Req("route", <<"TextSource">>), <<"href", "url", "to">>),
          Or("target", <<"NavigateTarget">>, Defaults.ACTION_NAVIGATE_TARGET)>>,
    Action_CommitLocal |-> <<Req("nodeId", <<"string">>)>>,
    Action_Notify |-> <<Req("channel", <<"string">>), Req("payload", <<"json">>)>>,
    Action_AiTool |-> <<Req("toolName", <<"string">>), Req("args", <<"json">>)>>,
    Action_Confirm |-> <<Req("prompt", <<"TextSource">>), Req("onConfirm", <<"Action">>),
          Opt("onCancel", <<"Action">>)>>,
    Action_Focus |-> <<Req("nodeId", <<"string">>)>> ]

ReadsBoxLayoutToCellKindErased ==
  [ BoxLayout |-> [Auto |-> "BoxLayout_Auto", Flex |-> "BoxLayout_Flex", Grid |-> "BoxLayout_Grid",
          Masonry |-> "BoxLayout_Masonry"],
    BoxLayout_Auto |-> <<>>,
    BoxLayout_Flex |-> <<Req("direction", <<"Orientation">>),
          Or("wrap", <<"bool">>, Defaults.BOX_LAYOUT_FLEX_WRAP), Opt("gap", <<"int">>)>>,
    BoxLayout_Grid |-> <<decode_grid_cols, Opt("templateColumns", <<"string">>), Opt("gap", <<"int">>)>>,
    BoxLayout_Masonry |-> <<Also(Req("cols", <<"int">>), <<"columns">>), Opt("gap", <<"int">>)>>,
    CallResultTarget |-> [State |-> "CallResultTarget_State", Query |-> "CallResultTarget_Query"],
    CallResultTarget_State |-> <<Req("key", <<"string">>)>>,
    CallResultTarget_Query |-> <<Req("name", <<"string">>)>>,
    CellFormat |-> [None |-> "CellFormat_None", Number |-> "CellFormat_Number",
          Currency |-> "CellFormat_Currency", Percent |-> "CellFormat_Percent",
          SignificantDigits |-> "CellFormat_SignificantDigits", DateTime |-> "CellFormat_DateTime",
          Duration |-> "CellFormat_Duration", RelativeTime |-> "CellFormat_RelativeTime",
          Custom |-> "CellFormat_Custom"],
    CellFormat_None |-> <<>>,
    CellFormat_Number |-> <<Opt("decimals", <<"int">>), Opt("locale", <<"LocaleSource">>)>>,
    CellFormat_Currency |-> <<Req("code", <<"string">>), Opt("decimals", <<"int">>),
          Opt("locale", <<"LocaleSource">>)>>,
    CellFormat_Percent |-> <<Opt("decimals", <<"int">>), Opt("locale", <<"LocaleSource">>)>>,
    CellFormat_SignificantDigits |-> <<Req("digits", <<"int">>)>>,
    CellFormat_DateTime |-> <<Req("format", <<"string">>)>>,
    CellFormat_Duration |-> <<Req("unit", <<"DurationUnit">>), Req("style", <<"DurationStyle">>)>>,
    CellFormat_RelativeTime |-> <<Req("unit", <<"RelativeTimeUnit">>)>>,
    CellFormat_Custom |-> <<>>,
    CellKindErased |-> [Text |-> "CellKindErased_Text", Numeric |-> "CellKindErased_Numeric",
          Date |-> "CellKindErased_Date", Editable |-> "CellKindErased_Editable",
          Checkbox |-> "CellKindErased_Checkbox", Button |-> "CellKindErased_Button",
          ButtonGroup |-> "CellKindErased_ButtonGroup", Link |-> "CellKindErased_Link",
          Pill |-> "CellKindErased_Pill", TonedPill |-> "CellKindErased_TonedPill",
          Progress |-> "CellKindErased_Progress", Custom |-> "CellKindErased_Custom"] ]

ReadsCellKindErasedTextToColumnWidthAuto ==
  [ CellKindErased_Text |-> <<>>,
    CellKindErased_Numeric |-> <<>>,
    CellKindErased_Date |-> <<>>,
    CellKindErased_Editable |-> <<>>,
    CellKindErased_Checkbox |-> <<>>,
    CellKindErased_Button |-> <<Req("label", <<"TextSource">>)>>,
    CellKindErased_ButtonGroup |-> <<decode_button_group>>,
    CellKindErased_Link |-> <<>>,
    CellKindErased_Pill |-> <<>>,
    CellKindErased_TonedPill |-> <<Req("field", <<"string">>), decode_toned_pill_map,
          Into(Or("default", <<"ToneVariant">>, Defaults.CELL_KIND_ERASED_TONED_PILL_DEFAULT), "defaultTone")>>,
    CellKindErased_Progress |-> <<>>,
    CellKindErased_Custom |-> <<>>,
    ChartAnnotation |-> [ReferenceLine |-> "ChartAnnotation_ReferenceLine",
          EventMarker |-> "ChartAnnotation_EventMarker", RangeBand |-> "ChartAnnotation_RangeBand"],
    ChartAnnotation_ReferenceLine |-> <<Req("value", <<"float">>), Opt("label", <<"TextSource">>)>>,
    ChartAnnotation_EventMarker |-> <<Req("at", <<"ChartAnnotationX">>),
          Opt("label", <<"TextSource">>)>>,
    ChartAnnotation_RangeBand |-> <<Req("range", <<"ChartAnnotationRange">>),
          Opt("label", <<"TextSource">>)>>,
    ChartAnnotationRange |-> [ValueRange |-> "ChartAnnotationRange_ValueRange",
          XRange |-> "ChartAnnotationRange_XRange"],
    ChartAnnotationRange_ValueRange |-> <<Req("from", <<"float">>), Req("to", <<"float">>)>>,
    ChartAnnotationRange_XRange |-> <<Req("from", <<"ChartAnnotationX">>),
          Req("to", <<"ChartAnnotationX">>)>>,
    ChartAnnotationX |-> [Category |-> "ChartAnnotationX_Category", Date |-> "ChartAnnotationX_Date"],
    ChartAnnotationX_Category |-> <<Into(Req("key", <<"string">>), "m0")>>,
    ChartAnnotationX_Date |-> <<Into(Req("iso", <<"string">>), "m0")>>,
    ColumnWidth |-> [Auto |-> "ColumnWidth_Auto", Fixed |-> "ColumnWidth_Fixed",
          Flex |-> "ColumnWidth_Flex"],
    ColumnWidth_Auto |-> <<>> ]

ReadsColumnWidthFixedToCurveCommandClose ==
  [ ColumnWidth_Fixed |-> <<Req("pixels", <<"int">>)>>,
    ColumnWidth_Flex |-> <<Req("weight", <<"float">>)>>,
    CurveCommand |-> [MoveTo |-> "CurveCommand_MoveTo", LineTo |-> "CurveCommand_LineTo",
          CubicTo |-> "CurveCommand_CubicTo", QuadraticTo |-> "CurveCommand_QuadraticTo",
          Close |-> "CurveCommand_Close"],
    CurveCommand_MoveTo |-> <<Into(Req("to", <<"DrawPoint">>), "m0")>>,
    CurveCommand_LineTo |-> <<Into(Req("to", <<"DrawPoint">>), "m0")>>,
    CurveCommand_CubicTo |-> <<Req("control1", <<"DrawPoint">>), Req("control2", <<"DrawPoint">>),
          Req("to", <<"DrawPoint">>)>>,
    CurveCommand_QuadraticTo |-> <<Req("control", <<"DrawPoint">>), Req("to", <<"DrawPoint">>)>>,
    CurveCommand_Close |-> <<>> ]

ReadsFormatToLocalFlushTriggerOnDebounce ==
  [ Format |-> [Number |-> "Format_Number", Currency |-> "Format_Currency",
          Percent |-> "Format_Percent", DateTime |-> "Format_DateTime",
          RelativeTime |-> "Format_RelativeTime", Duration |-> "Format_Duration",
          Since |-> "Format_Since"],
    Format_Number |-> <<Opt("decimals", <<"int">>)>>,
    Format_Currency |-> <<Req("isoCode", <<"string">>), Opt("decimals", <<"int">>)>>,
    Format_Percent |-> <<Opt("decimals", <<"int">>)>>,
    Format_DateTime |-> <<Opt("dateStyle", <<"DateStyle">>), Opt("timeStyle", <<"TimeStyle">>)>>,
    Format_RelativeTime |-> <<Req("unit", <<"RelativeTimeUnit">>)>>,
    Format_Duration |-> <<Req("unit", <<"DurationUnit">>), Req("style", <<"DurationStyle">>)>>,
    Format_Since |-> <<Opt("unit", <<"RelativeTimeUnit">>)>>,
    HoleDecl |-> [Value |-> "HoleDecl_Value", Slot |-> "HoleDecl_Slot", Repeat |-> "HoleDecl_Repeat"],
    HoleDecl_Value |-> <<Req("name", <<"string">>), Req("space", <<"HoleValueSpace">>),
          Opt("default", <<"FragmentScalar">>)>>,
    HoleDecl_Slot |-> <<Req("name", <<"string">>), Opt("kindConstraint", <<"string">>)>>,
    HoleDecl_Repeat |-> <<Req("name", <<"string">>), Req("countSpace", <<"HoleValueSpace">>)>>,
    HoleValueSpace |-> [IntRange |-> "HoleValueSpace_IntRange",
          FloatRange |-> "HoleValueSpace_FloatRange", StringLen |-> "HoleValueSpace_StringLen",
          Enum |-> "HoleValueSpace_Enum", AnyString |-> "HoleValueSpace_AnyString"],
    HoleValueSpace_IntRange |-> <<Req("min", <<"int">>), Req("max", <<"int">>)>>,
    HoleValueSpace_FloatRange |-> <<Req("min", <<"float">>), Req("max", <<"float">>)>>,
    HoleValueSpace_StringLen |-> <<Req("minLen", <<"int">>), Req("maxLen", <<"int">>)>>,
    HoleValueSpace_Enum |-> <<Req("choices", <<"list", "string">>)>>,
    HoleValueSpace_AnyString |-> <<>>,
    LocalFlushTrigger |-> [OnBlur |-> "LocalFlushTrigger_OnBlur",
          OnSubmit |-> "LocalFlushTrigger_OnSubmit", OnDebounce |-> "LocalFlushTrigger_OnDebounce",
          OnCommitAction |-> "LocalFlushTrigger_OnCommitAction"],
    LocalFlushTrigger_OnBlur |-> <<>>,
    LocalFlushTrigger_OnSubmit |-> <<>>,
    LocalFlushTrigger_OnDebounce |-> <<Req("milliseconds", <<"int">>)>> ]

ReadsLocalFlushTriggerOnCommitActionToShapeCircle ==
  [ LocalFlushTrigger_OnCommitAction |-> <<>>,
    LocaleSource |-> [Ambient |-> "LocaleSource_Ambient", Explicit |-> "LocaleSource_Explicit"],
    LocaleSource_Ambient |-> <<>>,
    LocaleSource_Explicit |-> <<Req("tag", <<"string">>)>>,
    MediaKind |-> [Video |-> "MediaKind_Video", Audio |-> "MediaKind_Audio"],
    MediaKind_Video |-> <<Or("autoplay", <<"bool">>, Defaults.MEDIA_KIND_VIDEO_AUTOPLAY),
          Opt("poster", <<"slot", "Str">>)>>,
    MediaKind_Audio |-> <<>>,
    FragmentScalar |-> [Int |-> "FragmentScalar_Int", Float |-> "FragmentScalar_Float",
          Bool |-> "FragmentScalar_Bool", Str |-> "FragmentScalar_Str"],
    FragmentScalar_Int |-> <<Into(Req("value", <<"int">>), "m0")>>,
    FragmentScalar_Float |-> <<Into(Req("value", <<"float">>), "m0")>>,
    FragmentScalar_Bool |-> <<Into(Req("value", <<"bool">>), "m0")>>,
    FragmentScalar_Str |-> <<Into(Req("value", <<"string">>), "m0")>>,
    Shape |-> [Group |-> "Shape_Group", Rectangle |-> "Shape_Rectangle", Line |-> "Shape_Line",
          Polyline |-> "Shape_Polyline", Polygon |-> "Shape_Polygon", Curve |-> "Shape_Curve",
          Circle |-> "Shape_Circle", Ellipse |-> "Shape_Ellipse", Label |-> "Shape_Label"],
    Shape_Group |-> <<Req("children", <<"list", "Shape">>), decode_style_or_default>>,
    Shape_Rectangle |-> <<Req("x", <<"float">>), Req("y", <<"float">>), Req("width", <<"float">>),
          Req("height", <<"float">>), Opt("cornerRadius", <<"float">>), decode_style_or_default>>,
    Shape_Line |-> <<Req("x1", <<"float">>), Req("y1", <<"float">>), Req("x2", <<"float">>),
          Req("y2", <<"float">>), decode_style_or_default>>,
    Shape_Polyline |-> <<Req("points", <<"list", "DrawPoint">>), decode_style_or_default>>,
    Shape_Polygon |-> <<Req("points", <<"list", "DrawPoint">>), decode_style_or_default>>,
    Shape_Curve |-> <<Req("commands", <<"list", "CurveCommand">>), decode_style_or_default>>,
    Shape_Circle |-> <<Req("cx", <<"float">>), Req("cy", <<"float">>), Req("r", <<"float">>),
          decode_style_or_default>> ]

ReadsShapeEllipseToTreeOpUpdateProp ==
  [ Shape_Ellipse |-> <<Req("cx", <<"float">>), Req("cy", <<"float">>), Req("rx", <<"float">>),
          Req("ry", <<"float">>), decode_style_or_default>>,
    Shape_Label |-> <<Req("x", <<"float">>), Req("y", <<"float">>), Req("text", <<"TextSource">>),
          decode_style_or_default>>,
    TextSource |-> [Literal |-> "TextSource_Literal", Bound |-> "TextSource_Bound",
          I18n |-> "TextSource_I18n"],
    TextSource_Literal |-> <<Into(Req("text", <<"string">>), "m0")>>,
    TextSource_Bound |-> <<decode_text_bound>>,
    TextSource_I18n |-> <<Req("key", <<"string">>), decode_text_i18n_args>>,
    Node |-> <<decode_node_id, Req("kind", <<"NodeKind">>), Opt("accessibility", <<"Accessibility">>),
          Opt("fallback", <<"Node">>), decode_node_state, decode_node_style,
          Opt("tooltip", <<"TextSource">>), Opt("visible", <<"slot", "Bool">>)>>,
    TreeOp |-> [Batch |-> "TreeOp_Batch", EditNode |-> "TreeOp_EditNode",
          InsertChild |-> "TreeOp_InsertChild", MoveNode |-> "TreeOp_MoveNode",
          PatchStyle |-> "TreeOp_PatchStyle", RemoveNode |-> "TreeOp_RemoveNode",
          ReorderChildren |-> "TreeOp_ReorderChildren", ReplaceBinding |-> "TreeOp_ReplaceBinding",
          ReplaceRoot |-> "TreeOp_ReplaceRoot", UpdateAccessibility |-> "TreeOp_UpdateAccessibility",
          UpdateProp |-> "TreeOp_UpdateProp", UpdateState |-> "TreeOp_UpdateState",
          UpdateStyle |-> "TreeOp_UpdateStyle", UpdateTooltip |-> "TreeOp_UpdateTooltip"],
    TreeOp_Batch |-> <<Into(Req("ops", <<"list", "TreeOp">>), "m0")>>,
    TreeOp_EditNode |-> <<Req("newKind", <<"NodeKind">>), Req("target", <<"string">>)>>,
    TreeOp_InsertChild |-> <<Req("child", <<"Node">>), Req("parentId", <<"string">>)>>,
    TreeOp_MoveNode |-> <<Req("newParentId", <<"string">>), Req("target", <<"string">>)>>,
    TreeOp_PatchStyle |-> <<Req("style", <<"StyleDelta">>), Req("target", <<"string">>)>>,
    TreeOp_RemoveNode |-> <<Req("target", <<"string">>)>>,
    TreeOp_ReorderChildren |-> <<Req("newOrder", <<"list", "string">>), Req("parentId", <<"string">>)>>,
    TreeOp_ReplaceBinding |-> <<Req("binding", <<"slot", "Untyped">>), Req("slot", <<"string">>),
          Req("target", <<"string">>)>>,
    TreeOp_ReplaceRoot |-> <<Req("node", <<"Node">>)>>,
    TreeOp_UpdateAccessibility |-> <<Req("accessibility", <<"Accessibility">>),
          Req("target", <<"string">>)>>,
    TreeOp_UpdateProp |-> <<Req("path", <<"string">>), Req("target", <<"string">>),
          Req("value", <<"json">>)>> ]

ReadsTreeOpUpdateStateToTreeOpUpdateTooltip ==
  [ TreeOp_UpdateState |-> <<Req("state", <<"StateBehaviour">>), Req("target", <<"string">>)>>,
    TreeOp_UpdateStyle |-> <<Req("style", <<"SemanticStyle">>), Req("target", <<"string">>)>>,
    TreeOp_UpdateTooltip |-> <<Req("target", <<"string">>), Opt("tooltip", <<"TextSource">>)>> ]

GeneratedReads == ReadsBadgeToErrorBoundary @@ ReadsFactToMath @@ ReadsMediaToTabs @@
  ReadsToastToNodeKind @@ ReadsAccessibilityToInvokeArg @@ ReadsMapMarkerToViewBox @@
  ReadsActionToActionFocus @@ ReadsBoxLayoutToCellKindErased @@
  ReadsCellKindErasedTextToColumnWidthAuto @@ ReadsColumnWidthFixedToCurveCommandClose @@
  ReadsFormatToLocalFlushTriggerOnDebounce @@ ReadsLocalFlushTriggerOnCommitActionToShapeCircle @@
  ReadsShapeEllipseToTreeOpUpdateProp @@ ReadsTreeOpUpdateStateToTreeOpUpdateTooltip


DialectReads == GeneratedReads @@ HandReads @@ decode_form_field_kind @@ ComputeReads

Slots ==
  {"Untyped", "Str", "Bool", "Float", "Int", "Options", "StringOpt", "StringList", "FloatSeq",
   "Markers", "Rows", "FloatPair", "StringPair"}
DialectBindings == [slot \in Slots |-> decode_binding_slot(slot)]

Dialect == [reads |-> DialectReads, bindings |-> DialectBindings]
=============================================================================
