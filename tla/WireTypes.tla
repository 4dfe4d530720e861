------------------------------ MODULE WireTypes ------------------------------
(*
  The wire vocabulary: the closed enumerations, the tags of every union, the default of every
  member that is left out at its default, and the members of every record and union case with
  their types. A type is a sequence of words: containers from the outside in, then what they hold.
*)
EXTENDS WireCompute

EnumsToHashStrictness ==
  [ BadgeVariant |-> {"Neutral", "Brand", "Success", "Warning", "Critical", "Info"},
    BoxRole |-> {"Dashboard", "Card", "Group", "Separator"},
    ButtonVariant |-> {"Primary", "Secondary", "Tertiary", "Destructive"},
    CaptureSource |-> {"Camera", "Microphone"},
    ChannelDirection |-> {"OutOnly", "TwoWay"},
    ChartDataLabels |-> {"Off", "Ends"},
    ChartKind |-> {"Line", "Bar", "Area", "Pie", "Scatter", "Heatmap"},
    ChartLegendPosition |-> {"Top", "Right", "Bottom", "None"},
    ChartXScale |-> {"Category", "Temporal"},
    CompareOp |-> {"eq", "neq", "lt", "lte", "gt", "gte"},
    DateStyle |-> {"Short", "Medium", "Long", "Full"},
    DateTimeVariant |-> {"Date", "Time", "DateTime"},
    DeterminismSource |-> {"Deterministic", "Clock", "Random", "Network"},
    DurationStyle |-> {"Compact", "Clock", "Long"},
    DurationUnit |-> {"Seconds", "Minutes", "Hours"},
    EmbedPermission |-> {"AllowScripts", "AllowSameOrigin", "AllowForms", "AllowFullscreen"},
    Emphasis |-> {"Quiet", "Normal", "Loud"},
    FileReadEncoding |-> {"Text", "Base64", "DataUrl"},
    FontVoice |-> {"Default", "Display", "Structural"},
    HashStrictness |-> {"StrictReplay", "AdvisoryWarning", "Enforced"},
    HeadingVariant |-> {"Standard", "Eyebrow", "Caption", "Lead"},
    HostEffect |-> {"Pure", "ReadsHost", "WritesHost"} ]

EnumsToTrendPolarity ==
  [ IconSize |-> {"Small", "Medium", "Large"},
    ImageAspect |-> {"Natural", "Square", "FourThree", "ThreeTwo", "SixteenNine"},
    ImageFit |-> {"Natural", "Cover", "Contain"},
    ImageLoading |-> {"Eager", "Lazy"},
    ImageVariant |-> {"Default", "Avatar", "Rounded"},
    LinkProtection |-> {"email"},
    LiveRegionKind |-> {"polite", "assertive", "off"},
    MathDisplay |-> {"Inline", "Block"},
    ModalityKind |-> {"Modal", "Popover"},
    NavigateTarget |-> {"Self", "Blank"},
    Orientation |-> {"Vertical", "Horizontal"},
    RelativeTimeUnit |-> {"Second", "Minute", "Hour", "Day", "Week", "Month", "Year"},
    ScrollOrientation |-> {"Vertical", "Horizontal", "Both"},
    SortDirection |-> {"asc", "desc"},
    StyleRole |-> {"None", "Eyebrow", "Data", "Lede", "Caption"},
    StyleWeight |-> {"Compact", "Standard", "Spacious"},
    TextAnchor |-> {"Start", "Middle", "End"},
    TextDirection |-> {"auto", "ltr", "rtl"},
    TextFormat |-> {"email", "url", "tel"},
    TimeGrain |-> {"Second", "Minute", "Hour", "Day"},
    TimeStyle |-> {"Short", "Medium", "Long", "Full"},
    ToneVariant |-> {"Default", "Subdued", "Brand", "Success", "Warning", "Critical", "Info"},
    TrackKind |-> {"Subtitles", "Captions", "Descriptions", "Chapters"},
    TrendPolarity |-> {"HigherIsBetter", "LowerIsBetter"} ]

Enums == ComputeEnums @@ EnumsToHashStrictness @@ EnumsToTrendPolarity

TagsActionToHoleDecl ==
  [ Action |-> {"Chain", "WriteToClipboard", "Dispatch", "Invoke", "ReadFileBody", "Call", "Navigate",
          "CommitLocal", "Notify", "SetState", "AiTool", "Print", "Confirm", "Focus"},
    Binding |-> {"Static", "Query", "Filter", "Selection", "State", "Now", "Computed", "Local",
          "Format", "I18n", "Transform", "Expr", "Invoke"},
    BoxLayout |-> {"Auto", "Flex", "Grid", "Masonry"},
    CallResultTarget |-> {"State", "Query"},
    CellFormat |-> {"None", "Number", "Currency", "Percent", "SignificantDigits", "DateTime",
          "Duration", "RelativeTime", "Custom"},
    CellKindErased |-> {"Text", "Numeric", "Date", "Editable", "Checkbox", "Button", "ButtonGroup",
          "Link", "Pill", "TonedPill", "Progress", "Custom"},
    ChartAnnotation |-> {"ReferenceLine", "EventMarker", "RangeBand"},
    ChartAnnotationRange |-> {"ValueRange", "XRange"},
    ChartAnnotationX |-> {"Category", "Date"},
    ColumnWidth |-> {"Auto", "Fixed", "Flex"},
    CurveCommand |-> {"MoveTo", "LineTo", "CubicTo", "QuadraticTo", "Close"},
    FormFieldKind |-> {"Text", "Number", "Checkbox", "Toggle", "Choice", "TextArea", "RangedNumber",
          "Range", "SegmentedChoice", "DateTime", "DateTimeRange", "Combobox", "Rating", "Color",
          "Tokens"},
    Format |-> {"Number", "Currency", "Percent", "DateTime", "RelativeTime", "Duration", "Since"},
    FragmentArg |-> {"Int", "Float", "Bool", "Str", "SlotArg"},
    HoleDecl |-> {"Value", "Slot", "Repeat"} ]

TagsHoleValueSpaceToTreeOp ==
  [ HoleValueSpace |-> {"IntRange", "FloatRange", "StringLen", "Enum", "AnyString"},
    LocalFlushTrigger |-> {"OnBlur", "OnSubmit", "OnDebounce", "OnCommitAction"},
    LocaleSource |-> {"Ambient", "Explicit"},
    MediaKind |-> {"Video", "Audio"},
    FragmentScalar |-> {"Int", "Float", "Bool", "Str"},
    Shape |-> {"Group", "Rectangle", "Line", "Polyline", "Polygon", "Curve", "Circle", "Ellipse",
          "Label"},
    TextSource |-> {"Literal", "Bound", "I18n"},
    TreeOp |-> {"Batch", "EditNode", "InsertChild", "MoveNode", "PatchStyle", "RemoveNode",
          "ReorderChildren", "ReplaceBinding", "ReplaceRoot", "UpdateAccessibility", "UpdateProp",
          "UpdateState", "UpdateStyle", "UpdateTooltip"} ]

Tags == ComputeTags @@ TagsActionToHoleDecl @@ TagsHoleValueSpaceToTreeOp

Defaults ==
  [ BADGE_VARIANT |-> Str("Neutral"),
    BOX_KEEP_TOGETHER |-> Bool(FALSE),
    BOX_BREAK_BEFORE |-> Bool(FALSE),
    BUTTON_VARIANT |-> Str("Secondary"),
    CALLOUT_DISMISSABLE |-> Bool(FALSE),
    CALLOUT_TONE |-> Str("Default"),
    CHART_STACKED |-> Bool(FALSE),
    CODE_BLOCK_COPYABLE |-> Bool(TRUE),
    CODE_BLOCK_LINE_NUMBERS |-> Bool(FALSE),
    DATA_GRID_EDITABLE |-> Bool(FALSE),
    DATA_GRID_REORDERABLE |-> Bool(FALSE),
    DATA_GRID_KEEP_ROWS_TOGETHER |-> Bool(FALSE),
    DATA_GRID_REPEAT_HEADER |-> Bool(FALSE),
    DATA_GRID_EXPORTABLE |-> Bool(FALSE),
    EMBED_ASPECT_RATIO |-> Str("Natural"),
    FACT_EMPHASIS |-> Bool(FALSE),
    FACT_TONE |-> Str("Default"),
    FILE_UPLOAD_MULTIPLE |-> Bool(FALSE),
    FILE_UPLOAD_ACCEPT_PASTE |-> Bool(FALSE),
    FILE_UPLOAD_DROP_TARGET |-> Bool(FALSE),
    HEADING_VARIANT |-> Str("Standard"),
    ICON_SIZE |-> Str("Medium"),
    ICON_TONE |-> Str("Default"),
    IMAGE_VARIANT |-> Str("Default"),
    IMAGE_FIT |-> Str("Natural"),
    IMAGE_ASPECT_RATIO |-> Str("Natural"),
    IMAGE_LOADING |-> Str("Eager"),
    IMAGE_EXPANDABLE |-> Bool(FALSE),
    LABEL_VALUE_ROW_EMPHASIS |-> Bool(FALSE),
    LABEL_VALUE_ROW_FORMAT |-> Record("CellFormat_None", NoMembers),
    LINK_DOWNLOAD |-> Bool(FALSE),
    LIST_ORDERED |-> Bool(FALSE),
    MEDIA_CONTROLS |-> Bool(TRUE),
    MEDIA_LOOP |-> Bool(FALSE),
    METRIC_FORMAT |-> Record("CellFormat_None", NoMembers),
    METRIC_TONE |-> Str("Default"),
    METRIC_WEIGHT |-> Str("Standard"),
    METRIC_EMPHASIS |-> Str("Normal"),
    METRIC_TREND_POLARITY |-> Str("HigherIsBetter"),
    MODAL_DISMISSABLE |-> Bool(TRUE),
    MODAL_MODALITY |-> Str("Modal"),
    PROGRESS_INDETERMINATE |-> Bool(FALSE),
    PROGRESS_TONE |-> Str("Default"),
    TABS_ORIENTATION |-> Str("Horizontal"),
    TOAST_DISMISSABLE |-> Bool(TRUE),
    TOAST_TONE |-> Str("Default"),
    AFFORDANCE_CLEARABLE |-> Bool(FALSE),
    AFFORDANCE_NEVER_CONTROLLABLE |-> Bool(FALSE),
    COLUMN_ERASED_FORMAT |-> Record("CellFormat_None", NoMembers),
    COLUMN_ERASED_WIDTH |-> Record("ColumnWidth_Auto", NoMembers),
    FORM_FIELD_REQUIRED |-> Bool(FALSE),
    METRIC_COMPARISON_FORMAT |-> Record("CellFormat_None", NoMembers),
    METRIC_COMPARISON_POLARITY |-> Str("HigherIsBetter"),
    SEMANTIC_STYLE_DIRECTION |-> Str("auto"),
    SEMANTIC_STYLE_EMPHASIS |-> Str("Normal"),
    SEMANTIC_STYLE_ROLE |-> Str("None"),
    SEMANTIC_STYLE_TONE |-> Str("Default"),
    SEMANTIC_STYLE_VOICE |-> Str("Default"),
    SEMANTIC_STYLE_WEIGHT |-> Str("Standard"),
    TRACK_ENTRY_DEFAULT |-> Bool(FALSE),
    ACTION_NAVIGATE_TARGET |-> Str("Self"),
    BOX_LAYOUT_FLEX_WRAP |-> Bool(FALSE),
    CELL_KIND_ERASED_TONED_PILL_DEFAULT |-> Str("Default"),
    FORM_FIELD_KIND_SEGMENTED_CHOICE_ORIENTATION |-> Str("Horizontal"),
    FORM_FIELD_KIND_COMBOBOX_ALLOW_FREE_TEXT |-> Bool(FALSE),
    FORM_FIELD_KIND_RATING_ALLOW_HALF |-> Bool(FALSE),
    FORM_FIELD_KIND_TOKENS_ALLOW_FREE_TEXT |-> Bool(TRUE),
    MEDIA_KIND_VIDEO_AUTOPLAY |-> Bool(FALSE) ]

TypesBadgeToCustom ==
  [ BadgeSpec |-> [label |-> <<"TextSource">>, variant |-> <<"BadgeVariant">>],
    BoxSpec |-> [children |-> <<"list", "Node">>, heading |-> <<"maybe", "TextSource">>,
          layout |-> <<"BoxLayout">>, role |-> <<"BoxRole">>, keepTogether |-> <<"bool">>,
          breakBefore |-> <<"bool">>],
    ButtonSpec |-> [label |-> <<"TextSource">>, onClick |-> <<"Action">>,
          variant |-> <<"ButtonVariant">>, icon |-> <<"maybe", "string">>,
          disabled |-> <<"maybe", "Binding">>, affordance |-> <<"maybe", "Affordance">>],
    CalloutSpec |-> [body |-> <<"TextSource">>, dismissable |-> <<"bool">>, tone |-> <<"ToneVariant">>,
          heading |-> <<"maybe", "TextSource">>, icon |-> <<"maybe", "string">>],
    ChartSpec |-> [kind |-> <<"ChartKind">>, source |-> <<"Binding">>, stacked |-> <<"bool">>,
          xField |-> <<"string">>, yFields |-> <<"list", "string">>,
          title |-> <<"maybe", "TextSource">>, valueFormat |-> <<"maybe", "Format">>,
          xTitle |-> <<"maybe", "TextSource">>, yTitle |-> <<"maybe", "TextSource">>,
          subtitle |-> <<"maybe", "TextSource">>,
          legendPosition |-> <<"maybe", "ChartLegendPosition">>,
          dataLabels |-> <<"maybe", "ChartDataLabels">>, xScale |-> <<"maybe", "ChartXScale">>,
          annotations |-> <<"maybe", "list", "ChartAnnotation">>,
          onPointClick |-> <<"maybe", "closure">>],
    CodeBlockSpec |-> [code |-> <<"string">>, copyable |-> <<"bool">>,
          highlightLines |-> <<"list", "int">>, language |-> <<"string">>, lineNumbers |-> <<"bool">>],
    CustomSpec |-> [moduleId |-> <<"string">>, componentId |-> <<"string">>,
          props |-> <<"map", "json">>, contentHash |-> <<"maybe", "ContentHash">>,
          exposedNodeIds |-> <<"list", "string">>] ]

TypesGridToFact ==
  [ GridSpec |-> [columns |-> <<"list", "ColumnErased">>, editable |-> <<"bool">>,
          rowKey |-> <<"maybe", "closure">>, rowKeyField |-> <<"maybe", "string">>,
          sortStateKey |-> <<"maybe", "string">>, pageSize |-> <<"maybe", "int">>,
          pageStateKey |-> <<"maybe", "string">>, defaultSort |-> <<"maybe", "DefaultSort">>,
          editStateKey |-> <<"maybe", "string">>, reorderable |-> <<"bool">>,
          transferInKey |-> <<"maybe", "string">>, transferOutKey |-> <<"maybe", "string">>,
          keepRowsTogether |-> <<"bool">>, repeatHeader |-> <<"bool">>, exportable |-> <<"bool">>,
          windowStateKey |-> <<"maybe", "string">>, rowTotal |-> <<"maybe", "Binding">>,
          source |-> <<"Binding">>, staticRows |-> <<"maybe", "StaticRows">>,
          onRowClick |-> <<"maybe", "closure">>],
    DisclosureSpec |-> [children |-> <<"list", "Node">>, defaultOpen |-> <<"bool">>,
          heading |-> <<"TextSource">>, onToggle |-> <<"maybe", "closure">>, open |-> <<"Binding">>],
    DrawingSpec |-> [description |-> <<"maybe", "TextSource">>, shapes |-> <<"list", "Shape">>,
          style |-> <<"DrawStyle">>, title |-> <<"maybe", "TextSource">>, viewBox |-> <<"ViewBox">>],
    EmbedSpec |-> [aspectRatio |-> <<"ImageAspect">>, permissions |-> <<"list", "EmbedPermission">>,
          src |-> <<"Binding">>, title |-> <<"TextSource">>],
    ErrorBoundarySpec |-> [child |-> <<"Node">>, fallback |-> <<"Node">>],
    FactSpec |-> [emphasis |-> <<"bool">>, help |-> <<"maybe", "TextSource">>,
          icon |-> <<"maybe", "string">>, label |-> <<"TextSource">>, tone |-> <<"ToneVariant">>,
          value |-> <<"TextSource">>, reference |-> <<"maybe", "string">>] ]

TypesFileUploadToLabelValueRow ==
  [ FileUploadSpec |-> [accept |-> <<"list", "string">>, label |-> <<"TextSource">>,
          multiple |-> <<"bool">>, onSelect |-> <<"maybe", "closure">>,
          disabled |-> <<"maybe", "Binding">>, acceptPaste |-> <<"bool">>, dropTarget |-> <<"bool">>,
          capture |-> <<"maybe", "CaptureSource">>, destination |-> <<"maybe", "string">>,
          maxBytes |-> <<"maybe", "int">>, maxFiles |-> <<"maybe", "int">>],
    FormSpec |-> [fields |-> <<"list", "FormField">>, onSubmit |-> <<"Action">>,
          submitLabel |-> <<"TextSource">>, disabled |-> <<"maybe", "Binding">>],
    FragmentDeclSpec |-> [body |-> <<"Node">>, name |-> <<"string">>, holes |-> <<"list", "HoleDecl">>,
          effect |-> <<"EffectClass">>],
    FragmentRefSpec |-> [name |-> <<"string">>, args |-> <<"map", "FragmentArg">>],
    HeadingSpec |-> [level |-> <<"int">>, text |-> <<"TextSource">>, variant |-> <<"HeadingVariant">>],
    IconSpec |-> [icon |-> <<"string">>, size |-> <<"IconSize">>, tone |-> <<"ToneVariant">>,
          label |-> <<"maybe", "string">>],
    ImageSpec |-> [alt |-> <<"TextSource">>, src |-> <<"Binding">>, variant |-> <<"ImageVariant">>,
          fit |-> <<"ImageFit">>, aspectRatio |-> <<"ImageAspect">>, loading |-> <<"ImageLoading">>,
          srcSet |-> <<"list", "SrcSetEntry">>, expandable |-> <<"bool">>,
          caption |-> <<"maybe", "TextSource">>],
    LabelValueRowSpec |-> [emphasis |-> <<"bool">>, format |-> <<"CellFormat">>,
          label |-> <<"TextSource">>, value |-> <<"Binding">>, help |-> <<"maybe", "TextSource">>] ]

TypesLinkToScrollArea ==
  [ LinkSpec |-> [href |-> <<"Binding">>, label |-> <<"TextSource">>, download |-> <<"bool">>,
          rel |-> <<"maybe", "string">>, target |-> <<"maybe", "string">>,
          protection |-> <<"maybe", "LinkProtection">>],
    ListSpec |-> [items |-> <<"list", "TextSource">>, ordered |-> <<"bool">>],
    MapSpec |-> [centreLatitude |-> <<"float">>, centreLongitude |-> <<"float">>,
          source |-> <<"Binding">>, zoom |-> <<"int">>, onMarkerClick |-> <<"maybe", "closure">>],
    MarkdownSpec |-> [citations |-> <<"list", "MarkdownCitation">>, text |-> <<"TextSource">>],
    MathSpec |-> [source |-> <<"string">>, display |-> <<"MathDisplay">>],
    MediaSpec |-> [controls |-> <<"bool">>, kind |-> <<"MediaKind">>, label |-> <<"TextSource">>,
          loop |-> <<"bool">>, src |-> <<"Binding">>, tracks |-> <<"list", "TrackEntry">>,
          transcript |-> <<"maybe", "TextSource">>],
    MetricSpec |-> [label |-> <<"TextSource">>, value |-> <<"Binding">>, format |-> <<"CellFormat">>,
          tone |-> <<"ToneVariant">>, weight |-> <<"StyleWeight">>, emphasis |-> <<"Emphasis">>,
          trend |-> <<"maybe", "Binding">>, trendFormat |-> <<"maybe", "CellFormat">>,
          trendPolarity |-> <<"TrendPolarity">>, comparisons |-> <<"list", "MetricComparison">>,
          icon |-> <<"maybe", "string">>, subtext |-> <<"maybe", "TextSource">>],
    ModalSpec |-> [children |-> <<"list", "Node">>, dismissable |-> <<"bool">>,
          onDismiss |-> <<"maybe", "Action">>, open |-> <<"Binding">>,
          heading |-> <<"maybe", "TextSource">>, modality |-> <<"ModalityKind">>,
          anchor |-> <<"maybe", "string">>],
    MountSpec |-> [capabilities |-> <<"list", "string">>, channel |-> <<"MountChannel">>,
          inputs |-> <<"map", "FragmentArg">>, scopeId |-> <<"string">>],
    ProgressSpec |-> [fraction |-> <<"Binding">>, indeterminate |-> <<"bool">>,
          tone |-> <<"ToneVariant">>, label |-> <<"maybe", "TextSource">>,
          caveat |-> <<"maybe", "TextSource">>],
    ScrollAreaSpec |-> [children |-> <<"list", "Node">>, orientation |-> <<"ScrollOrientation">>,
          maxHeight |-> <<"maybe", "int">>, maxWidth |-> <<"maybe", "int">>] ]

TypesSelectToAffordanceAlias ==
  [ SelectSpec |-> [label |-> <<"TextSource">>, onChange |-> <<"maybe", "closure">>,
          onChangeMulti |-> <<"maybe", "closure">>, source |-> <<"Binding">>,
          value |-> <<"maybe", "Binding">>, placeholder |-> <<"maybe", "TextSource">>,
          disabled |-> <<"maybe", "Binding">>, multiple |-> <<"maybe", "bool">>,
          values |-> <<"maybe", "Binding">>, affordance |-> <<"maybe", "Affordance">>,
          groups |-> <<"list", "SelectOptionGroup">>],
    SkeletonSpec |-> [rows |-> <<"int">>],
    SparklineSpec |-> [source |-> <<"Binding">>],
    SplitPanelSpec |-> [children |-> <<"list", "Node">>, weight |-> <<"float">>],
    StepperSpec |-> [activeStep |-> <<"Binding">>, children |-> <<"list", "Node">>,
          onSelect |-> <<"maybe", "closure">>],
    SummaryListSpec |-> [children |-> <<"list", "Node">>, heading |-> <<"maybe", "TextSource">>],
    SwitchSpec |-> [autoAdvanceMs |-> <<"maybe", "int">>, cases |-> <<"list", "SwitchCase">>,
          default |-> <<"Node">>, on |-> <<"Binding">>],
    TabsSpec |-> [activeIndex |-> <<"Binding">>, children |-> <<"list", "Node">>,
          orientation |-> <<"Orientation">>, onSelect |-> <<"maybe", "closure">>,
          onSelectTag |-> <<"maybe", "closure">>, tabHeaders |-> <<"maybe", "list", "TabHeader">>,
          tabTags |-> <<"maybe", "list", "string">>, activeTag |-> <<"maybe", "Binding">>],
    ToastSpec |-> [dismissable |-> <<"bool">>, message |-> <<"TextSource">>, open |-> <<"Binding">>,
          tone |-> <<"ToneVariant">>],
    TreeSpec |-> [expandedStateKey |-> <<"maybe", "string">>, items |-> <<"list", "TreeItem">>,
          onSelect |-> <<"maybe", "closure">>, selectionStateKey |-> <<"maybe", "string">>],
    Accessibility |-> [describedBy |-> <<"maybe", "string">>, hidden |-> <<"maybe", "Binding">>,
          label |-> <<"maybe", "Binding">>, labelledBy |-> <<"maybe", "string">>,
          liveRegion |-> <<"maybe", "LiveRegionKind">>, role |-> <<"maybe", "string">>,
          speak |-> <<"maybe", "TextSource">>],
    Affordance |-> [patterns |-> <<"list", "string">>, readPatterns |-> <<"list", "string">>,
          aliases |-> <<"list", "AffordanceAlias">>, description |-> <<"maybe", "string">>,
          clearable |-> <<"bool">>, neverControllable |-> <<"bool">>],
    AffordanceAlias |-> [alias |-> <<"string">>, value |-> <<"string">>] ]

TypesColumnErasedToFormField ==
  [ ColumnErased |-> [field |-> <<"maybe", "string">>, sortable |-> <<"maybe", "bool">>,
          editable |-> <<"maybe", "bool">>, format |-> <<"CellFormat">>, kind |-> <<"CellKindErased">>,
          label |-> <<"string">>, value |-> <<"maybe", "closure">>, width |-> <<"ColumnWidth">>],
    CompareRule |-> [against |-> <<"Binding">>, op |-> <<"CompareOp">>],
    ContentHash |-> [algorithm |-> <<"string">>, hash |-> <<"string">>,
          strictness |-> <<"HashStrictness">>],
    DefaultSort |-> [column |-> <<"int">>, direction |-> <<"SortDirection">>],
    DrawPoint |-> [x |-> <<"float">>, y |-> <<"float">>],
    DrawStyle |-> [emphasis |-> <<"maybe", "Emphasis">>, fill |-> <<"maybe", "Binding">>,
          fontFamily |-> <<"maybe", "string">>, fontSize |-> <<"maybe", "float">>,
          markId |-> <<"maybe", "string">>, opacity |-> <<"maybe", "Binding">>,
          rotation |-> <<"maybe", "float">>, stroke |-> <<"maybe", "Binding">>,
          strokeWidth |-> <<"maybe", "Binding">>, textAnchor |-> <<"maybe", "TextAnchor">>,
          tip |-> <<"maybe", "TextSource">>],
    EffectClass |-> [determinism |-> <<"DeterminismSource">>, hostEffect |-> <<"HostEffect">>],
    FieldRule |-> [compare |-> <<"maybe", "CompareRule">>, format |-> <<"maybe", "TextFormat">>,
          maxLength |-> <<"maybe", "int">>, message |-> <<"maybe", "TextSource">>,
          minLength |-> <<"maybe", "int">>, pattern |-> <<"maybe", "string">>],
    FilterSpec |-> [kind |-> <<"FormFieldKind">>, label |-> <<"TextSource">>, name |-> <<"string">>],
    FormField |-> [id |-> <<"string">>, kind |-> <<"FormFieldKind">>, label |-> <<"TextSource">>,
          required |-> <<"bool">>, help |-> <<"maybe", "TextSource">>,
          rule |-> <<"maybe", "FieldRule">>, affordance |-> <<"maybe", "Affordance">>] ]

TypesMountChannelToTableCitation ==
  [ MountChannel |-> [direction |-> <<"ChannelDirection">>, messageShape |-> <<"maybe", "string">>],
    InvokeArg |-> [addr |-> <<"string">>, value |-> <<"string">>],
    MapMarker |-> [label |-> <<"TextSource">>, latitude |-> <<"float">>, longitude |-> <<"float">>],
    MarkdownCitation |-> [label |-> <<"maybe", "TextSource">>, name |-> <<"string">>,
          reference |-> <<"string">>],
    MetricComparison |-> [label |-> <<"TextSource">>, value |-> <<"Binding">>,
          format |-> <<"CellFormat">>, polarity |-> <<"TrendPolarity">>],
    SelectOption |-> [label |-> <<"TextSource">>, value |-> <<"string">>],
    SelectOptionGroup |-> [label |-> <<"string">>, values |-> <<"list", "string">>],
    SemanticStyle |-> [direction |-> <<"TextDirection">>, emphasis |-> <<"Emphasis">>,
          role |-> <<"StyleRole">>, tone |-> <<"ToneVariant">>, voice |-> <<"FontVoice">>,
          weight |-> <<"StyleWeight">>],
    SrcSetEntry |-> [src |-> <<"Binding">>, width |-> <<"int">>],
    StateBehaviour |-> [onEmpty |-> <<"maybe", "Node">>, onError |-> <<"maybe", "closure">>,
          onLoading |-> <<"maybe", "Node">>],
    StaticRows |-> [citations |-> <<"list", "TableCitation">>,
          defaultSort |-> <<"maybe", "DefaultSort">>, headers |-> <<"list", "TextSource">>,
          rows |-> <<"list", "list", "TextSource">>, sortable |-> <<"maybe", "bool">>],
    StyleDelta |-> [direction |-> <<"maybe", "TextDirection">>, emphasis |-> <<"maybe", "Emphasis">>,
          role |-> <<"maybe", "StyleRole">>, tone |-> <<"maybe", "ToneVariant">>,
          voice |-> <<"maybe", "FontVoice">>, weight |-> <<"maybe", "StyleWeight">>],
    SwitchCase |-> [child |-> <<"Node">>, condition |-> <<"SwitchCondition">>],
    TabHeader |-> [label |-> <<"TextSource">>, icon |-> <<"maybe", "string">>,
          disabled |-> <<"maybe", "Binding">>],
    TableCitation |-> [column |-> <<"int">>, label |-> <<"maybe", "TextSource">>,
          reference |-> <<"string">>, row |-> <<"int">>] ]

TypesTrackEntryToAction ==
  [ TrackEntry |-> [default |-> <<"bool">>, kind |-> <<"TrackKind">>, label |-> <<"TextSource">>,
          src |-> <<"Binding">>, srcLang |-> <<"string">>],
    TransformParam |-> [from |-> <<"Binding">>, name |-> <<"string">>],
    TreeItem |-> [children |-> <<"list", "TreeItem">>, icon |-> <<"maybe", "string">>,
          id |-> <<"string">>, label |-> <<"TextSource">>],
    ViewBox |-> [height |-> <<"float">>, minX |-> <<"float">>, minY |-> <<"float">>,
          width |-> <<"float">>],
    Action_Chain |-> [m0 |-> <<"list", "Action">>],
    Action_WriteToClipboard |-> [text |-> <<"TextSource">>],
    Action_Dispatch |-> NoMembers,
    Action_Invoke |-> [capabilityId |-> <<"string">>, args |-> <<"list", "InvokeArg">>],
    Action_ReadFileBody |-> [fileRef |-> <<"string">>, encoding |-> <<"FileReadEncoding">>],
    Action_Call |-> [endpoint |-> <<"string">>, onResult |-> <<"maybe", "closure">>,
          into |-> <<"maybe", "CallResultTarget">>],
    Action_Navigate |-> [route |-> <<"TextSource">>, target |-> <<"NavigateTarget">>],
    Action_CommitLocal |-> [nodeId |-> <<"string">>],
    Action_Notify |-> [channel |-> <<"string">>, payload |-> <<"json">>],
    Action_SetState |-> [key |-> <<"string">>, value |-> <<"maybe", "json">>,
          valueFrom |-> <<"maybe", "Binding">>],
    Action_AiTool |-> [toolName |-> <<"string">>, args |-> <<"json">>],
    Action_Print |-> NoMembers,
    Action_Confirm |-> [prompt |-> <<"TextSource">>, onConfirm |-> <<"Action">>,
          onCancel |-> <<"maybe", "Action">>],
    Action_Focus |-> [nodeId |-> <<"string">>] ]

TypesBinding ==
  [ Binding_Static |-> [value |-> <<"StaticValue">>],
    Binding_Query |-> [name |-> <<"string">>, dependsOn |-> <<"maybe", "list", "string">>],
    Binding_Filter |-> [name |-> <<"string">>, defaultValue |-> <<"maybe", "StaticValue">>],
    Binding_Selection |-> [nodeId |-> <<"string">>, defaultValue |-> <<"maybe", "StaticValue">>,
          field |-> <<"maybe", "string">>],
    Binding_State |-> [key |-> <<"string">>, defaultValue |-> <<"StaticValue">>,
          defaultDeclared |-> <<"bool">>],
    Binding_Now |-> [grain |-> <<"maybe", "TimeGrain">>],
    Binding_Computed |-> NoMembers,
    Binding_Local |-> [flushOn |-> <<"LocalFlushTrigger">>, initialFrom |-> <<"Binding">>,
          onCommit |-> <<"maybe", "closure">>, codec |-> <<"maybe", "Format">>,
          commitTo |-> <<"maybe", "string">>],
    Binding_Format |-> [source |-> <<"Binding">>, format |-> <<"Format">>,
          locale |-> <<"LocaleSource">>],
    Binding_I18n |-> [key |-> <<"string">>, args |-> <<"maybe", "map", "Binding">>],
    Binding_Transform |-> [source |-> <<"TransformSource">>, pipeline |-> <<"list", "TransformStep">>,
          params |-> <<"maybe", "list", "TransformParam">>],
    Binding_Expr |-> [expr |-> <<"ColExpr">>, params |-> <<"maybe", "list", "TransformParam">>],
    Binding_Invoke |-> [capabilityId |-> <<"string">>, args |-> <<"list", "InvokeArg">>] ]

TypesBoxLayoutToChartAnnotation ==
  [ BoxLayout_Auto |-> NoMembers,
    BoxLayout_Flex |-> [direction |-> <<"Orientation">>, wrap |-> <<"bool">>,
          gap |-> <<"maybe", "int">>],
    BoxLayout_Grid |-> [cols |-> <<"int">>, templateColumns |-> <<"maybe", "string">>,
          gap |-> <<"maybe", "int">>],
    BoxLayout_Masonry |-> [cols |-> <<"int">>, gap |-> <<"maybe", "int">>],
    CallResultTarget_State |-> [key |-> <<"string">>],
    CallResultTarget_Query |-> [name |-> <<"string">>],
    CellFormat_None |-> NoMembers,
    CellFormat_Number |-> [decimals |-> <<"maybe", "int">>, locale |-> <<"maybe", "LocaleSource">>],
    CellFormat_Currency |-> [code |-> <<"string">>, decimals |-> <<"maybe", "int">>,
          locale |-> <<"maybe", "LocaleSource">>],
    CellFormat_Percent |-> [decimals |-> <<"maybe", "int">>, locale |-> <<"maybe", "LocaleSource">>],
    CellFormat_SignificantDigits |-> [digits |-> <<"int">>],
    CellFormat_DateTime |-> [format |-> <<"string">>],
    CellFormat_Duration |-> [unit |-> <<"DurationUnit">>, style |-> <<"DurationStyle">>],
    CellFormat_RelativeTime |-> [unit |-> <<"RelativeTimeUnit">>],
    CellFormat_Custom |-> NoMembers,
    CellKindErased_Text |-> NoMembers,
    CellKindErased_Numeric |-> NoMembers,
    CellKindErased_Date |-> NoMembers,
    CellKindErased_Editable |-> NoMembers,
    CellKindErased_Checkbox |-> NoMembers,
    CellKindErased_Button |-> [label |-> <<"TextSource">>],
    CellKindErased_ButtonGroup |-> [labels |-> <<"list", "TextSource">>],
    CellKindErased_Link |-> NoMembers,
    CellKindErased_Pill |-> NoMembers,
    CellKindErased_TonedPill |-> [field |-> <<"string">>, map |-> <<"map", "ToneVariant">>,
          defaultTone |-> <<"ToneVariant">>],
    CellKindErased_Progress |-> NoMembers,
    CellKindErased_Custom |-> NoMembers,
    ChartAnnotation_ReferenceLine |-> [value |-> <<"float">>, label |-> <<"maybe", "TextSource">>],
    ChartAnnotation_EventMarker |-> [at |-> <<"ChartAnnotationX">>, label |-> <<"maybe", "TextSource">>],
    ChartAnnotation_RangeBand |-> [range |-> <<"ChartAnnotationRange">>,
          label |-> <<"maybe", "TextSource">>] ]

TypesChartAnnotationRangeToCurveCommand ==
  [ ChartAnnotationRange_ValueRange |-> [from |-> <<"float">>, to |-> <<"float">>],
    ChartAnnotationRange_XRange |-> [from |-> <<"ChartAnnotationX">>, to |-> <<"ChartAnnotationX">>],
    ChartAnnotationX_Category |-> [m0 |-> <<"string">>],
    ChartAnnotationX_Date |-> [m0 |-> <<"string">>],
    ColumnWidth_Auto |-> NoMembers,
    ColumnWidth_Fixed |-> [pixels |-> <<"int">>],
    ColumnWidth_Flex |-> [weight |-> <<"float">>],
    CurveCommand_MoveTo |-> [m0 |-> <<"DrawPoint">>],
    CurveCommand_LineTo |-> [m0 |-> <<"DrawPoint">>],
    CurveCommand_CubicTo |-> [control1 |-> <<"DrawPoint">>, control2 |-> <<"DrawPoint">>,
          to |-> <<"DrawPoint">>],
    CurveCommand_QuadraticTo |-> [control |-> <<"DrawPoint">>, to |-> <<"DrawPoint">>],
    CurveCommand_Close |-> NoMembers ]

TypesFormFieldKind ==
  [ FormFieldKind_Text |-> [value |-> <<"Binding">>, onChange |-> <<"maybe", "closure">>],
    FormFieldKind_Number |-> [value |-> <<"Binding">>, onChange |-> <<"maybe", "closure">>],
    FormFieldKind_Checkbox |-> [value |-> <<"Binding">>, onChange |-> <<"maybe", "closure">>],
    FormFieldKind_Toggle |-> [value |-> <<"Binding">>, onChange |-> <<"maybe", "closure">>],
    FormFieldKind_Choice |-> [options |-> <<"Binding">>, value |-> <<"Binding">>,
          onChange |-> <<"maybe", "closure">>],
    FormFieldKind_TextArea |-> [value |-> <<"Binding">>, onChange |-> <<"maybe", "closure">>,
          rows |-> <<"int">>],
    FormFieldKind_RangedNumber |-> [value |-> <<"Binding">>, onChange |-> <<"maybe", "closure">>,
          min |-> <<"maybe", "float">>, max |-> <<"maybe", "float">>, step |-> <<"maybe", "float">>],
    FormFieldKind_Range |-> [value |-> <<"Binding">>, onChange |-> <<"maybe", "closure">>,
          min |-> <<"maybe", "float">>, max |-> <<"maybe", "float">>, step |-> <<"maybe", "float">>],
    FormFieldKind_SegmentedChoice |-> [options |-> <<"Binding">>, value |-> <<"Binding">>,
          onChange |-> <<"maybe", "closure">>, orientation |-> <<"Orientation">>],
    FormFieldKind_DateTime |-> [value |-> <<"Binding">>, onChange |-> <<"maybe", "closure">>,
          variant |-> <<"DateTimeVariant">>, min |-> <<"maybe", "string">>,
          max |-> <<"maybe", "string">>, step |-> <<"maybe", "float">>],
    FormFieldKind_DateTimeRange |-> [value |-> <<"Binding">>, onChange |-> <<"maybe", "closure">>,
          variant |-> <<"DateTimeVariant">>, min |-> <<"maybe", "string">>,
          max |-> <<"maybe", "string">>, step |-> <<"maybe", "float">>],
    FormFieldKind_Combobox |-> [allowFreeText |-> <<"bool">>, onChange |-> <<"maybe", "closure">>,
          options |-> <<"Binding">>, value |-> <<"Binding">>],
    FormFieldKind_Rating |-> [allowHalf |-> <<"bool">>, max |-> <<"int">>,
          onChange |-> <<"maybe", "closure">>, value |-> <<"Binding">>],
    FormFieldKind_Color |-> [onChange |-> <<"maybe", "closure">>, value |-> <<"Binding">>],
    FormFieldKind_Tokens |-> [allowFreeText |-> <<"bool">>, onChange |-> <<"maybe", "closure">>,
          suggestions |-> <<"maybe", "Binding">>, value |-> <<"Binding">>] ]

TypesFormatToFragmentScalar ==
  [ Format_Number |-> [decimals |-> <<"maybe", "int">>],
    Format_Currency |-> [isoCode |-> <<"string">>, decimals |-> <<"maybe", "int">>],
    Format_Percent |-> [decimals |-> <<"maybe", "int">>],
    Format_DateTime |-> [dateStyle |-> <<"maybe", "DateStyle">>, timeStyle |-> <<"maybe", "TimeStyle">>],
    Format_RelativeTime |-> [unit |-> <<"RelativeTimeUnit">>],
    Format_Duration |-> [unit |-> <<"DurationUnit">>, style |-> <<"DurationStyle">>],
    Format_Since |-> [unit |-> <<"maybe", "RelativeTimeUnit">>],
    HoleDecl_Value |-> [name |-> <<"string">>, space |-> <<"HoleValueSpace">>,
          default |-> <<"maybe", "FragmentScalar">>],
    HoleDecl_Slot |-> [name |-> <<"string">>, kindConstraint |-> <<"maybe", "string">>],
    HoleDecl_Repeat |-> [name |-> <<"string">>, countSpace |-> <<"HoleValueSpace">>],
    HoleValueSpace_IntRange |-> [min |-> <<"int">>, max |-> <<"int">>],
    HoleValueSpace_FloatRange |-> [min |-> <<"float">>, max |-> <<"float">>],
    HoleValueSpace_StringLen |-> [minLen |-> <<"int">>, maxLen |-> <<"int">>],
    HoleValueSpace_Enum |-> [choices |-> <<"list", "string">>],
    HoleValueSpace_AnyString |-> NoMembers,
    LocalFlushTrigger_OnBlur |-> NoMembers,
    LocalFlushTrigger_OnSubmit |-> NoMembers,
    LocalFlushTrigger_OnDebounce |-> [milliseconds |-> <<"int">>],
    LocalFlushTrigger_OnCommitAction |-> NoMembers,
    LocaleSource_Ambient |-> NoMembers,
    LocaleSource_Explicit |-> [tag |-> <<"string">>],
    MediaKind_Video |-> [autoplay |-> <<"bool">>, poster |-> <<"maybe", "Binding">>],
    MediaKind_Audio |-> NoMembers,
    FragmentScalar_Int |-> [m0 |-> <<"int">>],
    FragmentScalar_Float |-> [m0 |-> <<"float">>],
    FragmentScalar_Bool |-> [m0 |-> <<"bool">>],
    FragmentScalar_Str |-> [m0 |-> <<"string">>] ]

TypesShapeToTextSource ==
  [ Shape_Group |-> [children |-> <<"list", "Shape">>, style |-> <<"DrawStyle">>],
    Shape_Rectangle |-> [x |-> <<"float">>, y |-> <<"float">>, width |-> <<"float">>,
          height |-> <<"float">>, cornerRadius |-> <<"maybe", "float">>, style |-> <<"DrawStyle">>],
    Shape_Line |-> [x1 |-> <<"float">>, y1 |-> <<"float">>, x2 |-> <<"float">>, y2 |-> <<"float">>,
          style |-> <<"DrawStyle">>],
    Shape_Polyline |-> [points |-> <<"list", "DrawPoint">>, style |-> <<"DrawStyle">>],
    Shape_Polygon |-> [points |-> <<"list", "DrawPoint">>, style |-> <<"DrawStyle">>],
    Shape_Curve |-> [commands |-> <<"list", "CurveCommand">>, style |-> <<"DrawStyle">>],
    Shape_Circle |-> [cx |-> <<"float">>, cy |-> <<"float">>, r |-> <<"float">>,
          style |-> <<"DrawStyle">>],
    Shape_Ellipse |-> [cx |-> <<"float">>, cy |-> <<"float">>, rx |-> <<"float">>, ry |-> <<"float">>,
          style |-> <<"DrawStyle">>],
    Shape_Label |-> [x |-> <<"float">>, y |-> <<"float">>, text |-> <<"TextSource">>,
          style |-> <<"DrawStyle">>],
    TextSource_Literal |-> [m0 |-> <<"string">>],
    TextSource_Bound |-> [m0 |-> <<"Binding">>],
    TextSource_I18n |-> [key |-> <<"string">>, args |-> <<"map", "I18nArg">>] ]

TypesNodeToTreeOp ==
  [ Node |-> [id |-> <<"string">>, kind |-> <<"NodeKind">>,
          accessibility |-> <<"maybe", "Accessibility">>, fallback |-> <<"maybe", "Node">>,
          state |-> <<"StateBehaviour">>, style |-> <<"SemanticStyle">>,
          tooltip |-> <<"maybe", "TextSource">>, visible |-> <<"maybe", "Binding">>],
    TreeOp_Batch |-> [m0 |-> <<"list", "TreeOp">>],
    TreeOp_EditNode |-> [newKind |-> <<"NodeKind">>, target |-> <<"string">>],
    TreeOp_InsertChild |-> [child |-> <<"Node">>, parentId |-> <<"string">>],
    TreeOp_MoveNode |-> [newParentId |-> <<"string">>, target |-> <<"string">>],
    TreeOp_PatchStyle |-> [style |-> <<"StyleDelta">>, target |-> <<"string">>],
    TreeOp_RemoveNode |-> [target |-> <<"string">>],
    TreeOp_ReorderChildren |-> [newOrder |-> <<"list", "string">>, parentId |-> <<"string">>],
    TreeOp_ReplaceBinding |-> [binding |-> <<"Binding">>, slot |-> <<"string">>,
          target |-> <<"string">>],
    TreeOp_ReplaceRoot |-> [node |-> <<"Node">>],
    TreeOp_UpdateAccessibility |-> [accessibility |-> <<"Accessibility">>, target |-> <<"string">>],
    TreeOp_UpdateProp |-> [path |-> <<"string">>, target |-> <<"string">>, value |-> <<"json">>],
    TreeOp_UpdateState |-> [state |-> <<"StateBehaviour">>, target |-> <<"string">>],
    TreeOp_UpdateStyle |-> [style |-> <<"SemanticStyle">>, target |-> <<"string">>],
    TreeOp_UpdateTooltip |-> [target |-> <<"string">>, tooltip |-> <<"maybe", "TextSource">>] ]

Types == ComputeTypes @@ TypesBadgeToCustom @@ TypesGridToFact @@ TypesFileUploadToLabelValueRow @@
  TypesLinkToScrollArea @@ TypesSelectToAffordanceAlias @@ TypesColumnErasedToFormField @@
  TypesMountChannelToTableCitation @@ TypesTrackEntryToAction @@ TypesBinding @@
  TypesBoxLayoutToChartAnnotation @@ TypesChartAnnotationRangeToCurveCommand @@
  TypesFormFieldKind @@ TypesFormatToFragmentScalar @@ TypesShapeToTextSource @@ TypesNodeToTreeOp

\* What a member of an enumeration is called elsewhere.
DialectSpellings ==
  [ BadgeVariant |-> [Default |-> "Neutral", Danger |-> "Critical"],
    ButtonVariant |-> [Danger |-> "Destructive"],
    HeadingVariant |-> [Default |-> "Standard"],
    Orientation |-> [Row |-> "Horizontal", row |-> "Horizontal", Column |-> "Vertical",
          column |-> "Vertical"],
    ToneVariant |-> [Positive |-> "Success", Danger |-> "Critical", Negative |-> "Critical",
          Neutral |-> "Default"] ]

Spellings == ComputeSpellings @@ DialectSpellings

(*
  The construct tokens this host claims in its capability manifest: every record and union case by
  the name the manifest gives it, with the members it says it understands.
*)
TokensAccessibilityToCellKindErasedEditable ==
  [ Accessibility |-> {"describedBy", "hidden", "label", "labelledBy", "liveRegion", "role", "speak"},
    Action_AiTool |-> {"args", "toolName"},
    Action_Call |-> {"endpoint", "into", "onResult"},
    Action_Chain |-> {"ops"},
    Action_CommitLocal |-> {"nodeId"},
    Action_Confirm |-> {"onCancel", "onConfirm", "prompt"},
    Action_Dispatch |-> {},
    Action_Focus |-> {"nodeId"},
    Action_Invoke |-> {"args", "capabilityId"},
    Action_Navigate |-> {"route", "target"},
    Action_Notify |-> {"channel", "payload"},
    Action_Print |-> {},
    Action_ReadFileBody |-> {"encoding", "fileRef", "onRead"},
    Action_SetState |-> {"key", "value", "valueFrom"},
    Action_WriteToClipboard |-> {"text"},
    Affordance |-> {"aliases", "clearable", "description", "neverControllable", "patterns",
          "readPatterns"},
    AffordanceAlias |-> {"alias", "value"},
    Binding_Computed |-> {"fn"},
    Binding_Expr |-> {"expr", "params"},
    Binding_Filter |-> {"defaultValue", "name"},
    Binding_Format |-> {"format", "locale", "source"},
    Binding_I18n |-> {"args", "key"},
    Binding_Invoke |-> {"args", "capabilityId"},
    Binding_Local |-> {"codec", "commitTo", "flushOn", "format", "initialFrom", "onCommit", "parse"},
    Binding_Now |-> {"grain"},
    Binding_Query |-> {"dependsOn", "name"},
    Binding_Selection |-> {"defaultValue", "field", "nodeId"},
    Binding_State |-> {"defaultValue", "key"},
    Binding_Static |-> {"value"},
    Binding_Transform |-> {"params", "pipeline", "source"},
    BoxLayout_Auto |-> {},
    BoxLayout_Flex |-> {"direction", "gap", "wrap"},
    BoxLayout_Grid |-> {"cols", "gap", "templateColumns"},
    BoxLayout_Masonry |-> {"cols", "gap"},
    ButtonGroupItem |-> {"label", "onClick"},
    CallResultTarget_Query |-> {"name"},
    CallResultTarget_State |-> {"key"},
    CellFormat_Currency |-> {"code", "decimals", "locale"},
    CellFormat_Custom |-> {"fn"},
    CellFormat_DateTime |-> {"format"},
    CellFormat_Duration |-> {"style", "unit"},
    CellFormat_None |-> {},
    CellFormat_Number |-> {"decimals", "locale"},
    CellFormat_Percent |-> {"decimals", "locale"},
    CellFormat_RelativeTime |-> {"unit"},
    CellFormat_SignificantDigits |-> {"digits"},
    CellKindErased_Button |-> {"label", "onClick"},
    CellKindErased_ButtonGroup |-> {"buttons"},
    CellKindErased_Checkbox |-> {"get", "onToggle"},
    CellKindErased_Custom |-> {"fn"},
    CellKindErased_Date |-> {},
    CellKindErased_Editable |-> {"onEdit"} ]

TokensCellKindErasedLinkToFormFieldKindRating ==
  [ CellKindErased_Link |-> {"hrefFn", "labelFn"},
    CellKindErased_Numeric |-> {},
    CellKindErased_Pill |-> {"labelFn", "toneFn"},
    CellKindErased_Progress |-> {"fractionFn", "labelFn"},
    CellKindErased_Text |-> {},
    CellKindErased_TonedPill |-> {"default", "field", "map"},
    ChartAnnotation_EventMarker |-> {"at", "label"},
    ChartAnnotation_RangeBand |-> {"label", "range"},
    ChartAnnotation_ReferenceLine |-> {"label", "value"},
    ChartAnnotationRange_ValueRange |-> {"from", "to"},
    ChartAnnotationRange_XRange |-> {"from", "to"},
    ChartAnnotationX_Category |-> {"key"},
    ChartAnnotationX_Date |-> {"iso"},
    ColumnErased |-> {"editable", "field", "format", "kind", "label", "sortable", "value", "width"},
    ColumnWidth_Auto |-> {},
    ColumnWidth_Fixed |-> {"pixels"},
    ColumnWidth_Flex |-> {"weight"},
    CompareRule |-> {"against", "op"},
    ContentHash |-> {"algorithm", "hash", "strictness"},
    CurveCommand_Close |-> {},
    CurveCommand_CubicTo |-> {"control1", "control2", "to"},
    CurveCommand_LineTo |-> {"to"},
    CurveCommand_MoveTo |-> {"to"},
    CurveCommand_QuadraticTo |-> {"control", "to"},
    DateTimeRangePair |-> {"from", "to"},
    DefaultSort |-> {"column", "direction"},
    DrawPoint |-> {"x", "y"},
    DrawStyle |-> {"emphasis", "fill", "fontFamily", "fontSize", "markId", "opacity", "rotation",
          "stroke", "strokeWidth", "textAnchor", "tip"},
    EffectClass |-> {"determinism", "hostEffect"},
    FieldRule |-> {"compare", "format", "maxLength", "message", "minLength", "pattern"},
    FilterSpec |-> {"kind", "label", "name"},
    FormField |-> {"affordance", "help", "id", "kind", "label", "required", "rule"},
    FormFieldKind_Checkbox |-> {"onChange", "value"},
    FormFieldKind_Choice |-> {"onChange", "options", "value"},
    FormFieldKind_Color |-> {"onChange", "value"},
    FormFieldKind_Combobox |-> {"allowFreeText", "onChange", "options", "value"},
    FormFieldKind_DateTime |-> {"max", "min", "onChange", "step", "value", "variant"},
    FormFieldKind_DateTimeRange |-> {"max", "min", "onChange", "step", "value", "variant"},
    FormFieldKind_Number |-> {"onChange", "value"},
    FormFieldKind_Range |-> {"max", "min", "onChange", "step", "value"},
    FormFieldKind_RangedNumber |-> {"max", "min", "onChange", "step", "value"},
    FormFieldKind_Rating |-> {"allowHalf", "max", "onChange", "value"} ]

TokensFormFieldKindSegmentedChoiceToKindDataGrid ==
  [ FormFieldKind_SegmentedChoice |-> {"onChange", "options", "orientation", "value"},
    FormFieldKind_Text |-> {"onChange", "value"},
    FormFieldKind_TextArea |-> {"onChange", "rows", "value"},
    FormFieldKind_Toggle |-> {"onChange", "value"},
    FormFieldKind_Tokens |-> {"allowFreeText", "onChange", "suggestions", "value"},
    Format_Currency |-> {"decimals", "isoCode"},
    Format_DateTime |-> {"dateStyle", "timeStyle"},
    Format_Duration |-> {"style", "unit"},
    Format_Number |-> {"decimals"},
    Format_Percent |-> {"decimals"},
    Format_RelativeTime |-> {"unit"},
    Format_Since |-> {"unit"},
    FragmentArg_Bool |-> {"value"},
    FragmentArg_Float |-> {"value"},
    FragmentArg_Int |-> {"value"},
    FragmentArg_SlotArg |-> {"tree"},
    FragmentArg_Str |-> {"value"},
    GuestChannel |-> {"direction", "messageShape"},
    HoleDecl_Repeat |-> {"countSpace", "name"},
    HoleDecl_Slot |-> {"kindConstraint", "name"},
    HoleDecl_Value |-> {"default", "name", "space"},
    HoleValueSpace_AnyString |-> {},
    HoleValueSpace_Enum |-> {"choices"},
    HoleValueSpace_FloatRange |-> {"max", "min"},
    HoleValueSpace_IntRange |-> {"max", "min"},
    HoleValueSpace_StringLen |-> {"maxLen", "minLen"},
    InvokeArg |-> {"addr", "value"},
    Kind_Badge |-> {"label", "variant"},
    Kind_Box |-> {"breakBefore", "children", "heading", "keepTogether", "layout", "role"},
    Kind_Button |-> {"affordance", "disabled", "icon", "label", "onClick", "variant"},
    Kind_Callout |-> {"body", "dismissable", "heading", "icon", "tone"},
    Kind_Chart |-> {"annotations", "dataLabels", "kind", "legendPosition", "onPointClick", "source",
          "stacked", "subtitle", "title", "valueFormat", "xField", "xScale", "xTitle", "yFields",
          "yTitle"},
    Kind_CodeBlock |-> {"code", "copyable", "highlightLines", "language", "lineNumbers"},
    Kind_Custom |-> {"componentId", "contentHash", "exposedNodeIds", "moduleId", "props"},
    Kind_DataGrid |-> {"columns", "defaultSort", "editStateKey", "editable", "exportable",
          "keepRowsTogether", "onRowClick", "pageSize", "pageStateKey", "reorderable", "repeatHeader",
          "rowKey", "rowKeyField", "rowTotal", "sortStateKey", "source", "staticRows", "transferInKey",
          "transferOutKey", "windowStateKey"} ]

TokensKindDisclosureToKindScrollArea ==
  [ Kind_Disclosure |-> {"children", "defaultOpen", "heading", "onToggle", "open"},
    Kind_Drawing |-> {"description", "shapes", "style", "title", "viewBox"},
    Kind_Embed |-> {"aspectRatio", "permissions", "src", "title"},
    Kind_ErrorBoundary |-> {"child", "fallback"},
    Kind_Fact |-> {"emphasis", "help", "icon", "label", "reference", "tone", "value"},
    Kind_FileUpload |-> {"accept", "acceptPaste", "capture", "destination", "disabled", "dropTarget",
          "label", "maxBytes", "maxFiles", "multiple", "onSelect"},
    Kind_Filters |-> {"items"},
    Kind_Form |-> {"disabled", "fields", "onSubmit", "submitLabel"},
    Kind_FragmentDecl |-> {"body", "effect", "holes", "name"},
    Kind_FragmentRef |-> {"args", "name"},
    Kind_Heading |-> {"level", "text", "variant"},
    Kind_Icon |-> {"icon", "label", "size", "tone"},
    Kind_Image |-> {"alt", "aspectRatio", "caption", "expandable", "fit", "loading", "src", "srcSet",
          "variant"},
    Kind_LabelValueRow |-> {"emphasis", "format", "help", "label", "value"},
    Kind_Link |-> {"download", "href", "label", "protection", "rel", "target"},
    Kind_List |-> {"items", "ordered"},
    Kind_Map |-> {"centreLatitude", "centreLongitude", "onMarkerClick", "source", "zoom"},
    Kind_Markdown |-> {"citations", "text"},
    Kind_Math |-> {"display", "source"},
    Kind_Media |-> {"controls", "kind", "label", "loop", "src", "tracks", "transcript"},
    Kind_Metric |-> {"comparisons", "emphasis", "format", "icon", "label", "subtext", "tone", "trend",
          "trendFormat", "trendPolarity", "value", "weight"},
    Kind_Modal |-> {"anchor", "children", "dismissable", "heading", "modality", "onDismiss", "open"},
    Kind_Mount |-> {"capabilities", "channel", "inputs", "onBubble", "scopeId"},
    Kind_Progress |-> {"caveat", "fraction", "indeterminate", "label", "tone"},
    Kind_ScrollArea |-> {"children", "maxHeight", "maxWidth", "orientation"} ]

TokensKindSelectToStyleDelta ==
  [ Kind_Select |-> {"affordance", "disabled", "groups", "label", "multiple", "onChange",
          "onChangeMulti", "placeholder", "source", "value", "values"},
    Kind_Skeleton |-> {"rows"},
    Kind_Sparkline |-> {"source"},
    Kind_SplitPanel |-> {"children", "weight"},
    Kind_Stepper |-> {"activeStep", "children", "onSelect"},
    Kind_SummaryList |-> {"children", "heading"},
    Kind_Switch |-> {"autoAdvanceMs", "cases", "default", "on", "stateKey"},
    Kind_Tabs |-> {"activeIndex", "activeTag", "children", "onSelect", "onSelectTag", "orientation",
          "tabHeaders", "tabTags"},
    Kind_Toast |-> {"dismissable", "message", "open", "tone"},
    Kind_Tree |-> {"expandedStateKey", "items", "onSelect", "selectionStateKey"},
    LocalFlushTrigger_OnBlur |-> {},
    LocalFlushTrigger_OnCommitAction |-> {},
    LocalFlushTrigger_OnDebounce |-> {"milliseconds"},
    LocalFlushTrigger_OnSubmit |-> {},
    LocaleSource_Ambient |-> {},
    LocaleSource_Explicit |-> {"tag"},
    MapMarker |-> {"label", "latitude", "longitude"},
    MarkdownCitation |-> {"label", "name", "reference"},
    MediaKind_Audio |-> {},
    MediaKind_Video |-> {"autoplay", "poster"},
    MetricComparison |-> {"format", "label", "polarity", "value"},
    RangePair |-> {"max", "min"},
    Scalar |-> {"Bool", "Bool.value", "Float", "Float.value", "Int", "Int.value", "Str", "Str.value"},
    SelectOption |-> {"label", "value"},
    SelectOptionGroup |-> {"label", "values"},
    SemanticStyle |-> {"direction", "emphasis", "role", "tone", "voice", "weight"},
    Shape_Circle |-> {"cx", "cy", "r", "style"},
    Shape_Curve |-> {"commands", "style"},
    Shape_Ellipse |-> {"cx", "cy", "rx", "ry", "style"},
    Shape_Group |-> {"children", "style"},
    Shape_Label |-> {"style", "text", "x", "y"},
    Shape_Line |-> {"style", "x1", "x2", "y1", "y2"},
    Shape_Polygon |-> {"points", "style"},
    Shape_Polyline |-> {"points", "style"},
    Shape_Rectangle |-> {"cornerRadius", "height", "style", "width", "x", "y"},
    SrcSetEntry |-> {"src", "width"},
    StateBehaviour |-> {"onEmpty", "onError", "onLoading"},
    StaticRows |-> {"citations", "defaultSort", "headers", "rows", "sortable"},
    StyleDelta |-> {"direction", "emphasis", "role", "tone", "voice", "weight"} ]

TokensSwitchCaseToViewBox ==
  [ SwitchCase |-> {"child", "match", "when"},
    TabHeader |-> {"disabled", "icon", "label"},
    TableCitation |-> {"column", "label", "reference", "row"},
    TextSource_Bound |-> {"binding"},
    TextSource_I18n |-> {"args", "key"},
    TextSource_Literal |-> {"text"},
    TrackEntry |-> {"default", "kind", "label", "src", "srcLang"},
    TransformParam |-> {"from", "name"},
    TreeItem |-> {"children", "icon", "id", "label"},
    ViewBox |-> {"height", "minX", "minY", "width"} ]

Tokens == TokensAccessibilityToCellKindErasedEditable @@
  TokensCellKindErasedLinkToFormFieldKindRating @@
  TokensFormFieldKindSegmentedChoiceToKindDataGrid @@ TokensKindDisclosureToKindScrollArea @@
  TokensKindSelectToStyleDelta @@ TokensSwitchCaseToViewBox
=============================================================================
