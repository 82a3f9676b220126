CONSTANTS
  Statuses = {200, 206, 404, 408, 500}
  Types = {"image/svg+xml", "image/x-tga", "image/png", "image/heic", "text/html", "video/mp4", "none"}
  Data = {"webp", "png", "jpeg", "gif", "avif", "tiff", "jxl", "jp2", "jxr", "pdf", "mng", "avis", "vips", "svg", "other"}
  NoEntry = NoEntry
  NoAnswer = NoAnswer
SPECIFICATION Spec
INVARIANT FallbackAnswersImage
INVARIANT ImmutableMeansImage
INVARIANT EntryIsAnswer
CHECK_DEADLOCK FALSE
