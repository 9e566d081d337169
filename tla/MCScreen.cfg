CONSTANTS
  SCREEN_WIDTH = 6  SCREEN_HEIGHT = 6  DIRTY_TILE_SIZE = 2  SCREEN_SPLIT_GFX_HEIGHT = 4
  SCREEN_MAX_SPRITES = 2  FILL_STACK_SIZE = 16  GLYPH <- MCGlyph  Slots = {0, 1, 2}
  MAX_TURTLES = 2  TURTLE_HOME <- MCHome  SHAPE0_RASTER_SIZE = 3  BITMAP_RASTER_SIZE = 2
  TURTLE_RASTER_MAX = 4  Shapes = {1, 2}  COSTUME_POOL_SIZE = 8
  MAX_DEMONS = 2  DEMON_POLL_MS = 2
  TILE_SIZES = {2}  TILEMAP_MAX_SLOTS = 3  TILE_MAP_SIZE = 4
  Programs <- MCPrograms
SPECIFICATION Spec
INVARIANTS PanelTrue AddressedFirst TouchTrue TimeHonest EdgesTold
PROPERTIES FrameWhole DrawsTrue
